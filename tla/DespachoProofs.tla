--------------------------- MODULE DespachoProofs ---------------------------
(* Theorems about Despacho, for every set of processes, CPUs and syscalls.   *)
(* InvReady (types and the count of the ready queue) and InvLugar (every     *)
(* t_pcb in one place) hold with both algorithms and every answer of Kernel  *)
(* Memory; InvFifo, when nothing preempts; InvFichas, with the quantum too;  *)
(* InvAcks, with compactions.                                                *)
EXTENDS Despacho, SequenceTheorems, FiniteSetTheorems, WellFoundedInduction, TLAPS

-----------------------------------------------------------------------------
(* Facts about the helpers.                                                  *)

\* A set of positions of a list has a first one.
LEMMA HayPrimero ==
    ASSUME NEW T \in SUBSET Nat, T # {}
    PROVE  \E i \in T : \A j \in T : i <= j
<1> DEFINE R == {ss \in Nat \X Nat : ss[1] < ss[2]}
<1>1. IsWellFoundedOn(R, Nat)
  BY NatLessThanWellFounded, Zenon DEF OpToRel
<1>2. \E i \in T : \A j \in T : ~ (<<j, i>> \in R)
  <2> HIDE DEF R
  <2> QED BY <1>1, WFMin, Zenon
<1>3. \A i, j \in Nat : j < i => <<j, i>> \in R
  OBVIOUS
<1>4. PICK i \in T : \A j \in T : ~ (<<j, i>> \in R)
  BY <1>2
<1>5. ASSUME NEW j \in T PROVE i <= j
  <2> HIDE DEF R
  <2>1. ~ (j < i)
    BY <1>3, <1>4
  <2>2. QED
    BY <2>1
<1>6. QED
  BY <1>5

\* The scan of exec_lista returns a CPU of the list with the process, or NULL.
LEMMA PrimeraConTipo ==
    ASSUME TypeOK, NEW x
    PROVE  /\ PrimeraCon(x) \in CpuONadie
           /\ PrimeraCon(x) # Nadie => /\ PrimeraCon(x) \in CPUS
                                       /\ cpu[PrimeraCon(x)].pcb = x
<1> DEFINE donde == {i \in DOMAIN exec_lista : cpu[exec_lista[i]].pcb = x}
<1>1. donde \in SUBSET Nat /\ \A i \in donde : exec_lista[i] \in CPUS
  BY ElementOfSeq, LenProperties DEF TypeOK
<1>2. CASE donde = {}
  BY <1>2 DEF PrimeraCon, CpuONadie
<1>3. CASE donde # {}
  <2> DEFINE k == CHOOSE i \in donde : \A j \in donde : i <= j
  <2>1. k \in donde
    BY <1>1, <1>3, HayPrimero
  <2>2. PrimeraCon(x) = exec_lista[k]
    BY <1>3 DEF PrimeraCon
  <2>3. QED
    BY <1>1, <2>1, <2>2 DEF CpuONadie
<1>4. QED
  BY <1>2, <1>3

\* A control message for a process leaves the sockets well typed.
LEMMA ConControlTipo ==
    ASSUME TypeOK, NEW d \in CPUS, NEW t \in INTERRUPCIONES \cup ORDENES, NEW p,
           cpu[d].control \/ p \in PIDS
    PROVE  ConControl(d, t, p) \in [CPUS -> Seq(MsjACpu)]
<1>1. CASE cpu[d].control
  BY <1>1 DEF ConControl, TypeOK
<1>2. CASE ~cpu[d].control
  <2>1. Msj(t, p) \in MsjACpu
    BY <1>2 DEF Msj, MsjACpu
  <2>2. Append(a_cpu[d], Msj(t, p)) \in Seq(MsjACpu)
    BY <2>1, AppendProperties DEF TypeOK
  <2>3. QED
    BY <1>2, <2>2 DEF ConControl, TypeOK
<1>3. QED
  BY <1>1, <1>2

\* What a CPU reads from its socket, and what it leaves there.
LEMMA LeerTipo ==
    ASSUME TypeOK, NEW c \in CPUS, a_cpu[c] # <<>>
    PROVE  /\ Head(a_cpu[c]) \in MsjACpu
           /\ [a_cpu EXCEPT ![c] = Tail(@)] \in [CPUS -> Seq(MsjACpu)]
  BY HeadTailProperties DEF TypeOK

\* A CPU that answers with a message of the protocol.
LEMMA ResponderTipo ==
    ASSUME TypeOK, NEW c \in CPUS, NEW m \in MsjAPlan
    PROVE  [a_plan EXCEPT ![c] = Append(@, m)] \in [CPUS -> Seq(MsjAPlan)]
<1>1. Append(a_plan[c], m) \in Seq(MsjAPlan)
  BY AppendProperties DEF TypeOK
<1>2. QED
  BY <1>1 DEF TypeOK

\* What a handler reads from its socket, and what it leaves there.
LEMMA RecibirTipo ==
    ASSUME TypeOK, NEW c \in CPUS, NEW tipos, NEW r, a_plan[c] # <<>>,
           Recibir(c, tipos, r)
    PROVE  /\ Head(a_plan[c]).pid \in PIDS
           /\ a_plan' \in [CPUS -> Seq(MsjAPlan)]
<1>1. Head(a_plan[c]) \in MsjAPlan /\ Tail(a_plan[c]) \in Seq(MsjAPlan)
  BY HeadTailProperties DEF TypeOK
<1>2. QED
  BY <1>1 DEF Recibir, TypeOK, MsjAPlan

\* A handler goes on: its record is the only one that changes.
LEMMA SeguirMano ==
    ASSUME TypeOK, EnLaMano, NEW c \in CPUS, NEW r \in RegManejador, ConLoSuyo(r),
           manejador' = [manejador EXCEPT ![c] = r], UNCHANGED planif
    PROVE  /\ manejador' \in [CPUS -> RegManejador]
           /\ EnLaMano'
  BY DEF TypeOK, EnLaMano, ConLoSuyo, PlanPaso

LEMMA OciosoTipo == Ocioso \in RegManejador /\ ConLoSuyo(Ocioso)
<1>1. <<>> \in Seq(Nat)
  BY EmptySeq
<1>2. QED
  BY <1>1 DEF Ocioso, RegManejador, ConLoSuyo, PASOS, PidONadie, CpuONadie

\* A step that leaves the planner, the ready queue and their semaphore alone.
LEMMA ReadyIgual ==
    ASSUME ReadyContado, UNCHANGED <<planif, ready>>, sem'.ready = sem.ready
    PROVE  ReadyContado'
  BY DEF ReadyContado, TieneTurno

LEMMA InicioReady == Init => InvReady
<1> SUFFICES ASSUME Init PROVE InvReady
  OBVIOUS
<1>1. PICK p \in PIDS : /\ vida = [q \in PIDS |-> IF q = p THEN "vivo" ELSE "nuevo"]
                        /\ ready = <<p>>
  BY DEF Init
<1>2. ready \in Seq(PIDS) /\ Len(ready) = 1
  BY <1>1
<1>3. /\ <<>> \in Seq(CPUS) /\ <<>> \in Seq(MsjACpu) /\ <<>> \in Seq(MsjAPlan)
      /\ <<>> \in Seq(PIDS)
  BY EmptySeq
<1>4. vida \in [PIDS -> {"nuevo", "vivo", "fin"}]
  BY <1>1
<1>5. CpuNueva \in RegCpu
  BY DEF CpuNueva, RegCpu, PidONadie
<1>6. planif \in RegPlanif
  BY DEF Init, RegPlanif, PLAN_PASOS, PidONadie, CpuONadie
<1>a. sem \in [ready : Nat, cpu : Nat, desalojo : Nat]
  BY DEF Init
<1>b. /\ exec_lista = <<>> /\ cola_sleep = <<>>
      /\ cpu = [c \in CPUS |-> CpuNueva] /\ manejador = [c \in CPUS |-> Ocioso]
      /\ a_cpu = [c \in CPUS |-> <<>>] /\ a_plan = [c \in CPUS |-> <<>>]
      /\ corre = [c \in CPUS |-> Nadie] /\ temporizador = [c \in CPUS |-> Nadie]
      /\ block = {} /\ compactando = FALSE /\ mutex_socket = Nadie
      /\ caida = "no" /\ compactaciones = 0
  BY DEF Init
<1>7. TypeOK
  BY <1>2, <1>3, <1>4, <1>5, <1>6, <1>a, <1>b, OciosoTipo DEF TypeOK, PidONadie, CpuONadie
<1>8. EnLaMano
  BY OciosoTipo DEF Init, EnLaMano, PlanPaso
<1>9. ReadyContado
  BY <1>2 DEF Init, ReadyContado, TieneTurno
<1>10. QED
  BY <1>7, <1>8, <1>9 DEF InvReady

-----------------------------------------------------------------------------
(* One lemma per part of Next.                                               *)

LEMMA CaerInv == ASSUME InvReady, NEW m \in {"nulo", "bsod"}, Caer(m) PROVE InvReady'
  BY DEF InvReady, TypeOK, EnLaMano, PlanPaso, ReadyContado, TieneTurno, Caer, colas, memoria

LEMMA ConectarInv == ASSUME InvReady, NEW c \in CPUS, ConectarCpu(c) PROVE InvReady'
<1> USE DEF InvReady
<1>1. Append(exec_lista, c) \in Seq(CPUS)
  BY AppendProperties DEF TypeOK
<1>2. CpuNueva \in RegCpu
  BY DEF CpuNueva, RegCpu, PidONadie
<1>s. sem \in [ready : Nat, cpu : Nat, desalojo : Nat]
  BY DEF TypeOK
<1>3. sem' \in [ready : Nat, cpu : Nat, desalojo : Nat] /\ sem'.ready = sem.ready
  <2>1. CASE compactando
    BY <1>s, <2>1 DEF ConectarCpu
  <2>2. CASE ~compactando
    BY <1>s, <2>2 DEF ConectarCpu
  <2>3. QED
    BY <2>1, <2>2
<1>4. TypeOK'
  BY <1>1, <1>2, <1>3 DEF ConectarCpu, TypeOK, colas, memoria
<1>5. EnLaMano'
  BY DEF ConectarCpu, EnLaMano, PlanPaso
<1>6. ReadyContado'
  BY <1>3, ReadyIgual DEF ConectarCpu, colas
<1>7. QED
  BY <1>4, <1>5, <1>6

\* The CPU touches its sockets and the process it executes.
LEMMA EnCpuInv ==
    ASSUME InvReady, EnCpu, a_cpu' \in [CPUS -> Seq(MsjACpu)],
           a_plan' \in [CPUS -> Seq(MsjAPlan)], corre' \in [CPUS -> PidONadie]
    PROVE  InvReady'
  BY DEF InvReady, EnCpu, TypeOK, EnLaMano, PlanPaso, ReadyContado, TieneTurno, colas, memoria

LEMMA CpuInv == ASSUME InvReady, NEW c \in CPUS, Cpu(c) PROVE InvReady'
<1> USE DEF InvReady
<1>1. a_cpu[c] # <<>> /\ EnCpu /\ a_cpu' = [a_cpu EXCEPT ![c] = Tail(@)]
  BY DEF Cpu, CpuOciosa, hay_interrupcion
<1> DEFINE m == Head(a_cpu[c])
<1>2. m \in MsjACpu /\ a_cpu' \in [CPUS -> Seq(MsjACpu)]
  BY <1>1, LeerTipo
<1>3. m.tipo \in INTERRUPCIONES => m \in MsjAPlan
  BY <1>2 DEF MsjACpu, MsjAPlan
<1>c. corre' \in {corre, [corre EXCEPT ![c] = m.pid], [corre EXCEPT ![c] = Nadie]}
  BY DEF Cpu, CpuOciosa, hay_interrupcion
<1>4. corre' \in [CPUS -> PidONadie]
  BY <1>2, <1>c DEF TypeOK, PidONadie, MsjACpu
<1>5. \/ m.tipo \in INTERRUPCIONES /\ a_plan' = [a_plan EXCEPT ![c] = Append(@, m)]
      \/ UNCHANGED a_plan
  BY DEF Cpu, CpuOciosa, hay_interrupcion
<1>6. a_plan' \in [CPUS -> Seq(MsjAPlan)]
  <2>1. CASE UNCHANGED a_plan
    BY <2>1 DEF TypeOK
  <2>2. CASE m \in MsjAPlan /\ a_plan' = [a_plan EXCEPT ![c] = Append(@, m)]
    BY <2>2, ResponderTipo
  <2>3. QED
    BY <1>3, <1>5, <2>1, <2>2
<1>7. QED
  BY <1>1, <1>2, <1>4, <1>6, EnCpuInv

LEMMA SyscallInv ==
    ASSUME InvReady, NEW c \in CPUS, NEW s \in SYSCALLS, Syscall(c, s) PROVE InvReady'
<1> USE DEF InvReady
<1>1. Msj(s, corre[c]) \in MsjAPlan
  BY DEF Syscall, Msj, MsjAPlan, TypeOK, PidONadie
<1>2. a_plan' \in [CPUS -> Seq(MsjAPlan)]
  BY <1>1, ResponderTipo DEF Syscall
<1>3. QED
  BY <1>2, EnCpuInv DEF Syscall, TypeOK, PidONadie

-----------------------------------------------------------------------------
(* The threads atender_cliente.                                              *)

Sem == [ready : Nat, cpu : Nat, desalojo : Nat]

\* A handler goes on with record r: what it changed has its type, and it posts
\* sem_hay_proceso_ready once for each process it queues.
LEMMA SeguirInv ==
    ASSUME InvReady, NEW c \in CPUS,
           NEW r \in RegManejador, ConLoSuyo(r), manejador' = [manejador EXCEPT ![c] = r],
           UNCHANGED <<exec_lista, corre, planif, temporizador>>,
           cpu' \in [CPUS -> RegCpu],
           a_cpu' \in [CPUS -> Seq(MsjACpu)], a_plan' \in [CPUS -> Seq(MsjAPlan)],
           ready' \in Seq(PIDS), block' \in SUBSET PIDS, cola_sleep' \in Seq(PIDS),
           sem' \in Sem, compactando' \in BOOLEAN, mutex_socket' \in CpuONadie,
           vida' \in [PIDS -> {"nuevo", "vivo", "fin"}], caida' \in {"no", "nulo", "bsod"},
           compactaciones' \in Nat,
           sem'.ready - sem.ready = Len(ready') - Len(ready)
    PROVE  InvReady'
<1> USE DEF InvReady
<1>1. manejador' \in [CPUS -> RegManejador] /\ EnLaMano'
  BY SeguirMano
<1>2. TypeOK'
  BY <1>1 DEF TypeOK, Sem
<1>3. sem.ready \in Int /\ sem'.ready \in Int /\ Len(ready) \in Int /\ Len(ready') \in Int
  BY LenProperties DEF TypeOK, Sem
<1>4. ReadyContado'
  BY <1>3 DEF ReadyContado, TieneTurno
<1>5. QED
  BY <1>1, <1>2, <1>4

\* The same when the queues and the memory stay as they are.
LEMMA SeguirSinColas ==
    ASSUME InvReady, NEW c \in CPUS,
           NEW r \in RegManejador, ConLoSuyo(r), manejador' = [manejador EXCEPT ![c] = r],
           UNCHANGED <<exec_lista, corre, planif, temporizador, colas, memoria, vida, caida>>,
           cpu' \in [CPUS -> RegCpu],
           a_cpu' \in [CPUS -> Seq(MsjACpu)], a_plan' \in [CPUS -> Seq(MsjAPlan)],
           sem' \in Sem, sem'.ready = sem.ready
    PROVE  InvReady'
<1>1. TypeOK /\ Len(ready) \in Nat
  BY LenProperties DEF InvReady, TypeOK
<1>2. UNCHANGED <<ready, block, cola_sleep, compactando, mutex_socket, compactaciones>>
  BY DEF colas, memoria
<1>3. sem'.ready - sem.ready = Len(ready') - Len(ready)
  BY <1>1, <1>2 DEF Sem
<1>4. QED
  BY <1>1, <1>2, <1>3, SeguirInv DEF TypeOK

\* Reading a message, by a section that changes nothing else.
LEMMA RecibirInv ==
    ASSUME InvReady, NEW c \in CPUS, NEW tipos,
           NEW r \in RegManejador, ConLoSuyo(r), a_plan[c] # <<>>, Recibir(c, tipos, r),
           UNCHANGED <<exec_lista, a_cpu, corre, planif, temporizador, colas, sem,
                       memoria, vida, caida>>,
           cpu' \in [CPUS -> RegCpu]
    PROVE  InvReady'
<1>1. a_plan' \in [CPUS -> Seq(MsjAPlan)]
  BY RecibirTipo DEF InvReady
<1>2. manejador' = [manejador EXCEPT ![c] = r]
  BY DEF Recibir
<1>3. sem' \in Sem /\ sem'.ready = sem.ready /\ a_cpu' \in [CPUS -> Seq(MsjACpu)]
  BY DEF InvReady, TypeOK, Sem
<1>4. QED
  BY <1>1, <1>2, <1>3, SeguirSinColas

\* FINALIZAR_POR_QUANTUM, EXIT and COMPACTACION.
LEMMA SacarDeCpuInv ==
    ASSUME InvReady, NEW c \in CPUS, a_plan[c] # <<>>, NEW tipos, NEW limpia,
           NEW paso \in {"encolar", "fin_memoria", "enlistar_primero"},
           SacarDeCpu(c, tipos, limpia, paso)
    PROVE  InvReady'
<1> USE DEF InvReady
<1> DEFINE p == Head(a_plan[c]).pid
           d == encontrar_cpu_con_pid(p)
           r == IF d = Nadie THEN Ocioso
                ELSE [Ocioso EXCEPT !.paso = paso, !.pid = p, !.cpu = d, !.pcb = p]
           q == [pcb |-> Nadie,
                 control |-> IF "control" \in limpia THEN FALSE ELSE cpu[d].control,
                 ack |-> IF "ack" \in limpia THEN FALSE ELSE cpu[d].ack]
<1>1. Recibir(c, tipos, r)
  BY DEF SacarDeCpu
<1>2. p \in PIDS
  BY <1>1, RecibirTipo
<1>3. d # Nadie => d \in CPUS
  BY PrimeraConTipo DEF encontrar_cpu_con_pid
<1>4. r \in RegManejador /\ ConLoSuyo(r)
  BY <1>2, <1>3, OciosoTipo DEF Ocioso, RegManejador, ConLoSuyo, PASOS, PidONadie, CpuONadie
<1>5. cpu' \in [CPUS -> RegCpu]
  <2>1. CASE d = Nadie
    BY <2>1 DEF SacarDeCpu, TypeOK
  <2>2. CASE d # Nadie
    <3>1. q \in RegCpu
      BY <1>3, <2>2 DEF TypeOK, RegCpu, PidONadie
    <3>2. cpu' = [cpu EXCEPT ![d] = q]
      BY <2>2 DEF SacarDeCpu
    <3>3. QED
      BY <3>1, <3>2 DEF TypeOK
  <2>3. QED
    BY <2>1, <2>2
<1>6. QED
  BY <1>1, <1>4, <1>5, RecibirInv DEF SacarDeCpu

\* SLEEP and MEM_ALLOC.
LEMMA BuscarCpuInv ==
    ASSUME InvReady, NEW c \in CPUS, NEW tipo, NEW paso \in {"leer_pcb", "pedir"},
           BuscarCpu(c, tipo, paso)
    PROVE  InvReady'
<1> USE DEF InvReady
<1> DEFINE p == Head(a_plan[c]).pid
           d == encontrar_cpu_con_pid(p)
           r == IF d = Nadie THEN Ocioso
                ELSE [Ocioso EXCEPT !.paso = paso, !.pid = p, !.cpu = d]
<1>1. a_plan[c] # <<>> /\ Recibir(c, {tipo}, r)
  BY DEF BuscarCpu
<1>2. p \in PIDS
  BY <1>1, RecibirTipo
<1>3. d # Nadie => d \in CPUS
  BY PrimeraConTipo DEF encontrar_cpu_con_pid
<1>4. r \in RegManejador /\ ConLoSuyo(r)
  BY <1>2, <1>3, OciosoTipo DEF Ocioso, RegManejador, ConLoSuyo, PASOS, PidONadie, CpuONadie
<1>5. QED
  BY <1>1, <1>4, RecibirInv DEF BuscarCpu, TypeOK

LEMMA BuscarTipo ==
    ASSUME NEW p \in PIDS
    PROVE  /\ [Ocioso EXCEPT !.paso = "buscar", !.pid = p] \in RegManejador
           /\ ConLoSuyo([Ocioso EXCEPT !.paso = "buscar", !.pid = p])
  BY OciosoTipo DEF Ocioso, RegManejador, ConLoSuyo, PASOS, PidONadie, CpuONadie

LEMMA MemFreeInv == ASSUME InvReady, NEW c \in CPUS, MEM_FREE(c) PROVE InvReady'
<1> USE DEF InvReady
<1> DEFINE r == [Ocioso EXCEPT !.paso = "buscar", !.pid = Head(a_plan[c]).pid]
<1>1. a_plan[c] # <<>> /\ Recibir(c, {"MEM_FREE"}, r)
  BY DEF MEM_FREE
<1>2. r \in RegManejador /\ ConLoSuyo(r)
  BY <1>1, RecibirTipo, BuscarTipo
<1>3. QED
  BY <1>1, <1>2, RecibirInv DEF MEM_FREE, TypeOK

\* The child is queued and counted, or nothing of it is left.
LEMMA InitProcInv ==
    ASSUME InvReady, NEW c \in CPUS, INIT_PROC(c, PIDS) PROVE InvReady'
<1> USE DEF InvReady
<1> DEFINE r == [Ocioso EXCEPT !.paso = "buscar", !.pid = Head(a_plan[c]).pid]
<1>1. a_plan[c] # <<>> /\ Recibir(c, {"INIT_PROC"}, r)
  BY DEF INIT_PROC
<1>2. r \in RegManejador /\ ConLoSuyo(r) /\ a_plan' \in [CPUS -> Seq(MsjAPlan)]
  BY <1>1, RecibirTipo, BuscarTipo
<1>3. manejador' = [manejador EXCEPT ![c] = r]
  BY <1>1 DEF Recibir
<1>4. /\ ready' \in Seq(PIDS) /\ sem' \in Sem
      /\ vida' \in [PIDS -> {"nuevo", "vivo", "fin"}]
      /\ sem'.ready - sem.ready = Len(ready') - Len(ready)
  <2>0. ready \in Seq(PIDS) /\ Len(ready) \in Nat /\ sem \in Sem
    BY LenProperties DEF TypeOK, Sem
  <2>1. ASSUME NEW hijo \in PIDS, vida' = [vida EXCEPT ![hijo] = "vivo"],
               ready' = Append(ready, hijo), sem' = [sem EXCEPT !.ready = @ + 1]
        PROVE  <1>4!:
    <3>1. ready' \in Seq(PIDS) /\ Len(ready') = Len(ready) + 1
      BY <2>0, <2>1, AppendProperties
    <3>2. sem' \in Sem /\ sem'.ready = sem.ready + 1
      BY <2>0, <2>1 DEF Sem
    <3>3. vida' \in [PIDS -> {"nuevo", "vivo", "fin"}]
      BY <2>1 DEF TypeOK
    <3>4. sem'.ready - sem.ready = Len(ready') - Len(ready)
      BY <2>0, <3>1, <3>2 DEF Sem
    <3>5. QED
      BY <3>1, <3>2, <3>3, <3>4
  <2>2. CASE UNCHANGED <<vida, ready, sem>>
    BY <2>0, <2>2 DEF TypeOK, Sem
  <2>3. QED
    BY <2>1, <2>2 DEF INIT_PROC
<1>5. QED
  BY <1>2, <1>3, <1>4, SeguirInv DEF INIT_PROC, TypeOK, memoria

\* The process goes back to the end, or to the front, of the ready queue.
LEMMA EncolarInv ==
    ASSUME InvReady, NEW c \in CPUS, EncolarReady(c) \/ enlistar_primero_ready(c)
    PROVE  InvReady'
<1> USE DEF InvReady
<1> DEFINE p == manejador[c].pcb
<1>1. p \in PIDS
  BY DEF EncolarReady, enlistar_primero_ready, Paso, EnLaMano, ConLoSuyo
<1>2. ready \in Seq(PIDS) /\ Len(ready) \in Nat /\ sem \in Sem
  BY LenProperties DEF TypeOK, Sem
<1>3. <<p>> \in Seq(PIDS) /\ Len(<<p>>) = 1
  BY <1>1
<1>4. ready' \in Seq(PIDS) /\ Len(ready') = Len(ready) + 1
  <2>1. CASE EncolarReady(c)
    BY <1>1, <1>2, <2>1, AppendProperties DEF EncolarReady
  <2>2. CASE enlistar_primero_ready(c)
    <3>1. ready' = <<p>> \o ready
      BY <2>2 DEF enlistar_primero_ready
    <3>2. QED
      BY <1>2, <1>3, <3>1, ConcatProperties
  <2>3. QED
    BY <2>1, <2>2
<1>5. sem' \in Sem /\ sem'.ready = sem.ready + 1
  <2>1. CASE EncolarReady(c)
    <3>1. sem' = [ready |-> sem.ready + 1, cpu |-> sem.cpu + 1, desalojo |-> sem.desalojo]
      BY <1>2, <2>1 DEF EncolarReady, Sem
    <3>2. QED
      BY <1>2, <3>1 DEF Sem
  <2>2. CASE enlistar_primero_ready(c)
    <3>1. sem' = [ready |-> sem.ready + 1, cpu |-> sem.cpu, desalojo |-> sem.desalojo + 1]
      BY <1>2, <2>2 DEF enlistar_primero_ready, Sem
    <3>2. QED
      BY <1>2, <3>1 DEF Sem
  <2>3. QED
    BY <2>1, <2>2
<1>6. sem'.ready - sem.ready = Len(ready') - Len(ready)
  BY <1>2, <1>4, <1>5 DEF Sem
<1>7. manejador' = [manejador EXCEPT ![c] = Ocioso]
  BY DEF EncolarReady, enlistar_primero_ready, Seguir
<1>8. UNCHANGED <<exec_lista, cpu, a_cpu, a_plan, corre, planif, temporizador, block,
                  cola_sleep, memoria, vida, caida>>
  BY DEF EncolarReady, enlistar_primero_ready
<1>9. QED
  BY <1>4, <1>5, <1>6, <1>7, <1>8, OciosoTipo, SeguirInv DEF TypeOK, memoria

\* Only the record of the handler changes.
LEMMA SoloSeguir ==
    ASSUME InvReady, NEW c \in CPUS, NEW r \in RegManejador, ConLoSuyo(r),
           Seguir(c, r),
           UNCHANGED <<exec_lista, cpu, a_cpu, a_plan, corre, planif, temporizador, colas,
                       sem, memoria, vida, caida>>
    PROVE  InvReady'
  BY SeguirSinColas DEF InvReady, TypeOK, Sem, Seguir

LEMMA FinMemoriaInv ==
    ASSUME InvReady, NEW c \in CPUS, enviar_fin_proceso_memory(c) PROVE InvReady'
<1> DEFINE r == [manejador[c] EXCEPT !.paso = "fin_cpu"]
<1>1. manejador[c] \in RegManejador /\ ConLoSuyo(manejador[c])
      /\ manejador[c].paso = "fin_memoria"
  BY DEF InvReady, TypeOK, EnLaMano, enviar_fin_proceso_memory, Paso
<1>2. r \in RegManejador
  BY <1>1 DEF RegManejador, PASOS
<1>3. ConLoSuyo(r)
  BY <1>1 DEF ConLoSuyo, RegManejador
<1>4. QED
  BY <1>2, <1>3, SoloSeguir DEF enviar_fin_proceso_memory

LEMMA FinCpuInv ==
    ASSUME InvReady, NEW c \in CPUS, enviar_fin_proceso_a_cpu(c) PROVE InvReady'
<1> USE DEF InvReady
<1> DEFINE d == manejador[c].cpu
           p == manejador[c].pcb
<1>1. d \in CPUS /\ p \in PIDS
  BY DEF enviar_fin_proceso_a_cpu, Paso, EnLaMano, ConLoSuyo
<1>2. a_cpu' \in [CPUS -> Seq(MsjACpu)]
  BY <1>1, ConControlTipo DEF enviar_fin_proceso_a_cpu, ORDENES
<1>3. cpu' \in [CPUS -> RegCpu]
  <2>1. cpu \in [CPUS -> RegCpu]
    BY DEF TypeOK
  <2>2. [cpu[d] EXCEPT !.control = TRUE] \in RegCpu
    BY <1>1, <2>1 DEF RegCpu
  <2>3. cpu' = [cpu EXCEPT ![d] = [cpu[d] EXCEPT !.control = TRUE]]
    BY <1>1, <2>1 DEF enviar_fin_proceso_a_cpu
  <2>4. QED
    BY <1>1, <2>1, <2>2, <2>3
<1>4. sem \in Sem
  BY DEF TypeOK, Sem
<1>5. sem' \in Sem /\ sem'.ready = sem.ready
  BY <1>4 DEF enviar_fin_proceso_a_cpu, Sem
<1>6. vida' \in [PIDS -> {"nuevo", "vivo", "fin"}]
  BY DEF enviar_fin_proceso_a_cpu, TypeOK
<1>7. sem'.ready - sem.ready = Len(ready') - Len(ready) /\ ready' = ready
  BY <1>4, <1>5, LenProperties DEF enviar_fin_proceso_a_cpu, TypeOK, colas, Sem
<1>8. QED
  BY <1>2, <1>3, <1>5, <1>6, <1>7, OciosoTipo, SeguirInv
  DEF enviar_fin_proceso_a_cpu, Seguir, TypeOK, colas, memoria

LEMMA LeerPcbInv == ASSUME InvReady, NEW c \in CPUS, LeerPcb(c) PROVE InvReady'
<1> USE DEF InvReady
<1> DEFINE q == cpu[manejador[c].cpu].pcb
           r == [manejador[c] EXCEPT !.paso = "bloquear", !.pcb = q]
<1>1. CASE q = Nadie
  BY <1>1, CaerInv DEF LeerPcb
<1>2. CASE q # Nadie
  <2>1. manejador[c].cpu \in CPUS /\ manejador[c].pid \in PIDS
    BY DEF LeerPcb, Paso, EnLaMano, ConLoSuyo
  <2>2. q \in PIDS
    BY <1>2, <2>1 DEF TypeOK, RegCpu, PidONadie
  <2>a. manejador[c] \in RegManejador
    BY DEF TypeOK
  <2>3. r \in RegManejador /\ ConLoSuyo(r)
    BY <2>1, <2>2, <2>a DEF RegManejador, PASOS, PidONadie, ConLoSuyo
  <2>4. QED
    BY <1>2, <2>3, SoloSeguir DEF LeerPcb
<1>3. QED
  BY <1>1, <1>2

LEMMA BloquearInv == ASSUME InvReady, NEW c \in CPUS, bloquear_proceso(c) PROVE InvReady'
<1> USE DEF InvReady
<1> DEFINE q == manejador[c].pcb
           d == encontrar_cpu_con_pid(q)
<1>1. q \in PIDS /\ manejador[c].pid \in PIDS /\ manejador[c] \in RegManejador
  BY DEF bloquear_proceso, Paso, EnLaMano, ConLoSuyo, TypeOK
<1>2. ASSUME NEW x \in {"dormir", "a_block"}
      PROVE  /\ [manejador[c] EXCEPT !.paso = x] \in RegManejador
             /\ ConLoSuyo([manejador[c] EXCEPT !.paso = x])
  BY <1>1 DEF RegManejador, PASOS, ConLoSuyo
<1>3. CASE d = Nadie
  BY <1>2, <1>3, SoloSeguir DEF bloquear_proceso
<1>4. CASE d # Nadie
  <2>1. d \in CPUS
    BY <1>4, PrimeraConTipo DEF encontrar_cpu_con_pid
  <2>2. a_cpu' \in [CPUS -> Seq(MsjACpu)]
    BY <1>1, <1>4, <2>1, ConControlTipo DEF bloquear_proceso, ORDENES
  <2>b. cpu[d] \in RegCpu
    BY <2>1 DEF TypeOK
  <2>a. [cpu[d] EXCEPT !.pcb = Nadie, !.control = TRUE] \in RegCpu
    <3> HIDE DEF d
    <3> QED BY <2>b DEF RegCpu, PidONadie
  <2>3. cpu' \in [CPUS -> RegCpu]
    BY <1>4, <2>1, <2>a DEF bloquear_proceso, TypeOK
  <2>4. sem' \in Sem /\ sem'.ready = sem.ready /\ a_plan' \in [CPUS -> Seq(MsjAPlan)]
    BY DEF bloquear_proceso, TypeOK, Sem
  <2>5. QED
    BY <1>2, <1>4, <2>2, <2>3, <2>4, SeguirSinColas DEF bloquear_proceso, Seguir
<1>5. QED
  BY <1>3, <1>4

LEMMA PasarABlockInv == ASSUME InvReady, NEW c \in CPUS, PasarABlock(c) PROVE InvReady'
<1> USE DEF InvReady
<1>1. manejador[c].pid \in PIDS /\ (Paso(c, "a_block") => manejador[c].pcb \in PIDS)
  BY DEF PasarABlock, Paso, EnLaMano, ConLoSuyo
<1>2. block' \in SUBSET PIDS
  BY <1>1 DEF PasarABlock, TypeOK
<1>3. cola_sleep' \in Seq(PIDS)
  BY <1>1, AppendProperties DEF PasarABlock, TypeOK
<1>4. sem \in Sem
  BY DEF TypeOK, Sem
<1>5. sem' \in Sem /\ sem'.ready = sem.ready
  BY <1>4 DEF PasarABlock, Sem
<1>6. sem'.ready - sem.ready = Len(ready') - Len(ready) /\ ready' = ready
  BY <1>4, <1>5, LenProperties DEF PasarABlock, TypeOK, Sem
<1>7. QED
  BY <1>2, <1>3, <1>5, <1>6, OciosoTipo, SeguirInv DEF PasarABlock, Seguir, TypeOK, memoria

LEMMA BuscarInv == ASSUME InvReady, NEW c \in CPUS, BuscarDeNuevo(c) PROVE InvReady'
<1> USE DEF InvReady
<1> DEFINE d == encontrar_cpu_con_pid(manejador[c].pid)
           paso == IF Paso(c, "buscar") THEN "reanudar" ELSE "sacar_pcb"
           r == IF d = Nadie THEN Ocioso ELSE [manejador[c] EXCEPT !.paso = paso, !.cpu = d]
<1>1. manejador[c].pid \in PIDS /\ manejador[c] \in RegManejador
  BY DEF BuscarDeNuevo, Paso, EnLaMano, ConLoSuyo, TypeOK
<1>2. d # Nadie => d \in CPUS
  BY PrimeraConTipo DEF encontrar_cpu_con_pid
<1>3. r \in RegManejador /\ ConLoSuyo(r)
  <2>1. CASE d = Nadie
    BY <2>1, OciosoTipo
  <2>2. CASE d # Nadie
    <3>1. paso \in {"reanudar", "sacar_pcb"}
      OBVIOUS
    <3> HIDE DEF d, paso
    <3>2. QED
      BY <1>1, <1>2, <2>2, <3>1 DEF RegManejador, PASOS, CpuONadie, ConLoSuyo
  <2>3. QED
    BY <2>1, <2>2
<1>4. QED
  BY <1>3, SoloSeguir DEF BuscarDeNuevo

LEMMA ReanudarInv ==
    ASSUME InvReady, NEW c \in CPUS, reanudar_proceso_en_cpu(c) PROVE InvReady'
<1> USE DEF InvReady
<1> DEFINE d == manejador[c].cpu
<1>1. d \in CPUS
  BY DEF reanudar_proceso_en_cpu, Paso, EnLaMano, ConLoSuyo
<1>2. CASE ~cpu[d].control /\ cpu[d].pcb = Nadie
  BY <1>2, CaerInv DEF reanudar_proceso_en_cpu
<1>3. CASE cpu[d].control \/ cpu[d].pcb # Nadie
  <2>1. cpu[d].control \/ cpu[d].pcb \in PIDS
    BY <1>1, <1>3 DEF TypeOK, RegCpu, PidONadie
  <2>2. a_cpu' = ConControl(d, "EJECUTAR_PROCESO", cpu[d].pcb) /\ Seguir(c, Ocioso)
    BY <1>3 DEF reanudar_proceso_en_cpu
  <2>3. a_cpu' \in [CPUS -> Seq(MsjACpu)]
    BY <1>1, <2>1, <2>2, ConControlTipo DEF ORDENES
  <2>4. UNCHANGED <<exec_lista, cpu, a_plan, corre, planif, temporizador, colas, sem,
                    memoria, vida, caida>>
    BY <1>3 DEF reanudar_proceso_en_cpu
  <2>5. QED
    BY <2>2, <2>3, <2>4, OciosoTipo, SeguirSinColas DEF Seguir, TypeOK, Sem
<1>4. QED
  BY <1>2, <1>3

LEMMA SacarSinMemoriaInv ==
    ASSUME InvReady, NEW c \in CPUS, SacarSinMemoria(c) PROVE InvReady'
<1> USE DEF InvReady
<1> DEFINE d == manejador[c].cpu
           r == [manejador[c] EXCEPT !.paso = "fin_memoria", !.pcb = cpu[d].pcb]
<1>1. d \in CPUS /\ manejador[c].pid \in PIDS /\ manejador[c] \in RegManejador
  BY DEF SacarSinMemoria, Paso, EnLaMano, ConLoSuyo, TypeOK
<1>2. CASE cpu[d].pcb = Nadie
  BY <1>2, CaerInv DEF SacarSinMemoria
<1>3. CASE cpu[d].pcb # Nadie
  <2>1. cpu[d].pcb \in PIDS
    BY <1>1, <1>3 DEF TypeOK, RegCpu, PidONadie
  <2>2. r \in RegManejador /\ ConLoSuyo(r)
    BY <1>1, <2>1 DEF RegManejador, PASOS, PidONadie, ConLoSuyo
  <2>a. cpu[d] \in RegCpu
    BY <1>1 DEF TypeOK
  <2>3. [cpu[d] EXCEPT !.pcb = Nadie] \in RegCpu
    BY <2>a DEF RegCpu, PidONadie
  <2>4. cpu' \in [CPUS -> RegCpu] /\ Seguir(c, r)
    BY <1>1, <1>3, <2>3 DEF SacarSinMemoria, TypeOK
  <2>5. UNCHANGED <<exec_lista, a_cpu, a_plan, corre, planif, temporizador, colas, sem,
                    memoria, vida, caida>>
    BY <1>3 DEF SacarSinMemoria
  <2>6. QED
    BY <2>2, <2>4, <2>5, SeguirSinColas DEF Seguir, TypeOK, Sem
<1>4. QED
  BY <1>2, <1>3

-----------------------------------------------------------------------------
(* Requests for memory and the compaction.                                   *)

LEMMA PedirInv ==
    ASSUME InvReady, NEW c \in CPUS, NEW resp \in RESPUESTAS, Pedir(c, resp) PROVE InvReady'
<1> USE DEF InvReady
<1>1. manejador[c].pid \in PIDS /\ manejador[c] \in RegManejador
  BY DEF Pedir, Paso, EnLaMano, ConLoSuyo, TypeOK
<1>2. ASSUME NEW x \in {"medir", "buscar", "buscar_fin"}
      PROVE  /\ [manejador[c] EXCEPT !.paso = x] \in RegManejador
             /\ ConLoSuyo([manejador[c] EXCEPT !.paso = x])
  BY <1>1 DEF RegManejador, PASOS, ConLoSuyo
<1>3. UNCHANGED <<exec_lista, cpu, a_cpu, a_plan, corre, planif, temporizador, colas, sem,
                  vida>>
  BY DEF Pedir
<1>4. sem \in Sem /\ Len(ready) \in Nat
  BY LenProperties DEF TypeOK, Sem
<1>5. sem'.ready - sem.ready = Len(ready') - Len(ready)
  BY <1>3, <1>4 DEF colas, Sem
<1>6. CASE resp = "COMPACTACION"
  <2>1. /\ compactaciones' = compactaciones + 1 /\ compactando' = TRUE
        /\ mutex_socket' = c /\ Seguir(c, [manejador[c] EXCEPT !.paso = "medir"])
        /\ UNCHANGED caida
    BY <1>6 DEF Pedir
  <2>2. compactaciones' \in Nat /\ mutex_socket' \in CpuONadie /\ compactando' \in BOOLEAN
    BY <2>1 DEF TypeOK, CpuONadie
  <2>3. QED
    BY <1>2, <1>3, <1>5, <2>1, <2>2, SeguirInv DEF TypeOK, Sem, colas, Seguir
<1>7. CASE resp # "COMPACTACION" /\ Paso(c, "pedir")
  <2>1. /\ UNCHANGED <<memoria, caida>>
        /\ Seguir(c, [manejador[c] EXCEPT !.paso =
                          IF resp = "MEMORIA_DISPONIBLE" THEN "buscar" ELSE "buscar_fin"])
    BY <1>7 DEF Pedir
  <2>2. QED
    BY <1>2, <1>3, <2>1, SoloSeguir
<1>8. CASE resp # "COMPACTACION" /\ Paso(c, "repedir") /\ resp = "MEMORIA_DISPONIBLE"
  <2> DEFINE r == [manejador[c] EXCEPT !.paso = "reponer"]
  <2>1. r \in RegManejador /\ ConLoSuyo(r)
    BY <1>1, <1>8 DEF RegManejador, PASOS, ConLoSuyo, EnLaMano, Paso
  <2>2. UNCHANGED <<memoria, caida>> /\ Seguir(c, r)
    BY <1>8 DEF Pedir, Paso
  <2>3. QED
    BY <1>3, <2>1, <2>2, SoloSeguir
<1>9. CASE resp # "COMPACTACION" /\ Paso(c, "repedir") /\ resp # "MEMORIA_DISPONIBLE"
  <2>1. UNCHANGED <<memoria, manejador>> /\ caida' = "bsod"
    BY <1>9 DEF Pedir, Paso
  <2>2. Caer("bsod")
    BY <1>3, <2>1 DEF Caer
  <2>3. QED
    BY <2>2, CaerInv
<1>10. QED
  BY <1>6, <1>7, <1>8, <1>9 DEF Pedir

LEMMA DespostearInv ==
    ASSUME InvReady, NEW c \in CPUS, despostear_todas_cpus(c) PROVE InvReady'
<1> USE DEF InvReady
<1>1. manejador[c].pid \in PIDS /\ manejador[c] \in RegManejador
  BY DEF despostear_todas_cpus, Paso, EnLaMano, ConLoSuyo, TypeOK
<1>2. ASSUME NEW x \in {"medir", "bajar", "desalojar"}
      PROVE  /\ [manejador[c] EXCEPT !.paso = x] \in RegManejador
             /\ ConLoSuyo([manejador[c] EXCEPT !.paso = x])
  BY <1>1 DEF RegManejador, PASOS, ConLoSuyo
<1>3. \E x \in {"medir", "bajar", "desalojar"} : Seguir(c, [manejador[c] EXCEPT !.paso = x])
  BY DEF despostear_todas_cpus
<1>4. sem \in Sem
  BY DEF TypeOK, Sem
<1>5. \/ UNCHANGED sem
      \/ sem.cpu > 0 /\ sem' = [sem EXCEPT !.cpu = @ - 1]
  BY DEF despostear_todas_cpus
<1>6. sem' \in Sem /\ sem'.ready = sem.ready
  BY <1>4, <1>5 DEF Sem
<1>7. UNCHANGED <<exec_lista, cpu, a_cpu, a_plan, corre, planif, temporizador, colas,
                  memoria, vida, caida>>
  BY DEF despostear_todas_cpus
<1>8. QED
  BY <1>2, <1>3, <1>6, <1>7, SeguirSinColas DEF TypeOK, Seguir

\* The CPU of the request loses its process, which goes to the front of the
\* queue and is counted; the others are only told to stop.
LEMMA DesalojarInv ==
    ASSUME InvReady, NEW c \in CPUS, desalojar_por_compactacion(c) PROVE InvReady'
<1> USE DEF InvReady
<1> DEFINE ocupadas == {d \in Conectadas : cpu[d].pcb # Nadie}
           avisadas == {d \in ocupadas \ {c} : ~cpu[d].control}
           r == [manejador[c] EXCEPT !.paso = "esperar",
                                     !.faltan = Cardinality(avisadas),
                                     !.totales = Append(@, Cardinality(ocupadas))]
<1>1. manejador[c].pid \in PIDS /\ manejador[c] \in RegManejador
  BY DEF desalojar_por_compactacion, Paso, EnLaMano, ConLoSuyo, TypeOK
<1>2. ocupadas \in SUBSET CPUS /\ avisadas \in SUBSET CPUS
  BY ElementOfSeq, LenProperties DEF Conectadas, TypeOK
<1>3. Cardinality(ocupadas) \in Nat /\ Cardinality(avisadas) \in Nat
  <2> HIDE DEF ocupadas, avisadas
  <2> QED BY <1>2, SupuestosDespacho, FS_Subset, FS_CardinalityType
<1>4. \A d \in ocupadas : cpu[d] \in RegCpu /\ cpu[d].pcb \in PIDS
  BY <1>2 DEF TypeOK, RegCpu, PidONadie
<1>5. r \in RegManejador /\ ConLoSuyo(r)
  <2> DEFINE f == Cardinality(avisadas)
             t == Append(manejador[c].totales, Cardinality(ocupadas))
  <2>1. f \in Nat /\ t \in Seq(Nat) /\ t # <<>>
    BY <1>1, <1>3, AppendProperties DEF RegManejador
  <2>2. r = [manejador[c] EXCEPT !.paso = "esperar", !.faltan = f, !.totales = t]
    OBVIOUS
  <2> HIDE DEF r, f, t
  <2>3. QED
    BY <1>1, <2>1, <2>2 DEF RegManejador, PASOS, ConLoSuyo
<1>6. cpu' \in [CPUS -> RegCpu]
  <2>1. ASSUME NEW d \in CPUS
        PROVE  /\ [cpu[d] EXCEPT !.pcb = Nadie, !.control = FALSE] \in RegCpu
               /\ [cpu[d] EXCEPT !.control = TRUE, !.ack = TRUE] \in RegCpu
               /\ cpu[d] \in RegCpu
    <3>1. cpu[d] \in RegCpu
      BY DEF TypeOK
    <3>2. QED
      BY <3>1 DEF RegCpu, PidONadie
  <2>2. cpu' = [d \in CPUS |->
                  IF d \in ocupadas /\ d = c
                    THEN [cpu[d] EXCEPT !.pcb = Nadie, !.control = FALSE]
                  ELSE IF d \in avisadas
                    THEN [cpu[d] EXCEPT !.control = TRUE, !.ack = TRUE]
                  ELSE cpu[d]]
    BY DEF desalojar_por_compactacion
  <2> HIDE DEF ocupadas, avisadas
  <2>3. QED
    BY <2>1, <2>2
<1>7. a_cpu' \in [CPUS -> Seq(MsjACpu)]
  <2>1. ASSUME NEW d \in avisadas
        PROVE  Append(a_cpu[d], Msj("COMPACTACION", cpu[d].pcb)) \in Seq(MsjACpu)
    <3>1. Msj("COMPACTACION", cpu[d].pcb) \in MsjACpu
      BY <1>4 DEF Msj, MsjACpu, INTERRUPCIONES
    <3>2. a_cpu[d] \in Seq(MsjACpu)
      BY <1>2 DEF TypeOK
    <3>3. QED
      BY <3>1, <3>2, AppendProperties
  <2>2. a_cpu' = [d \in CPUS |->
                    IF d \in avisadas
                    THEN Append(a_cpu[d], Msj("COMPACTACION", cpu[d].pcb))
                    ELSE a_cpu[d]]
    BY DEF desalojar_por_compactacion
  <2> HIDE DEF ocupadas, avisadas
  <2>3. QED
    BY <2>1, <2>2 DEF TypeOK
<1>8. sem \in Sem /\ ready \in Seq(PIDS) /\ Len(ready) \in Nat
  BY LenProperties DEF TypeOK, Sem
<1>9. ready' \in Seq(PIDS) /\ sem' \in Sem /\ sem'.ready - sem.ready = Len(ready') - Len(ready)
  <2>1. CASE c \in ocupadas
    <3>1. <<cpu[c].pcb>> \in Seq(PIDS) /\ Len(<<cpu[c].pcb>>) = 1
      BY <1>4, <2>1
    <3>2. ready' = <<cpu[c].pcb>> \o ready /\ sem' = [sem EXCEPT !.ready = @ + 1]
      BY <2>1 DEF desalojar_por_compactacion
    <3>3. ready' \in Seq(PIDS) /\ Len(ready') = Len(ready) + 1
      BY <1>8, <3>1, <3>2, ConcatProperties
    <3>4. sem' \in Sem /\ sem'.ready = sem.ready + 1
      <4>1. sem' = [ready |-> sem.ready + 1, cpu |-> sem.cpu, desalojo |-> sem.desalojo]
        BY <1>8, <3>2 DEF Sem
      <4>2. QED
        BY <1>8, <4>1 DEF Sem
    <3>5. QED
      BY <1>8, <3>3, <3>4 DEF Sem
  <2>2. CASE c \notin ocupadas
    <3>1. ready' = ready /\ sem' = sem
      BY <2>2 DEF desalojar_por_compactacion
    <3>2. QED
      BY <1>8, <3>1 DEF Sem
  <2>3. QED
    BY <2>1, <2>2
<1>10. manejador' = [manejador EXCEPT ![c] = r]
  BY DEF desalojar_por_compactacion, Seguir
<1>11. UNCHANGED <<exec_lista, a_plan, corre, planif, temporizador, block, cola_sleep,
                   memoria, vida, caida>>
  BY DEF desalojar_por_compactacion
<1> HIDE DEF r
<1>12. QED
  BY <1>5, <1>6, <1>7, <1>9, <1>10, <1>11, SeguirInv DEF TypeOK, memoria

LEMMA EsperarInv == ASSUME InvReady, NEW c \in CPUS, EsperarDesalojos(c) PROVE InvReady'
<1> USE DEF InvReady
<1>1. /\ manejador[c].pid \in PIDS /\ manejador[c] \in RegManejador
      /\ manejador[c].paso = "esperar" /\ manejador[c].totales # <<>> /\ sem \in Sem
  BY DEF EsperarDesalojos, Paso, EnLaMano, ConLoSuyo, TypeOK, Sem
<1>2. UNCHANGED <<exec_lista, cpu, a_cpu, a_plan, corre, planif, temporizador, colas,
                  memoria, vida, caida>>
  BY DEF EsperarDesalojos
<1>3. CASE manejador[c].faltan = 0
  <2> DEFINE r == [manejador[c] EXCEPT !.paso = "compactar"]
  <2>1. r \in RegManejador /\ ConLoSuyo(r)
    BY <1>1 DEF RegManejador, PASOS, ConLoSuyo
  <2>2. Seguir(c, r) /\ UNCHANGED sem
    BY <1>3 DEF EsperarDesalojos
  <2>3. QED
    BY <1>2, <2>1, <2>2, SoloSeguir
<1>4. CASE manejador[c].faltan # 0
  <2> DEFINE r == [manejador[c] EXCEPT !.faltan = @ - 1]
  <2>1. manejador[c].faltan - 1 \in Nat
    BY <1>1, <1>4 DEF RegManejador
  <2>2. r \in RegManejador /\ ConLoSuyo(r)
    BY <1>1, <2>1 DEF RegManejador, ConLoSuyo
  <2>3. Seguir(c, r) /\ sem.desalojo > 0 /\ sem' = [sem EXCEPT !.desalojo = @ - 1]
    BY <1>4 DEF EsperarDesalojos
  <2>4. sem' \in Sem /\ sem'.ready = sem.ready
    BY <1>1, <2>3 DEF Sem
  <2>5. QED
    BY <1>2, <2>2, <2>3, <2>4, SeguirSinColas DEF Seguir, TypeOK
<1>5. QED
  BY <1>3, <1>4

LEMMA ExitosaInv == ASSUME InvReady, NEW c \in CPUS, CompactacionExitosa(c) PROVE InvReady'
<1> USE DEF InvReady
<1> DEFINE r == [manejador[c] EXCEPT !.paso = "repedir"]
<1>1. /\ manejador[c].pid \in PIDS /\ manejador[c] \in RegManejador
      /\ manejador[c].totales # <<>>
  BY DEF CompactacionExitosa, Paso, EnLaMano, ConLoSuyo, TypeOK
<1>2. r \in RegManejador /\ ConLoSuyo(r)
  BY <1>1 DEF RegManejador, PASOS, ConLoSuyo
<1>3. mutex_socket' \in CpuONadie
  BY DEF CompactacionExitosa, CpuONadie
<1>4. ready' = ready /\ sem' = sem /\ sem \in Sem /\ Len(ready) \in Nat
  BY LenProperties DEF CompactacionExitosa, TypeOK, Sem, colas
<1>5. sem'.ready - sem.ready = Len(ready') - Len(ready)
  BY <1>4 DEF Sem
<1>6. QED
  BY <1>2, <1>3, <1>4, <1>5, SeguirInv DEF CompactacionExitosa, Seguir, TypeOK, colas

\* A list without its last element.
LEMMA SinElUltimo ==
    ASSUME NEW S, NEW s \in Seq(S), s # <<>>
    PROVE  SubSeq(s, 1, Len(s) - 1) \in Seq(S)
<1>1. Len(s) \in Nat \ {0}
  BY LenProperties, EmptySeq
<1>2. \A i \in 1..Len(s) : s[i] \in S
  BY ElementOfSeq
<1>3. \A i \in 1..(Len(s) - 1) : s[i] \in S
  BY <1>1, <1>2
<1>4. QED
  BY <1>1, <1>3, SubSeqProperties

\* The tokens given back are a count taken when the compaction began.
LEMMA FinCompactacionInv ==
    ASSUME InvReady, NEW c \in CPUS, FinDeCompactacion(c) PROVE InvReady'
<1> USE DEF InvReady
<1> DEFINE t == manejador[c].totales
           resto == SubSeq(t, 1, Len(t) - 1)
<1>1. /\ manejador[c].pid \in PIDS /\ manejador[c] \in RegManejador
      /\ t # <<>> /\ t \in Seq(Nat) /\ sem \in Sem /\ Len(ready) \in Nat
  BY LenProperties DEF FinDeCompactacion, Paso, EnLaMano, ConLoSuyo, TypeOK, RegManejador, Sem
<1>2. UNCHANGED <<exec_lista, cpu, a_cpu, a_plan, corre, planif, temporizador, colas,
                  mutex_socket, compactaciones, vida, caida>>
  BY DEF FinDeCompactacion
<1>3. CASE Paso(c, "reponer")
  <2> DEFINE r == [manejador[c] EXCEPT !.paso = "postear"]
  <2>1. r \in RegManejador /\ ConLoSuyo(r)
    BY <1>1 DEF RegManejador, PASOS, ConLoSuyo
  <2>2. compactando' = FALSE /\ Seguir(c, r) /\ UNCHANGED sem
    BY <1>3 DEF FinDeCompactacion, Paso
  <2>3. sem'.ready - sem.ready = Len(ready') - Len(ready)
    BY <1>1, <1>2, <2>2 DEF Sem, colas
  <2>4. QED
    BY <1>1, <1>2, <2>1, <2>2, <2>3, SeguirInv DEF Seguir, TypeOK, colas, Sem
<1>4. CASE Paso(c, "postear")
  <2> DEFINE paso == IF resto = <<>> THEN "buscar" ELSE "reponer"
             r == [manejador[c] EXCEPT !.paso = paso, !.totales = resto]
  <2>1. Len(t) \in 1 .. Len(t) /\ t[Len(t)] \in Nat
    BY <1>1, EmptySeq, ElementOfSeq
  <2>2. resto \in Seq(Nat)
    <3> HIDE DEF t
    <3>1. t \in Seq(Nat) /\ t # <<>>
      BY <1>1
    <3>2. SubSeq(t, 1, Len(t) - 1) \in Seq(Nat)
      BY <3>1, SinElUltimo
    <3>3. QED
      BY <3>2
  <2>3. r \in RegManejador /\ ConLoSuyo(r)
    <3>1. paso = "buscar" \/ (paso = "reponer" /\ resto # <<>>)
      OBVIOUS
    <3> HIDE DEF paso, resto
    <3>2. QED
      BY <1>1, <2>2, <3>1 DEF RegManejador, PASOS, ConLoSuyo
  <2>4. sem' = [sem EXCEPT !.cpu = @ + t[Len(t)]] /\ Seguir(c, r) /\ UNCHANGED compactando
    BY <1>4 DEF FinDeCompactacion, Paso
  <2>5. sem' \in Sem /\ sem'.ready = sem.ready
    <3>1. sem' = [ready |-> sem.ready, cpu |-> sem.cpu + t[Len(t)], desalojo |-> sem.desalojo]
      BY <1>1, <2>4 DEF Sem
    <3>2. sem.ready \in Nat /\ sem.cpu + t[Len(t)] \in Nat /\ sem.desalojo \in Nat
      BY <1>1, <2>1 DEF Sem
    <3> HIDE DEF t
    <3>3. QED
      BY <3>1, <3>2 DEF Sem
  <2>6. sem'.ready - sem.ready = Len(ready') - Len(ready)
    BY <1>1, <1>2, <2>5 DEF Sem, colas
  <2> HIDE DEF r
  <2>7. QED
    BY <1>2, <2>3, <2>4, <2>5, <2>6, SeguirInv DEF Seguir, TypeOK, colas
<1>5. QED
  BY <1>3, <1>4 DEF FinDeCompactacion

LEMMA ManejadorInv == ASSUME InvReady, NEW c \in CPUS, Manejador(c) PROVE InvReady'
<1>1. CASE Recepcion(c)
  BY <1>1, SacarDeCpuInv, BuscarCpuInv, MemFreeInv, InitProcInv
  DEF Recepcion, FINALIZAR_POR_QUANTUM, EXIT, COMPACTACION, SLEEP, MEM_ALLOC
<1>2. CASE ~Recepcion(c)
  BY <1>2, EncolarInv, FinMemoriaInv, FinCpuInv, LeerPcbInv, BloquearInv, PasarABlockInv,
     BuscarInv, ReanudarInv, SacarSinMemoriaInv, PedirInv, DespostearInv, DesalojarInv,
     EsperarInv, ExitosaInv, FinCompactacionInv
  DEF Manejador
<1>3. QED
  BY <1>1, <1>2

-----------------------------------------------------------------------------
(* The device, the planner and the timers.                                   *)

LEMMA FinSleepInv == ASSUME InvReady, FINALIZAR_SLEEP PROVE InvReady'
<1> USE DEF InvReady
<1> DEFINE p == Head(cola_sleep)
<1>1. p \in PIDS /\ cola_sleep' \in Seq(PIDS)
  BY HeadTailProperties DEF FINALIZAR_SLEEP, TypeOK
<1>2. UNCHANGED <<exec_lista, cpu, a_cpu, a_plan, corre, manejador, planif, temporizador,
                  memoria, vida, caida>>
  BY DEF FINALIZAR_SLEEP
<1>3. sem \in Sem /\ ready \in Seq(PIDS) /\ Len(ready) \in Nat
  BY LenProperties DEF TypeOK, Sem
<1>4. CASE p \in block
  <2>1. ready' = Append(ready, p) /\ sem' = [sem EXCEPT !.ready = @ + 1]
        /\ block' = block \ {p}
    BY <1>4 DEF FINALIZAR_SLEEP
  <2>2. ready' \in Seq(PIDS) /\ Len(ready') = Len(ready) + 1
    BY <1>1, <1>3, <2>1, AppendProperties
  <2>3. sem' = [ready |-> sem.ready + 1, cpu |-> sem.cpu, desalojo |-> sem.desalojo]
    BY <1>3, <2>1 DEF Sem
  <2>a. sem' \in Sem
    BY <1>3, <2>3 DEF Sem
  <2>4. TypeOK'
    BY <1>1, <1>2, <2>1, <2>2, <2>a DEF TypeOK, Sem, memoria
  <2>5. EnLaMano' /\ ReadyContado'
    BY <1>2, <1>3, <2>2, <2>3 DEF EnLaMano, PlanPaso, ReadyContado, TieneTurno, Sem
  <2>6. QED
    BY <2>4, <2>5
<1>5. CASE p \notin block
  <2>1. UNCHANGED <<block, ready, sem>>
    BY <1>5 DEF FINALIZAR_SLEEP
  <2>2. TypeOK'
    BY <1>1, <1>2, <2>1 DEF TypeOK, memoria
  <2>3. EnLaMano' /\ ReadyContado'
    BY <1>2, <2>1 DEF EnLaMano, PlanPaso, ReadyContado, TieneTurno
  <2>4. QED
    BY <2>2, <2>3
<1>6. QED
  BY <1>4, <1>5

\* A step of the planner or of a timer.
LEMMA PlanInv ==
    ASSUME InvReady, EnPlan, planif' \in RegPlanif,
           PlanPaso("despachar")' => planif'.pcb \in PIDS,
           PlanPaso("temporizar")' => planif'.cpu \in CPUS,
           cpu' \in [CPUS -> RegCpu], a_cpu' \in [CPUS -> Seq(MsjACpu)],
           temporizador' \in [CPUS -> PidONadie], ready' \in Seq(PIDS), sem' \in Sem,
           UNCHANGED caida, ReadyContado'
    PROVE  InvReady'
<1>1. TypeOK'
  BY DEF InvReady, TypeOK, EnPlan, Sem, memoria
<1>2. EnLaMano'
  BY DEF InvReady, EnLaMano, EnPlan, PlanPaso
<1>3. QED
  BY <1>1, <1>2 DEF InvReady

LEMMA PlanTipo ==
    ASSUME InvReady
    PROVE  /\ planif \in RegPlanif /\ sem \in Sem /\ sem.ready \in Nat
           /\ ready \in Seq(PIDS) /\ Len(ready) \in Nat
           /\ [paso |-> "esperar_ready", pcb |-> Nadie, cpu |-> Nadie] \in RegPlanif
           /\ \A x \in PLAN_PASOS : [planif EXCEPT !.paso = x] \in RegPlanif
<1>1. planif \in RegPlanif /\ sem \in Sem /\ ready \in Seq(PIDS)
  BY DEF InvReady, TypeOK, Sem
<1>2. sem.ready \in Nat /\ Len(ready) \in Nat
  BY <1>1, LenProperties DEF Sem
<1>3. [paso |-> "esperar_ready", pcb |-> Nadie, cpu |-> Nadie] \in RegPlanif
  BY DEF RegPlanif, PLAN_PASOS, PidONadie, CpuONadie
<1>4. \A x \in PLAN_PASOS : [planif EXCEPT !.paso = x] \in RegPlanif
  BY <1>1 DEF RegPlanif
<1>5. QED
  BY <1>1, <1>2, <1>3, <1>4

\* sem_wait for a process: the token goes to the planner's hands.
LEMMA EsperarReadyInv == ASSUME InvReady, EsperarReady PROVE InvReady'
<1>1. /\ planif.paso = "esperar_ready" /\ planif' = [planif EXCEPT !.paso = "esperar_cpu"]
      /\ sem.ready > 0 /\ sem' = [sem EXCEPT !.ready = @ - 1] /\ ready' = ready
  BY DEF EsperarReady, PlanPaso, PlanSeguir
<1>2. planif' \in RegPlanif /\ planif'.paso = "esperar_cpu"
  BY <1>1, PlanTipo DEF PLAN_PASOS, RegPlanif
<1>3. sem' \in Sem /\ sem'.ready = sem.ready - 1
  BY <1>1, PlanTipo DEF Sem
<1>4. ReadyContado'
  BY <1>1, <1>2, <1>3, PlanTipo DEF InvReady, ReadyContado, TieneTurno
<1>5. QED
  BY <1>2, <1>3, <1>4, PlanInv, PlanTipo DEF EsperarReady, PlanPaso, InvReady, TypeOK

LEMMA EsperarCpuInv == ASSUME InvReady, EsperarCpu PROVE InvReady'
<1>1. /\ planif.paso = "esperar_cpu" /\ planif' = [planif EXCEPT !.paso = "mirar"]
      /\ sem.cpu > 0 /\ sem' = [sem EXCEPT !.cpu = @ - 1] /\ ready' = ready
  BY DEF EsperarCpu, PlanPaso, PlanSeguir
<1>2. planif' \in RegPlanif /\ planif'.paso = "mirar"
  BY <1>1, PlanTipo DEF PLAN_PASOS, RegPlanif
<1>3. sem' \in Sem /\ sem'.ready = sem.ready
  BY <1>1, PlanTipo DEF Sem
<1>4. ReadyContado'
  BY <1>1, <1>2, <1>3, PlanTipo DEF InvReady, ReadyContado, TieneTurno
<1>5. QED
  BY <1>2, <1>3, <1>4, PlanInv, PlanTipo DEF EsperarCpu, PlanPaso, InvReady, TypeOK

\* During a compaction both tokens go back and the planner sleeps.
LEMMA MirarInv == ASSUME InvReady, MirarCompactando PROVE InvReady'
<1> DEFINE x == IF compactando THEN "dormido" ELSE "desencolar"
<1>1. /\ planif.paso = "mirar" /\ planif' = [planif EXCEPT !.paso = x] /\ ready' = ready
      /\ sem' = IF compactando THEN [sem EXCEPT !.ready = @ + 1, !.cpu = @ + 1] ELSE sem
  BY DEF MirarCompactando, PlanPaso, PlanSeguir
<1>2. planif' \in RegPlanif /\ planif'.paso = x
  BY <1>1, PlanTipo DEF PLAN_PASOS, RegPlanif
<1>3. /\ sem' \in Sem
      /\ sem'.ready = sem.ready + (IF compactando THEN 1 ELSE 0)
  <2>1. CASE compactando
    <3>1. sem' = [ready |-> sem.ready + 1, cpu |-> sem.cpu + 1, desalojo |-> sem.desalojo]
      BY <1>1, <2>1, PlanTipo DEF Sem
    <3>2. QED
      BY <2>1, <3>1, PlanTipo DEF Sem
  <2>2. CASE ~compactando
    BY <1>1, <2>2, PlanTipo
  <2>3. QED
    BY <2>1, <2>2
<1>4. ReadyContado'
  BY <1>1, <1>2, <1>3, PlanTipo DEF InvReady, ReadyContado, TieneTurno
<1>5. QED
  BY <1>2, <1>3, <1>4, PlanInv, PlanTipo DEF MirarCompactando, PlanPaso, InvReady, TypeOK

LEMMA DespertarInv == ASSUME InvReady, Despertar PROVE InvReady'
<1>1. /\ planif.paso = "dormido" /\ planif' = [planif EXCEPT !.paso = "esperar_ready"]
      /\ ready' = ready /\ sem' = sem
  BY DEF Despertar, PlanPaso, PlanSeguir
<1>2. planif' \in RegPlanif /\ planif'.paso = "esperar_ready"
  BY <1>1, PlanTipo DEF PLAN_PASOS, RegPlanif
<1>3. ReadyContado'
  BY <1>1, <1>2, PlanTipo DEF InvReady, ReadyContado, TieneTurno
<1>4. QED
  BY <1>1, <1>2, <1>3, PlanInv, PlanTipo DEF Despertar, PlanPaso, InvReady, TypeOK

\* The queue is not empty here: the count says so.
LEMMA DesencolarInv == ASSUME InvReady, desencolar_pcb_ready PROVE InvReady'
<1>1. CASE ready = <<>>
  BY <1>1, CaerInv DEF desencolar_pcb_ready
<1>2. CASE ready # <<>>
  <2> DEFINE r == [planif EXCEPT !.paso = "despachar", !.pcb = Head(ready)]
  <2>1. /\ planif.paso = "desencolar" /\ planif' = r /\ ready' = Tail(ready)
        /\ UNCHANGED <<cpu, a_cpu, temporizador, sem, caida>> /\ EnPlan
    BY <1>2 DEF desencolar_pcb_ready, PlanPaso
  <2>2. Head(ready) \in PIDS /\ Tail(ready) \in Seq(PIDS) /\ Len(Tail(ready)) = Len(ready) - 1
    BY <1>2, PlanTipo, HeadTailProperties
  <2>3. r \in RegPlanif /\ r.paso = "despachar" /\ r.pcb \in PIDS
    BY <2>2, PlanTipo DEF RegPlanif, PLAN_PASOS, PidONadie
  <2>4. ReadyContado'
    BY <2>1, <2>2, <2>3, PlanTipo DEF InvReady, ReadyContado, TieneTurno
  <2>5. QED
    BY <2>1, <2>2, <2>3, <2>4, PlanInv, PlanTipo DEF PlanPaso, InvReady, TypeOK
<1>3. QED
  BY <1>1, <1>2

\* With no free CPU the process goes back to the queue with its token.
LEMMA DespacharInv == ASSUME InvReady, enviar_proceso_a_cpu PROVE InvReady'
<1> DEFINE p == planif.pcb
           d == obtener_cpu_libre
           ocioso == [paso |-> "esperar_ready", pcb |-> Nadie, cpu |-> Nadie]
<1>1. planif.paso = "despachar" /\ p \in PIDS /\ EnPlan /\ UNCHANGED <<temporizador, caida>>
  BY DEF enviar_proceso_a_cpu, PlanPaso, InvReady, EnLaMano
<1>2. CASE d = Nadie
  <2>1. /\ ready' = Append(ready, p) /\ sem' = [sem EXCEPT !.ready = @ + 1]
        /\ planif' = ocioso /\ UNCHANGED <<cpu, a_cpu>>
    BY <1>2 DEF enviar_proceso_a_cpu
  <2>2. ready' \in Seq(PIDS) /\ Len(ready') = Len(ready) + 1
    BY <1>1, <2>1, PlanTipo, AppendProperties
  <2>3. sem' \in Sem /\ sem'.ready = sem.ready + 1
    <3>1. sem' = [ready |-> sem.ready + 1, cpu |-> sem.cpu, desalojo |-> sem.desalojo]
      BY <2>1, PlanTipo DEF Sem
    <3>2. QED
      BY <3>1, PlanTipo DEF Sem
  <2>4. ReadyContado'
    BY <1>1, <2>1, <2>2, <2>3, PlanTipo DEF InvReady, ReadyContado, TieneTurno
  <2>5. QED
    BY <1>1, <2>1, <2>2, <2>3, <2>4, PlanInv, PlanTipo DEF PlanPaso, InvReady, TypeOK
<1>3. CASE d # Nadie
  <2>1. d \in CPUS
    BY <1>3, PrimeraConTipo DEF obtener_cpu_libre, InvReady
  <2>2. /\ cpu' = [cpu EXCEPT ![d] = [@ EXCEPT !.pcb = p, !.control = FALSE]]
        /\ a_cpu' = [a_cpu EXCEPT ![d] = Append(@, Msj("EJECUTAR_PROCESO", p))]
        /\ planif' \in {[paso |-> "temporizar", pcb |-> Nadie, cpu |-> d], ocioso}
        /\ UNCHANGED <<ready, sem>>
    BY <1>3 DEF enviar_proceso_a_cpu
  <2>3. cpu[d] \in RegCpu /\ a_cpu[d] \in Seq(MsjACpu)
    BY <2>1 DEF InvReady, TypeOK
  <2>4. [cpu[d] EXCEPT !.pcb = p, !.control = FALSE] \in RegCpu
    <3> HIDE DEF d, p
    <3> QED BY <1>1, <2>3 DEF RegCpu, PidONadie
  <2>5. Append(a_cpu[d], Msj("EJECUTAR_PROCESO", p)) \in Seq(MsjACpu)
    <3>1. Msj("EJECUTAR_PROCESO", p) \in MsjACpu
      BY <1>1 DEF Msj, MsjACpu, ORDENES
    <3>2. QED
      BY <2>3, <3>1, AppendProperties
  <2>6. cpu' \in [CPUS -> RegCpu] /\ a_cpu' \in [CPUS -> Seq(MsjACpu)]
    <3> HIDE DEF d, p
    <3> QED BY <2>2, <2>4, <2>5 DEF InvReady, TypeOK
  <2>7. /\ planif' \in RegPlanif /\ planif'.paso \in {"temporizar", "esperar_ready"}
        /\ planif'.paso = "temporizar" => planif'.cpu \in CPUS
    <3> HIDE DEF d
    <3> QED BY <2>1, <2>2 DEF RegPlanif, PLAN_PASOS, PidONadie, CpuONadie
  <2>8. ReadyContado'
    BY <1>1, <2>2, <2>7, PlanTipo DEF InvReady, ReadyContado, TieneTurno
  <2>9. QED
    BY <1>1, <2>2, <2>6, <2>7, <2>8, PlanInv, PlanTipo DEF PlanPaso, InvReady, TypeOK
<1>4. QED
  BY <1>2, <1>3

LEMMA TemporizarInv == ASSUME InvReady, iniciar_timer_quantum PROVE InvReady'
<1> DEFINE d == planif.cpu
           ocioso == [paso |-> "esperar_ready", pcb |-> Nadie, cpu |-> Nadie]
<1>1. planif.paso = "temporizar" /\ d \in CPUS
  BY DEF iniciar_timer_quantum, PlanPaso, InvReady, EnLaMano
<1>2. CASE cpu[d].pcb = Nadie
  BY <1>2, CaerInv DEF iniciar_timer_quantum
<1>3. CASE cpu[d].pcb # Nadie
  <2>1. /\ temporizador' = [temporizador EXCEPT ![d] = cpu[d].pcb] /\ planif' = ocioso
        /\ UNCHANGED <<cpu, a_cpu, ready, sem, caida>> /\ EnPlan
    BY <1>3 DEF iniciar_timer_quantum
  <2>2. temporizador' \in [CPUS -> PidONadie]
    BY <1>1, <2>1 DEF InvReady, TypeOK, RegCpu
  <2>3. ReadyContado'
    BY <1>1, <2>1 DEF InvReady, ReadyContado, TieneTurno
  <2>4. QED
    BY <2>1, <2>2, <2>3, PlanInv, PlanTipo DEF PlanPaso, InvReady, TypeOK
<1>4. QED
  BY <1>2, <1>3

LEMMA TimerInv == ASSUME InvReady, NEW c \in CPUS, hilo_timer_quantum(c) PROVE InvReady'
<1> USE DEF InvReady
<1>1. /\ temporizador' = [temporizador EXCEPT ![c] = Nadie]
      /\ UNCHANGED <<planif, ready, sem, caida>> /\ EnPlan
  BY DEF hilo_timer_quantum
<1>2. temporizador' \in [CPUS -> PidONadie]
  BY <1>1 DEF TypeOK, PidONadie
<1>3. cpu' \in [CPUS -> RegCpu] /\ a_cpu' \in [CPUS -> Seq(MsjACpu)]
  <2>1. CASE cpu[c].pcb = temporizador[c]
    <3>1. cpu[c].pcb \in PIDS /\ cpu[c] \in RegCpu
      BY <2>1 DEF hilo_timer_quantum, TypeOK, PidONadie
    <3>2. a_cpu' \in [CPUS -> Seq(MsjACpu)]
      BY <2>1, <3>1, ConControlTipo DEF hilo_timer_quantum, INTERRUPCIONES
    <3>3. cpu' = [cpu EXCEPT ![c].control = TRUE]
      BY <2>1 DEF hilo_timer_quantum
    <3>4. QED
      BY <3>1, <3>2, <3>3 DEF TypeOK, RegCpu
  <2>2. CASE cpu[c].pcb # temporizador[c]
    BY <2>2 DEF hilo_timer_quantum, TypeOK
  <2>3. QED
    BY <2>1, <2>2
<1>4. ReadyContado'
  BY <1>1 DEF ReadyContado, TieneTurno
<1>5. QED
  BY <1>1, <1>2, <1>3, <1>4, PlanInv, PlanTipo DEF EnLaMano, PlanPaso, TypeOK

LEMMA PasoReady == InvReady /\ [Next]_vars => InvReady'
<1> SUFFICES ASSUME InvReady, [Next]_vars PROVE InvReady'
  OBVIOUS
<1>1. CASE planificador
  BY <1>1, EsperarReadyInv, EsperarCpuInv, MirarInv, DespertarInv, DesencolarInv,
     DespacharInv, TemporizarInv
  DEF planificador
<1>2. CASE FINALIZAR_SLEEP
  BY <1>2, FinSleepInv
<1>3. ASSUME NEW c \in CPUS,
             \/ ConectarCpu(c)
             \/ Cpu(c)
             \/ Programa(c)
             \/ Manejador(c)
             \/ hilo_timer_quantum(c)
      PROVE  InvReady'
  BY <1>3, ConectarInv, CpuInv, SyscallInv, ManejadorInv, TimerInv DEF Programa
<1>4. CASE UNCHANGED vars
  BY <1>4
  DEF InvReady, TypeOK, EnLaMano, PlanPaso, ReadyContado, TieneTurno, vars, colas, memoria
<1>5. QED
  BY <1>1, <1>2, <1>3, <1>4 DEF Next

-----------------------------------------------------------------------------
(* The theorems.                                                             *)

\* The invariant every interleaving of handlers, timers, device, planner and
\* compactions keeps.
THEOREM DespachoInvariante == Spec => []InvReady
<1>1. InvReady /\ [Next]_vars => InvReady'
  BY PasoReady
<1>2. QED
  BY InicioReady, <1>1, PTL DEF Spec

\* Every variable of the scheduler keeps its type: no message without a pid is
\* sent, no semaphore goes below zero.
THEOREM DespachoTipos == Spec => []TypeOK
<1>1. InvReady => TypeOK
  BY DEF InvReady
<1>2. QED
  BY <1>1, DespachoInvariante, PTL

\* sem_hay_proceso_ready counts ready_cola in every reachable state: the queue
\* is not empty when desencolar_pcb_ready takes its first process.
THEOREM ColaContada == Spec => []ReadyContado
<1>1. InvReady => ReadyContado
  BY DEF InvReady
<1>2. QED
  BY <1>1, DespachoInvariante, PTL

\* So the planner never dereferences the NULL of an empty queue.
THEOREM ColaNoVacia == Spec => [](PlanPaso("desencolar") => ready # <<>>)
<1>1. InvReady => (PlanPaso("desencolar") => ready # <<>>)
  <2> SUFFICES ASSUME InvReady, PlanPaso("desencolar"), ready = <<>> PROVE FALSE
    OBVIOUS
  <2>1. sem.ready + 1 = Len(ready) /\ sem.ready \in Nat
    BY PlanTipo DEF InvReady, ReadyContado, TieneTurno, PlanPaso
  <2>2. Len(ready) = 0
    OBVIOUS
  <2>3. QED
    BY <2>1, <2>2
<1>2. QED
  BY <1>1, DespachoInvariante, PTL

-----------------------------------------------------------------------------
(* Where the t_pcb of a process is.  The five places of Lugares, each with   *)
(* its own predicate, and the invariant that says they exclude each other.   *)

EnReady(p) == \E i \in DOMAIN ready : ready[i] = p
CpuDe(p) == {c \in CPUS : cpu[c].pcb = p}
ManoDe(p) == {c \in CPUS : manejador[c].pcb = p /\ manejador[c].paso \in ConPcb}

\* p is in exactly these places.
Esta(p, lista, cpus, manos, plan, bloqueado) ==
    /\ EnReady(p) <=> lista
    /\ CpuDe(p) = cpus
    /\ ManoDe(p) = manos
    /\ planif.pcb = p <=> plan
    /\ p \in block <=> bloqueado

SoloReady(p) == Esta(p, TRUE, {}, {}, FALSE, FALSE)
SoloCpu(p, c) == Esta(p, FALSE, {c}, {}, FALSE, FALSE)
SoloMano(p, c) == Esta(p, FALSE, {}, {c}, FALSE, FALSE)
SoloPlan(p) == Esta(p, FALSE, {}, {}, TRUE, FALSE)
SoloBlock(p) == Esta(p, FALSE, {}, {}, FALSE, TRUE)
Ninguno(p) == Esta(p, FALSE, {}, {}, FALSE, FALSE)

SitioDe(p) ==
    IF vida[p] = "vivo"
    THEN \/ SoloReady(p) \/ SoloPlan(p) \/ SoloBlock(p)
         \/ \E c \in CPUS : SoloCpu(p, c) \/ SoloMano(p, c)
    ELSE Ninguno(p)

\* No process is twice in ready_cola, only a connected CPU has a process, and
\* the planner holds one only between desencolar_pcb_ready and the dispatch.
SinRepetir == \A i, j \in DOMAIN ready : ready[i] = ready[j] => i = j
Enchufadas == \A c \in CPUS : cpu[c].pcb # Nadie => c \in Conectadas
ManoDelPlan == planif.pcb # Nadie => planif.paso = "despachar"

Sitios == SinRepetir /\ Enchufadas /\ ManoDelPlan /\ \A p \in PIDS : SitioDe(p)
InvLugar == InvReady /\ Sitios

-----------------------------------------------------------------------------
(* From one place to all the others.                                         *)

\* A process that is somewhere is alive and is nowhere else.
LEMMA EsDeReady ==
    ASSUME Sitios, NEW p \in PIDS, EnReady(p)
    PROVE  vida[p] = "vivo" /\ SoloReady(p)
  BY Zenon DEF Sitios, SitioDe, SoloReady, SoloCpu, SoloMano, SoloPlan, SoloBlock, Ninguno, Esta

\* The same from a CPU, from the hands of a handler, from those of the planner
\* and from block_lista.
LEMMA EsDeCpu ==
    ASSUME Sitios, NEW p \in PIDS, NEW d \in CPUS, cpu[d].pcb = p
    PROVE  vida[p] = "vivo" /\ SoloCpu(p, d)
<1>1. d \in CpuDe(p)
  BY DEF CpuDe
<1>2. QED
  BY <1>1 DEF Sitios, SitioDe, SoloReady, SoloCpu, SoloMano, SoloPlan, SoloBlock, Ninguno, Esta

LEMMA EsDeMano ==
    ASSUME Sitios, NEW p \in PIDS, NEW c \in CPUS,
           manejador[c].pcb = p, manejador[c].paso \in ConPcb
    PROVE  vida[p] = "vivo" /\ SoloMano(p, c)
<1>1. c \in ManoDe(p)
  BY DEF ManoDe
<1>2. QED
  BY <1>1 DEF Sitios, SitioDe, SoloReady, SoloCpu, SoloMano, SoloPlan, SoloBlock, Ninguno, Esta

LEMMA EsDelPlan ==
    ASSUME Sitios, NEW p \in PIDS, planif.pcb = p
    PROVE  vida[p] = "vivo" /\ SoloPlan(p)
  BY Zenon DEF Sitios, SitioDe, SoloReady, SoloCpu, SoloMano, SoloPlan, SoloBlock, Ninguno, Esta

LEMMA EsDeBlock ==
    ASSUME Sitios, NEW p \in PIDS, p \in block
    PROVE  vida[p] = "vivo" /\ SoloBlock(p)
  BY Zenon DEF Sitios, SitioDe, SoloReady, SoloCpu, SoloMano, SoloPlan, SoloBlock, Ninguno, Esta

-----------------------------------------------------------------------------
(* How a step changes each place.                                            *)

\* The CPUs have after the step the processes they had, except d that has x.
Queda(d, x) == \A c \in CPUS : cpu'[c].pcb = IF c = d THEN x ELSE cpu[c].pcb
Quedan == \A c \in CPUS : cpu'[c].pcb = cpu[c].pcb

\* The form in which the actions write a CPU.
LEMMA QuedaExcepto ==
    ASSUME InvReady, NEW d \in CPUS, NEW v, cpu' = [cpu EXCEPT ![d] = v]
    PROVE  /\ Queda(d, v.pcb)
           /\ v.pcb = cpu[d].pcb => Quedan
  BY DEF Queda, Quedan, InvReady, TypeOK

\* One CPU is given, or loses, process p: the places of the others stay.
LEMMA CambiaCpu ==
    ASSUME NEW d \in CPUS, NEW x, NEW p \in PIDS,
           Queda(d, x), cpu[d].pcb \in {p, Nadie}, x \in {p, Nadie}
    PROVE  /\ \A q \in PIDS \ {p} : CpuDe(q)' = CpuDe(q)
           /\ x = p => CpuDe(p)' = CpuDe(p) \cup {d}
           /\ x = Nadie => CpuDe(p)' = CpuDe(p) \ {d}
<1>1. p # Nadie /\ \A q \in PIDS : q # Nadie
  BY SupuestosDespacho
<1>3. ASSUME NEW q \in PIDS \ {p} PROVE CpuDe(q)' = CpuDe(q)
  BY <1>1 DEF CpuDe, Queda
<1>4. ASSUME x = p PROVE CpuDe(p)' = CpuDe(p) \cup {d}
  BY <1>1, <1>4 DEF CpuDe, Queda
<1>5. ASSUME x = Nadie PROVE CpuDe(p)' = CpuDe(p) \ {d}
  BY <1>1, <1>5 DEF CpuDe, Queda
<1>6. QED
  BY <1>3, <1>4, <1>5

\* The CPUs keep their processes.
LEMMA MismasCpus == ASSUME Quedan PROVE \A q \in PIDS : CpuDe(q)' = CpuDe(q)
  BY DEF CpuDe, Quedan

FIN == {"fin_memoria", "fin_cpu"}

\* No handler takes the t_pcb of q, leaves it or decides otherwise about it.
MismaMano(q) ==
    /\ ManoDe(q)' = ManoDe(q)
    /\ EnMano(q, FIN)' <=> EnMano(q, FIN)
    /\ EnMano(q, {"a_block"})' <=> EnMano(q, {"a_block"})

\* One handler takes, or leaves, the t_pcb of p.
LEMMA CambiaMano ==
    ASSUME InvReady, NEW c \in CPUS, NEW r, NEW p \in PIDS,
           manejador' = [manejador EXCEPT ![c] = r],
           manejador[c].paso \in ConPcb => manejador[c].pcb = p,
           r.paso \in ConPcb => r.pcb = p
    PROVE  /\ \A q \in PIDS \ {p} : MismaMano(q)
           /\ r.paso \in ConPcb => ManoDe(p)' = ManoDe(p) \cup {c}
           /\ r.paso \notin ConPcb => ManoDe(p)' = ManoDe(p) \ {c}
<1>2. \A x \in CPUS : manejador'[x] = IF x = c THEN r ELSE manejador[x]
  BY DEF InvReady, TypeOK
<1>3. ASSUME NEW q \in PIDS \ {p} PROVE ManoDe(q)' = ManoDe(q)
  BY <1>2 DEF ManoDe
<1>4. ASSUME NEW q \in PIDS \ {p}
      PROVE  /\ EnMano(q, FIN)' <=> EnMano(q, FIN)
             /\ EnMano(q, {"a_block"})' <=> EnMano(q, {"a_block"})
  <2>1. ASSUME NEW x \in CPUS, NEW s \in SUBSET ConPcb
        PROVE  (manejador'[x].pcb = q /\ manejador'[x].paso \in s)
                  <=> (manejador[x].pcb = q /\ manejador[x].paso \in s)
    BY <1>2
  <2>2. FIN \in SUBSET ConPcb /\ {"a_block"} \in SUBSET ConPcb
    BY DEF FIN, ConPcb
  <2>3. QED
    BY <2>1, <2>2 DEF EnMano
<1>5. ASSUME r.paso \in ConPcb PROVE ManoDe(p)' = ManoDe(p) \cup {c}
  BY <1>2, <1>5 DEF ManoDe
<1>6. ASSUME r.paso \notin ConPcb PROVE ManoDe(p)' = ManoDe(p) \ {c}
  BY <1>2, <1>6 DEF ManoDe
<1>7. QED
  BY <1>3, <1>4, <1>5, <1>6 DEF MismaMano

\* A handler goes on and has no t_pcb before or after.
LEMMA MismasManos ==
    ASSUME InvReady, NEW c \in CPUS, NEW r, manejador' = [manejador EXCEPT ![c] = r],
           manejador[c].paso \notin ConPcb, r.paso \notin ConPcb
    PROVE  \A q \in PIDS : MismaMano(q)
<1>2. \A x \in CPUS : manejador'[x] = IF x = c THEN r ELSE manejador[x]
  BY DEF InvReady, TypeOK
<1>3. ASSUME NEW q \in PIDS PROVE ManoDe(q)' = ManoDe(q)
  BY <1>2 DEF ManoDe
<1>4. ASSUME NEW q \in PIDS
      PROVE  /\ EnMano(q, FIN)' <=> EnMano(q, FIN)
             /\ EnMano(q, {"a_block"})' <=> EnMano(q, {"a_block"})
  <2>1. ASSUME NEW x \in CPUS, NEW s \in SUBSET ConPcb
        PROVE  (manejador'[x].pcb = q /\ manejador'[x].paso \in s)
                  <=> (manejador[x].pcb = q /\ manejador[x].paso \in s)
    BY <1>2
  <2>2. FIN \in SUBSET ConPcb /\ {"a_block"} \in SUBSET ConPcb
    BY DEF FIN, ConPcb
  <2>3. QED
    BY <2>1, <2>2 DEF EnMano
<1>5. QED
  BY <1>3, <1>4 DEF MismaMano

\* A process enters ready_cola at the end, or at the front.
LEMMA EntraEnReady ==
    ASSUME InvReady, Sitios, NEW p \in PIDS, ~EnReady(p),
           ready' = Append(ready, p) \/ ready' = <<p>> \o ready
    PROVE  /\ SinRepetir' /\ EnReady(p)'
           /\ \A q \in PIDS \ {p} : EnReady(q)' <=> EnReady(q)
<1>1. ready \in Seq(PIDS) /\ Len(ready) \in Nat /\ DOMAIN ready = 1..Len(ready)
  BY LenProperties DEF InvReady, TypeOK
<1>2. SinRepetir /\ \A i \in 1..Len(ready) : ready[i] # p
  BY <1>1 DEF Sitios, EnReady
<1>3. CASE ready' = Append(ready, p)
  <2>1. /\ DOMAIN ready' = 1..(Len(ready) + 1)
        /\ \A i \in 1..(Len(ready) + 1) :
              ready'[i] = IF i = Len(ready) + 1 THEN p ELSE ready[i]
    BY <1>1, <1>3
  <2>2. QED
    BY <1>1, <1>2, <2>1 DEF SinRepetir, EnReady
<1>4. CASE ready' = <<p>> \o ready
  <2>1. /\ DOMAIN ready' = 1..(Len(ready) + 1)
        /\ \A i \in 1..(Len(ready) + 1) :
              ready'[i] = IF i = 1 THEN p ELSE ready[i - 1]
    BY <1>1, <1>4
  <2>2. \A i \in 1..Len(ready) : ready'[i + 1] = ready[i]
    BY <1>1, <2>1
  <2>3. SinRepetir'
    <3>1. ASSUME NEW i \in 1..(Len(ready) + 1), NEW j \in 1..(Len(ready) + 1),
                 ready'[i] = ready'[j]
          PROVE  i = j
      <4>1. i # 1 => i - 1 \in 1..Len(ready) /\ ready'[i] = ready[i - 1]
        BY <1>1, <2>1
      <4>2. j # 1 => j - 1 \in 1..Len(ready) /\ ready'[j] = ready[j - 1]
        BY <1>1, <2>1
      <4>3. ready'[1] = p
        BY <1>1, <2>1
      <4>4. i # 1 /\ j # 1 => i - 1 = j - 1
        BY <1>1, <1>2, <3>1, <4>1, <4>2 DEF SinRepetir
      <4>5. QED
        BY <1>2, <3>1, <4>1, <4>2, <4>3, <4>4
    <3>2. QED
      BY <2>1, <3>1 DEF SinRepetir
  <2>4. EnReady(p)'
    BY <1>1, <2>1 DEF EnReady
  <2>5. ASSUME NEW q \in PIDS \ {p} PROVE EnReady(q)' <=> EnReady(q)
    <3>1. ASSUME EnReady(q)' PROVE EnReady(q)
      <4>1. PICK i \in 1..(Len(ready) + 1) : ready'[i] = q
        BY <2>1, <3>1 DEF EnReady
      <4>2. i # 1 /\ ready[i - 1] = q /\ i - 1 \in 1..Len(ready)
        BY <1>1, <2>1, <4>1
      <4>3. QED
        BY <1>1, <4>2 DEF EnReady
    <3>2. ASSUME EnReady(q) PROVE EnReady(q)'
      <4>1. PICK i \in 1..Len(ready) : ready[i] = q
        BY <1>1, <3>2 DEF EnReady
      <4>2. ready'[i + 1] = q /\ i + 1 \in 1..(Len(ready) + 1)
        BY <1>1, <2>2, <4>1
      <4>3. QED
        BY <2>1, <4>2 DEF EnReady
    <3>3. QED
      BY <3>1, <3>2
  <2>6. QED
    BY <2>3, <2>4, <2>5
<1>5. QED
  BY <1>3, <1>4

\* The first process leaves ready_cola.
LEMMA SaleDeReady ==
    ASSUME InvReady, Sitios, ready # <<>>, ready' = Tail(ready), NEW p, p = Head(ready)
    PROVE  /\ SinRepetir' /\ p \in PIDS /\ EnReady(p) /\ ~EnReady(p)'
           /\ \A q \in PIDS \ {p} : EnReady(q)' <=> EnReady(q)
<1>1. /\ ready \in Seq(PIDS) /\ Len(ready) \in Nat \ {0} /\ DOMAIN ready = 1..Len(ready)
      /\ SinRepetir
  BY LenProperties, EmptySeq DEF InvReady, TypeOK, Sitios
<1>2. /\ DOMAIN ready' = 1..(Len(ready) - 1)
      /\ \A i \in 1..(Len(ready) - 1) : ready'[i] = ready[i + 1]
      /\ Head(ready) = ready[1] /\ Head(ready) \in PIDS
  BY <1>1, HeadTailProperties
<1>3. SinRepetir'
  BY <1>1, <1>2 DEF SinRepetir
<1>4. p \in PIDS /\ EnReady(p)
  BY <1>1, <1>2 DEF EnReady
<1>5. ~EnReady(p)'
  BY <1>1, <1>2 DEF EnReady, SinRepetir
<1>6. ASSUME NEW q \in PIDS \ {p}, EnReady(q) PROVE EnReady(q)'
  <2>1. PICK i \in 1..Len(ready) : ready[i] = q
    BY <1>1, <1>6 DEF EnReady
  <2>2. i # 1 /\ i - 1 \in 1..(Len(ready) - 1)
    BY <1>1, <1>2, <1>6, <2>1
  <2>3. ready'[i - 1] = q
    BY <1>1, <1>2, <2>1, <2>2
  <2>4. QED
    BY <1>2, <2>2, <2>3 DEF EnReady
<1>7. ASSUME NEW q \in PIDS \ {p}, EnReady(q)' PROVE EnReady(q)
  <2>1. PICK i \in 1..(Len(ready) - 1) : ready'[i] = q
    BY <1>2, <1>7 DEF EnReady
  <2>2. i + 1 \in 1..Len(ready) /\ ready[i + 1] = q
    BY <1>1, <1>2, <2>1
  <2>3. QED
    BY <1>1, <2>2 DEF EnReady
<1>8. QED
  BY <1>3, <1>4, <1>5, <1>6, <1>7

-----------------------------------------------------------------------------
(* A step of the scheduler as a step of CicloDeVida.                         *)

\* The step leaves q where it was, and in the state it was.
Igual(q) ==
    /\ EnReady(q)' <=> EnReady(q)
    /\ CpuDe(q)' = CpuDe(q)
    /\ MismaMano(q)
    /\ planif'.pcb = q <=> planif.pcb = q
    /\ q \in block' <=> q \in block
    /\ vida'[q] = vida[q]

\* The arrow of CicloDeVida that the step takes p along, if any.
Flecha(p) ==
    \/ Quedan /\ EstadoDe(p)' = EstadoDe(p)
    \/ Quedan /\ EstadoDe(p) \in {"NEW", "BLOCK"} /\ EstadoDe(p)' = "READY"
    \/ \E d \in CPUS :
         /\ Queda(d, p) /\ cpu[d].pcb = Nadie
         /\ EstadoDe(p) = "READY" /\ EstadoDe(p)' = "EXEC"
    \/ \E d \in CPUS :
         /\ Queda(d, Nadie) /\ cpu[d].pcb = p
         /\ EstadoDe(p) = "EXEC" /\ EstadoDe(p)' \in {"READY", "BLOCK", "EXIT"}

CicloPaso == [Ciclo!Next]_(Ciclo!cvars)

\* A process whose places do not change does not change its state.
LEMMA IgualSitio ==
    ASSUME NEW q \in PIDS, SitioDe(q), Igual(q)
    PROVE  SitioDe(q)' /\ EstadoDe(q)' = EstadoDe(q)
<1>1. SitioDe(q)'
  <2>1. vida'[q] = vida[q]
    BY DEF Igual
  <2>2. \A a, b, c, d, e : Esta(q, a, b, c, d, e) => Esta(q, a, b, c, d, e)'
    BY DEF Igual, MismaMano, Esta
  <2>3. QED
    BY <2>1, <2>2 DEF SitioDe, SoloReady, SoloCpu, SoloMano, SoloPlan, SoloBlock, Ninguno
<1>2. (\E c \in CPUS : cpu'[c].pcb = q) <=> (\E c \in CPUS : cpu[c].pcb = q)
  BY DEF Igual, CpuDe
<1>3. EstadoDe(q)' = EstadoDe(q)
  BY <1>2 DEF EstadoDe, Igual, MismaMano, FIN
<1>4. QED
  BY <1>1, <1>3

\* The state of a process by its place.
EstadoBien(p) ==
    /\ vida[p] = "nuevo" => EstadoDe(p) = "NEW"
    /\ vida[p] = "fin" => EstadoDe(p) = "EXIT"
    /\ vida[p] = "vivo" =>
          /\ SoloReady(p) \/ SoloPlan(p) => EstadoDe(p) = "READY"
          /\ SoloBlock(p) => EstadoDe(p) = "BLOCK"
          /\ \A c \in CPUS : SoloCpu(p, c) => EstadoDe(p) = "EXEC"
          /\ \A c \in CPUS : SoloMano(p, c) =>
                EstadoDe(p) = IF manejador[c].paso \in FIN THEN "EXIT"
                              ELSE IF manejador[c].paso = "a_block" THEN "BLOCK"
                              ELSE "READY"

LEMMA EstadoPorSitio == \A p \in PIDS : EstadoBien(p)
<1> SUFFICES ASSUME NEW p \in PIDS PROVE EstadoBien(p)
  OBVIOUS
<1>1. FIN \cup {"a_block"} \subseteq ConPcb
  BY DEF FIN, ConPcb
<1>2. (\E c \in CPUS : cpu[c].pcb = p) <=> CpuDe(p) # {}
  BY DEF CpuDe
<1>3. ASSUME ManoDe(p) = {} PROVE ~EnMano(p, FIN) /\ ~EnMano(p, {"a_block"})
  BY <1>1, <1>3 DEF ManoDe, EnMano
<1>4. ASSUME vida[p] = "vivo", ManoDe(p) = {}
      PROVE  EstadoDe(p) = IF p \in block THEN "BLOCK"
                           ELSE IF CpuDe(p) # {} THEN "EXEC" ELSE "READY"
  BY <1>2, <1>3, <1>4 DEF EstadoDe, FIN
<1>5. ASSUME vida[p] = "vivo", NEW c \in CPUS, SoloMano(p, c)
      PROVE  EstadoDe(p) = IF manejador[c].paso \in FIN THEN "EXIT"
                           ELSE IF manejador[c].paso = "a_block" THEN "BLOCK"
                           ELSE "READY"
  <2>1. ManoDe(p) = {c} /\ p \notin block /\ CpuDe(p) = {}
    BY <1>5 DEF SoloMano, Esta
  <2>2. manejador[c].pcb = p /\ \A x \in CPUS : manejador[x].pcb = p
                                  /\ manejador[x].paso \in ConPcb => x = c
    BY <2>1 DEF ManoDe
  <2>3. EnMano(p, FIN) <=> manejador[c].paso \in FIN
    BY <1>1, <2>2 DEF EnMano
  <2>4. EnMano(p, {"a_block"}) <=> manejador[c].paso = "a_block"
    BY <1>1, <2>2 DEF EnMano
  <2>5. QED
    BY <1>2, <1>5, <2>1, <2>3, <2>4 DEF EstadoDe, FIN
<1>6. vida[p] = "nuevo" => EstadoDe(p) = "NEW"
  BY DEF EstadoDe
<1>7. vida[p] = "fin" => EstadoDe(p) = "EXIT"
  BY DEF EstadoDe
<1>8. ASSUME vida[p] = "vivo"
      PROVE  /\ SoloReady(p) \/ SoloPlan(p) => EstadoDe(p) = "READY"
             /\ SoloBlock(p) => EstadoDe(p) = "BLOCK"
             /\ \A c \in CPUS : SoloCpu(p, c) => EstadoDe(p) = "EXEC"
  BY <1>4, <1>8 DEF SoloReady, SoloPlan, SoloBlock, SoloCpu, Esta
<1>9. QED
  BY <1>5, <1>6, <1>7, <1>8 DEF EstadoBien

\* After a step too.
LEMMA EstadoPorSitioDespues == (\A p \in PIDS : EstadoBien(p))'
  BY EstadoPorSitio, PTL

\* A step that takes at most p to another place.
LEMMA MueveUno ==
    ASSUME Sitios, NEW p \in PIDS, \A q \in PIDS \ {p} : Igual(q), SitioDe(p)', Flecha(p)
    PROVE  (\A q \in PIDS : SitioDe(q)') /\ CicloPaso
<1>1. \A q \in PIDS \ {p} : SitioDe(q)' /\ EstadoDe(q)' = EstadoDe(q)
  BY IgualSitio DEF Sitios
<1>2. \A q \in PIDS : SitioDe(q)'
  BY <1>1
<1>3. ASSUME NEW x, EstadoDe(p)' = x
      PROVE  [q \in PIDS |-> EstadoDe(q)]' = [[q \in PIDS |-> EstadoDe(q)] EXCEPT ![p] = x]
  BY <1>1, <1>3
<1>4. ASSUME NEW d \in CPUS, NEW x, Queda(d, x)
      PROVE  [c \in CPUS |-> cpu[c].pcb]' = [[c \in CPUS |-> cpu[c].pcb] EXCEPT ![d] = x]
  BY <1>4 DEF Queda
<1>5. ASSUME Quedan PROVE [c \in CPUS |-> cpu[c].pcb]' = [c \in CPUS |-> cpu[c].pcb]
  BY <1>5 DEF Quedan
<1>6. CASE Quedan /\ EstadoDe(p)' = EstadoDe(p)
  <2>1. [q \in PIDS |-> EstadoDe(q)]' = [q \in PIDS |-> EstadoDe(q)]
    BY <1>1, <1>6
  <2>2. QED
    BY <1>2, <1>5, <1>6, <2>1 DEF CicloPaso, Ciclo!cvars
<1>7. CASE Quedan /\ EstadoDe(p) \in {"NEW", "BLOCK"} /\ EstadoDe(p)' = "READY"
  <2>1. Ciclo!Crear(p) \/ Ciclo!Despertar(p)
    BY <1>3, <1>5, <1>7 DEF Ciclo!Crear, Ciclo!Despertar, Ciclo!Pasa
  <2>2. QED
    BY <1>2, <2>1 DEF CicloPaso, Ciclo!Next
<1>8. ASSUME NEW d \in CPUS, Queda(d, p), cpu[d].pcb = Nadie,
             EstadoDe(p) = "READY", EstadoDe(p)' = "EXEC"
      PROVE  CicloPaso
  <2>1. Ciclo!Despachar(p, d)
    BY <1>3, <1>4, <1>8 DEF Ciclo!Despachar, Ciclo!Pasa
  <2>2. QED
    BY <2>1 DEF CicloPaso, Ciclo!Next
<1>9. ASSUME NEW d \in CPUS, Queda(d, Nadie), cpu[d].pcb = p,
             EstadoDe(p) = "EXEC", EstadoDe(p)' \in {"READY", "BLOCK", "EXIT"}
      PROVE  CicloPaso
  <2>1. PICK x \in {"READY", "BLOCK", "EXIT"} : EstadoDe(p)' = x
    BY <1>9
  <2>2. Ciclo!Dejar(p, d)
    BY <1>3, <1>4, <1>9, <2>1 DEF Ciclo!Dejar, Ciclo!Pasa
  <2>3. QED
    BY <2>2 DEF CicloPaso, Ciclo!Next
<1>10. QED
  BY <1>2, <1>6, <1>7, <1>8, <1>9 DEF Flecha

\* A step that moves nobody.
LEMMA NadieSeMueve ==
    ASSUME Sitios, \A q \in PIDS : Igual(q), Quedan
    PROVE  (\A q \in PIDS : SitioDe(q)') /\ CicloPaso
<1>1. \A q \in PIDS : SitioDe(q)' /\ EstadoDe(q)' = EstadoDe(q)
  BY IgualSitio DEF Sitios
<1>2. [q \in PIDS |-> EstadoDe(q)]' = [q \in PIDS |-> EstadoDe(q)]
  BY <1>1
<1>3. [c \in CPUS |-> cpu[c].pcb]' = [c \in CPUS |-> cpu[c].pcb]
  BY DEF Quedan
<1>4. QED
  BY <1>1, <1>2, <1>3 DEF CicloPaso, Ciclo!cvars

-----------------------------------------------------------------------------
(* One lemma per kind of move.                                               *)

\* What a step that changes no list and no CPU keeps.
LEMMA SinCambioDeListas ==
    ASSUME Sitios, UNCHANGED <<exec_lista, ready, planif, block, vida>>
    PROVE  /\ SinRepetir' /\ ManoDelPlan'
           /\ \A q \in PIDS : /\ EnReady(q)' <=> EnReady(q)
                              /\ planif'.pcb = q <=> planif.pcb = q
                              /\ q \in block' <=> q \in block
                              /\ vida'[q] = vida[q]
           /\ Quedan => Enchufadas'
           /\ \A d \in CPUS : Queda(d, Nadie) => Enchufadas'
<1>1. SinRepetir' /\ ManoDelPlan'
  BY DEF Sitios, SinRepetir, ManoDelPlan
<1>2. \A q \in PIDS : EnReady(q)' <=> EnReady(q)
  BY DEF EnReady
<1>3. Conectadas' = Conectadas
  BY DEF Conectadas
<1>4. Quedan => Enchufadas'
  BY <1>3 DEF Sitios, Enchufadas, Quedan
<1>5. \A d \in CPUS : Queda(d, Nadie) => Enchufadas'
  BY <1>3 DEF Sitios, Enchufadas, Queda
<1>6. QED
  BY <1>1, <1>2, <1>4, <1>5

\* Nothing that the places depend on changes.
LEMMA MueveNada ==
    ASSUME Sitios, UNCHANGED <<exec_lista, ready, planif, block, vida, manejador>>, Quedan
    PROVE  Sitios' /\ CicloPaso
<1>1. ASSUME NEW q \in PIDS PROVE Igual(q)
  BY MismasCpus, SinCambioDeListas DEF Igual, MismaMano, ManoDe, EnMano
<1>2. QED
  BY <1>1, NadieSeMueve, SinCambioDeListas DEF Sitios

\* A handler goes on without a t_pcb.
LEMMA MueveSinPcb ==
    ASSUME InvLugar, NEW c \in CPUS, NEW r, manejador' = [manejador EXCEPT ![c] = r],
           manejador[c].paso \notin ConPcb, r.paso \notin ConPcb,
           UNCHANGED <<exec_lista, ready, planif, block, vida>>, Quedan
    PROVE  Sitios' /\ CicloPaso
<1>2. ASSUME NEW q \in PIDS PROVE Igual(q)
  BY MismasCpus, MismasManos, SinCambioDeListas DEF Igual, InvLugar
<1>3. QED
  BY <1>2, NadieSeMueve, SinCambioDeListas DEF Sitios, InvLugar

\* A handler takes a process out of its CPU and keeps it in its hand.
LEMMA MueveDeCpuAMano ==
    ASSUME InvLugar, NEW c \in CPUS, NEW r, manejador' = [manejador EXCEPT ![c] = r],
           manejador[c].paso \notin ConPcb, r.paso \in ConPcb,
           NEW p \in PIDS, r.pcb = p, NEW d \in CPUS, cpu[d].pcb = p, Queda(d, Nadie),
           UNCHANGED <<exec_lista, ready, planif, block, vida>>
    PROVE  Sitios' /\ CicloPaso
<1> USE DEF InvLugar
<1>2. vida[p] = "vivo" /\ SoloCpu(p, d)
  BY EsDeCpu
<1>3. /\ \A q \in PIDS \ {p} : CpuDe(q)' = CpuDe(q)
      /\ CpuDe(p)' = {}
  BY <1>2, CambiaCpu DEF SoloCpu, Esta
<1>4. /\ \A q \in PIDS \ {p} : MismaMano(q)
      /\ ManoDe(p)' = {c}
  <2>1. /\ \A q \in PIDS \ {p} : MismaMano(q)
        /\ ManoDe(p)' = ManoDe(p) \cup {c}
    BY CambiaMano
  <2>2. ManoDe(p) = {}
    BY <1>2 DEF SoloCpu, Esta
  <2>3. QED
    BY <2>1, <2>2
<1>5. \A q \in PIDS \ {p} : Igual(q)
  BY <1>3, <1>4, SinCambioDeListas DEF Igual
<1>6. vida'[p] = "vivo" /\ SoloMano(p, c)'
  BY <1>2, <1>3, <1>4, SinCambioDeListas DEF SoloCpu, SoloMano, Esta
<1>7. SitioDe(p)'
  BY <1>6 DEF SitioDe
<1>8. EstadoDe(p) = "EXEC"
  BY <1>2, EstadoPorSitio DEF EstadoBien
<1>9. EstadoDe(p)' \in {"READY", "BLOCK", "EXIT"}
  BY <1>6, EstadoPorSitioDespues DEF EstadoBien
<1>10. Flecha(p)
  BY <1>8, <1>9 DEF Flecha
<1>11. QED
  BY <1>5, <1>7, <1>10, MueveUno, SinCambioDeListas DEF Sitios

\* A handler leaves in ready_cola the t_pcb it has in its hand.
LEMMA MueveDeManoAReady ==
    ASSUME InvLugar, NEW c \in CPUS, NEW r, manejador' = [manejador EXCEPT ![c] = r],
           manejador[c].paso \in {"encolar", "enlistar_primero"}, r.paso \notin ConPcb,
           NEW p \in PIDS, manejador[c].pcb = p,
           ready' = Append(ready, p) \/ ready' = <<p>> \o ready,
           UNCHANGED <<exec_lista, cpu, planif, block, vida>>
    PROVE  Sitios' /\ CicloPaso
<1> USE DEF InvLugar
<1>1. vida[p] = "vivo" /\ SoloMano(p, c)
  BY EsDeMano DEF ConPcb
<1>2. Quedan
  BY DEF Quedan
<1>3. ~EnReady(p) /\ CpuDe(p) = {} /\ ManoDe(p) = {c} /\ planif.pcb # p /\ p \notin block
  BY <1>1 DEF SoloMano, Esta
<1>4. /\ SinRepetir' /\ EnReady(p)'
      /\ \A q \in PIDS \ {p} : EnReady(q)' <=> EnReady(q)
  BY <1>3, EntraEnReady
<1>5. \A q \in PIDS : CpuDe(q)' = CpuDe(q)
  BY <1>2, MismasCpus
<1>6. /\ \A q \in PIDS \ {p} : MismaMano(q)
      /\ ManoDe(p)' = ManoDe(p) \ {c}
  BY CambiaMano
<1>7. \A q \in PIDS \ {p} : Igual(q)
  BY <1>4, <1>5, <1>6 DEF Igual
<1>8. vida'[p] = "vivo" /\ SoloReady(p)'
  BY <1>1, <1>3, <1>4, <1>5, <1>6 DEF SoloReady, Esta
<1>9. SitioDe(p)'
  BY <1>8 DEF SitioDe
<1>10. EstadoDe(p) = "READY"
  BY <1>1, EstadoPorSitio DEF EstadoBien, FIN
<1>11. EstadoDe(p)' = "READY"
  BY <1>8, EstadoPorSitioDespues DEF EstadoBien
<1>12. Flecha(p)
  BY <1>2, <1>10, <1>11 DEF Flecha
<1>13. Enchufadas' /\ ManoDelPlan'
  BY DEF Sitios, Enchufadas, ManoDelPlan, Conectadas
<1>14. QED
  BY <1>4, <1>7, <1>9, <1>12, <1>13, MueveUno DEF Sitios

\* A handler leaves in block_lista the t_pcb it has in its hand.
LEMMA MueveDeManoABlock ==
    ASSUME InvLugar, NEW c \in CPUS, NEW r, manejador' = [manejador EXCEPT ![c] = r],
           manejador[c].paso = "a_block", r.paso \notin ConPcb,
           NEW p \in PIDS, manejador[c].pcb = p, block' = block \cup {p},
           UNCHANGED <<exec_lista, cpu, planif, ready, vida>>
    PROVE  Sitios' /\ CicloPaso
<1> USE DEF InvLugar
<1>1. vida[p] = "vivo" /\ SoloMano(p, c)
  BY EsDeMano DEF ConPcb
<1>2. Quedan
  BY DEF Quedan
<1>3. ~EnReady(p) /\ CpuDe(p) = {} /\ ManoDe(p) = {c} /\ planif.pcb # p /\ p \notin block
  BY <1>1 DEF SoloMano, Esta
<1>4. SinRepetir' /\ \A q \in PIDS : EnReady(q)' <=> EnReady(q)
  BY DEF Sitios, SinRepetir, EnReady
<1>5. \A q \in PIDS : CpuDe(q)' = CpuDe(q)
  BY <1>2, MismasCpus
<1>6. /\ \A q \in PIDS \ {p} : MismaMano(q)
      /\ ManoDe(p)' = ManoDe(p) \ {c}
  BY CambiaMano
<1>7. \A q \in PIDS \ {p} : Igual(q)
  BY <1>4, <1>5, <1>6 DEF Igual
<1>8. vida'[p] = "vivo" /\ SoloBlock(p)'
  BY <1>1, <1>3, <1>4, <1>5, <1>6 DEF SoloBlock, Esta
<1>9. SitioDe(p)'
  BY <1>8 DEF SitioDe
<1>10. EstadoDe(p) = "BLOCK"
  BY <1>1, EstadoPorSitio DEF EstadoBien, FIN
<1>11. EstadoDe(p)' = "BLOCK"
  BY <1>8, EstadoPorSitioDespues DEF EstadoBien
<1>12. Flecha(p)
  BY <1>2, <1>10, <1>11 DEF Flecha
<1>13. Enchufadas' /\ ManoDelPlan'
  BY DEF Sitios, Enchufadas, ManoDelPlan, Conectadas
<1>14. QED
  BY <1>4, <1>7, <1>9, <1>12, <1>13, MueveUno DEF Sitios

-----------------------------------------------------------------------------
(* The actions, one by one: the places stay exclusive and the step is one of *)
(* CicloDeVida.                                                              *)

\* A NULL read stops the scheduler: nothing moves.
LEMMA CaerLugar == ASSUME InvLugar, NEW m, Caer(m) PROVE Sitios' /\ CicloPaso
  BY MueveNada DEF InvLugar, Caer, colas, Quedan

\* A CPU connects without a process.
LEMMA ConectarLugar ==
    ASSUME InvLugar, NEW c \in CPUS, ConectarCpu(c) PROVE Sitios' /\ CicloPaso
<1> USE DEF InvLugar
<1>1. /\ c \notin Conectadas /\ exec_lista' = Append(exec_lista, c)
      /\ cpu' = [cpu EXCEPT ![c] = CpuNueva]
      /\ UNCHANGED <<ready, planif, block, vida, manejador>>
  BY DEF ConectarCpu, colas
<1>2. cpu[c].pcb = Nadie /\ CpuNueva.pcb = Nadie
  BY <1>1 DEF Sitios, Enchufadas, CpuNueva
<1>3. Quedan
  BY <1>1, <1>2, QuedaExcepto
<1>4. Conectadas \subseteq Conectadas'
  <2>1. exec_lista \in Seq(CPUS) /\ DOMAIN exec_lista = 1..Len(exec_lista) /\ Len(exec_lista) \in Nat
    BY LenProperties DEF InvReady, TypeOK
  <2>2. /\ DOMAIN exec_lista' = 1..(Len(exec_lista) + 1)
        /\ \A i \in 1..Len(exec_lista) : exec_lista'[i] = exec_lista[i]
    BY <1>1, <2>1
  <2>3. QED
    BY <2>1, <2>2 DEF Conectadas
<1>5. Enchufadas'
  BY <1>3, <1>4 DEF Sitios, Enchufadas, Quedan
<1>6. /\ SinRepetir' /\ ManoDelPlan'
      /\ \A q \in PIDS : EnReady(q)' <=> EnReady(q)
  BY <1>1 DEF Sitios, SinRepetir, ManoDelPlan, EnReady
<1>7. ASSUME NEW q \in PIDS PROVE Igual(q)
  BY <1>1, <1>3, <1>6, MismasCpus DEF Igual, MismaMano, ManoDe, EnMano
<1>8. QED
  BY <1>3, <1>5, <1>6, <1>7, NadieSeMueve DEF Sitios

\* The CPUs and the programs move no t_pcb.
LEMMA CpuLugar == ASSUME InvLugar, NEW c \in CPUS, Cpu(c) \/ Programa(c) PROVE Sitios' /\ CicloPaso
<1>1. EnCpu
  BY DEF Cpu, Programa, CpuOciosa, hay_interrupcion, Syscall
<1>2. QED
  BY <1>1, MueveNada DEF InvLugar, EnCpu, colas, Quedan

\* The scan of exec_lista stops at a connected CPU.
LEMMA PrimeraConConectada ==
    ASSUME InvReady, NEW x, PrimeraCon(x) # Nadie
    PROVE  PrimeraCon(x) \in Conectadas /\ PrimeraCon(x) \in CPUS /\ cpu[PrimeraCon(x)].pcb = x
<1> DEFINE donde == {i \in DOMAIN exec_lista : cpu[exec_lista[i]].pcb = x}
<1>1. donde # {}
  BY DEF PrimeraCon
<1>2. donde \in SUBSET Nat
  BY LenProperties DEF InvReady, TypeOK
<1> DEFINE k == CHOOSE i \in donde : \A j \in donde : i <= j
<1>3. k \in donde
  BY <1>1, <1>2, HayPrimero
<1>4. PrimeraCon(x) = exec_lista[k]
  BY <1>1 DEF PrimeraCon
<1>5. QED
  BY <1>3, <1>4, PrimeraConTipo DEF Conectadas, InvReady

\* FINALIZAR_POR_QUANTUM, EXIT and COMPACTACION.
LEMMA SacarDeCpuLugar ==
    ASSUME InvLugar, NEW c \in CPUS, a_plan[c] # <<>>, NEW tipos, NEW limpia,
           NEW paso \in {"encolar", "fin_memoria", "enlistar_primero"},
           SacarDeCpu(c, tipos, limpia, paso)
    PROVE  Sitios' /\ CicloPaso
<1> USE DEF InvLugar
<1> DEFINE p == Head(a_plan[c]).pid
           d == encontrar_cpu_con_pid(p)
           r == IF d = Nadie THEN Ocioso
                ELSE [Ocioso EXCEPT !.paso = paso, !.pid = p, !.cpu = d, !.pcb = p]
           v == [pcb |-> Nadie,
                 control |-> IF "control" \in limpia THEN FALSE ELSE cpu[d].control,
                 ack |-> IF "ack" \in limpia THEN FALSE ELSE cpu[d].ack]
<1>r. Recibir(c, tipos, r)
  BY DEF SacarDeCpu
<1>1. /\ cpu' = IF d = Nadie THEN cpu ELSE [cpu EXCEPT ![d] = v]
      /\ UNCHANGED <<exec_lista, ready, planif, block, vida>>
  BY DEF SacarDeCpu, colas
<1>2. p \in PIDS
  BY <1>r, RecibirTipo DEF InvReady
<1>3. manejador[c] = Ocioso /\ manejador' = [manejador EXCEPT ![c] = r]
  BY <1>r DEF Recibir
<1>4. Ocioso.paso \notin ConPcb /\ paso \in ConPcb
  BY DEF Ocioso, ConPcb
<1>5. CASE d = Nadie
  BY <1>1, <1>3, <1>4, <1>5, MueveSinPcb DEF Quedan
<1>6. CASE d # Nadie
  <2>1. d \in CPUS /\ cpu[d].pcb = p
    BY <1>6, PrimeraConTipo DEF encontrar_cpu_con_pid, InvReady
  <2>2. r.paso = paso /\ r.pcb = p
    BY <1>6 DEF Ocioso
  <2>3. Queda(d, Nadie)
    <3>1. v.pcb = Nadie
      OBVIOUS
    <3> HIDE DEF v, d
    <3>2. QED
      BY <1>1, <1>6, <2>1, <3>1, QuedaExcepto
  <2> HIDE DEF v, d, r, p
  <2>4. QED
    BY <1>1, <1>2, <1>3, <1>4, <2>1, <2>2, <2>3, MueveDeCpuAMano
<1>7. QED
  BY <1>5, <1>6

\* SLEEP, MEM_ALLOC and MEM_FREE: only the message is read.
LEMMA RecibirLugar ==
    ASSUME InvLugar, NEW c \in CPUS, NEW tipos, NEW r, Recibir(c, tipos, r),
           r.paso \notin ConPcb,
           UNCHANGED <<exec_lista, cpu, ready, planif, block, vida>>
    PROVE  Sitios' /\ CicloPaso
<1>1. manejador[c].paso \notin ConPcb /\ manejador' = [manejador EXCEPT ![c] = r]
  BY DEF Recibir, Ocioso, ConPcb
<1>2. QED
  BY <1>1, MueveSinPcb DEF Quedan

\* SLEEP and MEM_ALLOC only look for the CPU.
LEMMA BuscarCpuLugar ==
    ASSUME InvLugar, NEW c \in CPUS, SLEEP(c) \/ MEM_ALLOC(c) \/ MEM_FREE(c)
    PROVE  Sitios' /\ CicloPaso
<1>1. ASSUME NEW tipo, NEW paso \in {"leer_pcb", "pedir"}, BuscarCpu(c, tipo, paso)
      PROVE  Sitios' /\ CicloPaso
  <2> DEFINE p == Head(a_plan[c]).pid
             d == encontrar_cpu_con_pid(p)
             r == IF d = Nadie THEN Ocioso
                  ELSE [Ocioso EXCEPT !.paso = paso, !.pid = p, !.cpu = d]
  <2>1. /\ Recibir(c, {tipo}, r)
        /\ UNCHANGED <<exec_lista, cpu, ready, planif, block, vida>>
    BY <1>1 DEF BuscarCpu, colas
  <2>2. r.paso \notin ConPcb
    BY DEF Ocioso, ConPcb
  <2>3. QED
    BY <2>1, <2>2, RecibirLugar
<1>2. ASSUME MEM_FREE(c) PROVE Sitios' /\ CicloPaso
  <2> DEFINE r == [Ocioso EXCEPT !.paso = "buscar", !.pid = Head(a_plan[c]).pid]
  <2>1. /\ Recibir(c, {"MEM_FREE"}, r)
        /\ UNCHANGED <<exec_lista, cpu, ready, planif, block, vida>>
    BY <1>2 DEF MEM_FREE, colas
  <2>2. r.paso \notin ConPcb
    BY DEF Ocioso, ConPcb
  <2>3. QED
    BY <2>1, <2>2, RecibirLugar
<1>3. QED
  BY <1>1, <1>2 DEF SLEEP, MEM_ALLOC

\* A child is born in ready_cola, or nothing of it is left.
LEMMA InitProcLugar ==
    ASSUME InvLugar, NEW c \in CPUS, INIT_PROC(c, PIDS) PROVE Sitios' /\ CicloPaso
<1> USE DEF InvLugar
<1> DEFINE r == [Ocioso EXCEPT !.paso = "buscar", !.pid = Head(a_plan[c]).pid]
<1>1. /\ Recibir(c, {"INIT_PROC"}, r)
      /\ UNCHANGED <<exec_lista, cpu, planif, block>>
  BY DEF INIT_PROC
<1>2. r.paso \notin ConPcb
  BY DEF Ocioso, ConPcb
<1>3. CASE UNCHANGED <<vida, ready>>
  BY <1>1, <1>2, <1>3, RecibirLugar
<1>4. ASSUME NEW p \in PIDS, vida[p] = "nuevo", vida' = [vida EXCEPT ![p] = "vivo"],
             ready' = Append(ready, p)
      PROVE  Sitios' /\ CicloPaso
  <2>1. manejador[c].paso \notin ConPcb /\ manejador' = [manejador EXCEPT ![c] = r]
    BY <1>1 DEF Recibir, Ocioso, ConPcb
  <2>2. Ninguno(p)
    BY <1>4 DEF Sitios, SitioDe
  <2>3. ~EnReady(p) /\ CpuDe(p) = {} /\ ManoDe(p) = {} /\ planif.pcb # p /\ p \notin block
    BY <2>2 DEF Ninguno, Esta
  <2>4. /\ SinRepetir' /\ EnReady(p)'
        /\ \A q \in PIDS \ {p} : EnReady(q)' <=> EnReady(q)
    BY <1>4, <2>3, EntraEnReady
  <2>5. Quedan
    BY <1>1 DEF Quedan
  <2>6. \A q \in PIDS : CpuDe(q)' = CpuDe(q)
    BY <2>5, MismasCpus
  <2>7. \A q \in PIDS : MismaMano(q)
    BY <1>2, <2>1, MismasManos
  <2>8. \A q \in PIDS : vida'[q] = IF q = p THEN "vivo" ELSE vida[q]
    BY <1>4 DEF InvReady, TypeOK
  <2>9. \A q \in PIDS \ {p} : Igual(q)
    BY <1>1, <2>4, <2>6, <2>7, <2>8 DEF Igual
  <2>10. vida'[p] = "vivo" /\ SoloReady(p)'
    BY <1>1, <2>3, <2>4, <2>6, <2>7, <2>8 DEF SoloReady, Esta, MismaMano
  <2>11. SitioDe(p)'
    BY <2>10 DEF SitioDe
  <2>12. EstadoDe(p) = "NEW"
    BY <1>4, EstadoPorSitio DEF EstadoBien
  <2>13. EstadoDe(p)' = "READY"
    BY <2>10, EstadoPorSitioDespues DEF EstadoBien
  <2>14. Flecha(p)
    BY <2>5, <2>12, <2>13 DEF Flecha
  <2>15. Enchufadas' /\ ManoDelPlan'
    BY <1>1 DEF Sitios, Enchufadas, ManoDelPlan, Conectadas
  <2>16. QED
    BY <2>4, <2>9, <2>11, <2>14, <2>15, MueveUno DEF Sitios
<1>5. QED
  BY <1>3, <1>4 DEF INIT_PROC

\* Every message a handler may take.
LEMMA RecepcionLugar ==
    ASSUME InvLugar, NEW c \in CPUS, Recepcion(c) PROVE Sitios' /\ CicloPaso
<1>1. CASE FINALIZAR_POR_QUANTUM(c) \/ EXIT(c) \/ COMPACTACION(c)
  BY <1>1, SacarDeCpuLugar DEF FINALIZAR_POR_QUANTUM, EXIT, COMPACTACION
<1>2. CASE SLEEP(c) \/ MEM_ALLOC(c) \/ MEM_FREE(c)
  BY <1>2, BuscarCpuLugar
<1>3. CASE INIT_PROC(c, PIDS)
  BY <1>3, InitProcLugar
<1>4. QED
  BY <1>1, <1>2, <1>3 DEF Recepcion

\* The end of a quantum: from the hands of the handler to ready_cola.
LEMMA EncolarLugar ==
    ASSUME InvLugar, NEW c \in CPUS, EncolarReady(c) \/ enlistar_primero_ready(c)
    PROVE  Sitios' /\ CicloPaso
<1> DEFINE p == manejador[c].pcb
<1>1. /\ manejador' = [manejador EXCEPT ![c] = Ocioso]
      /\ manejador[c].paso \in {"encolar", "enlistar_primero"}
      /\ ready' = Append(ready, p) \/ ready' = <<p>> \o ready
      /\ UNCHANGED <<exec_lista, cpu, planif, block, vida>>
  BY DEF EncolarReady, enlistar_primero_ready, Seguir, Paso
<1>2. p \in PIDS
  BY <1>1 DEF InvLugar, InvReady, EnLaMano, ConLoSuyo
<1>3. Ocioso.paso \notin ConPcb
  BY DEF Ocioso, ConPcb
<1> HIDE DEF p
<1>4. manejador[c].pcb = p
  BY DEF p
<1>5. QED
  BY <1>1, <1>2, <1>3, <1>4, MueveDeManoAReady

\* From the notice to Kernel Memory to the notice to the CPU: still in hand.
LEMMA FinMemoriaLugar ==
    ASSUME InvLugar, NEW c \in CPUS, enviar_fin_proceso_memory(c)
    PROVE  Sitios' /\ CicloPaso
<1> USE DEF InvLugar
<1> DEFINE r == [manejador[c] EXCEPT !.paso = "fin_cpu"]
<1>1. /\ manejador[c].paso = "fin_memoria" /\ manejador' = [manejador EXCEPT ![c] = r]
      /\ UNCHANGED <<exec_lista, cpu, ready, planif, block, vida>>
  BY DEF enviar_fin_proceso_memory, Paso, Seguir, colas
<1>2. manejador[c] \in RegManejador
  BY DEF InvReady, TypeOK
<1>3. r.paso = "fin_cpu" /\ r.pcb = manejador[c].pcb
  BY <1>2 DEF RegManejador
<1>4. \A x \in CPUS : manejador'[x] = IF x = c THEN r ELSE manejador[x]
  BY <1>1 DEF InvReady, TypeOK
<1> HIDE DEF r
<1>5. ASSUME NEW q \in PIDS PROVE MismaMano(q)
  <2>1. ManoDe(q)' = ManoDe(q)
    BY <1>1, <1>3, <1>4 DEF ManoDe, ConPcb
  <2>2. EnMano(q, FIN)' <=> EnMano(q, FIN)
    BY <1>1, <1>3, <1>4 DEF EnMano, FIN
  <2>3. EnMano(q, {"a_block"})' <=> EnMano(q, {"a_block"})
    BY <1>1, <1>3, <1>4 DEF EnMano
  <2>4. QED
    BY <2>1, <2>2, <2>3 DEF MismaMano
<1>6. Quedan
  BY <1>1 DEF Quedan
<1>7. \A q \in PIDS : Igual(q)
  BY <1>1, <1>5, <1>6, MismasCpus, SinCambioDeListas DEF Igual
<1>8. QED
  BY <1>1, <1>6, <1>7, NadieSeMueve, SinCambioDeListas DEF Sitios

\* The t_pcb is freed: the process is nowhere.
LEMMA FinCpuLugar ==
    ASSUME InvLugar, NEW c \in CPUS, enviar_fin_proceso_a_cpu(c)
    PROVE  Sitios' /\ CicloPaso
<1> USE DEF InvLugar
<1>0. manejador[c].paso = "fin_cpu"
  BY DEF enviar_fin_proceso_a_cpu, Paso
<1>p. PICK p \in PIDS : manejador[c].pcb = p
  BY <1>0 DEF InvReady, EnLaMano, ConLoSuyo
<1>d. PICK d \in CPUS : manejador[c].cpu = d
  BY <1>0 DEF InvReady, EnLaMano, ConLoSuyo
<1>1. /\ manejador' = [manejador EXCEPT ![c] = Ocioso]
      /\ UNCHANGED <<exec_lista, ready, planif, block>>
      /\ vida' = [vida EXCEPT ![p] = "fin"] /\ cpu' = [cpu EXCEPT ![d].control = TRUE]
  BY <1>p, <1>d DEF enviar_fin_proceso_a_cpu, Seguir, colas
<1>3. Ocioso.paso \notin ConPcb
  BY DEF Ocioso, ConPcb
<1>4. vida[p] = "vivo" /\ SoloMano(p, c)
  BY <1>0, <1>p, EsDeMano DEF ConPcb
<1>5. ~EnReady(p) /\ CpuDe(p) = {} /\ ManoDe(p) = {c} /\ planif.pcb # p /\ p \notin block
  BY <1>4 DEF SoloMano, Esta
<1>6. Quedan
  <2>1. [cpu[d] EXCEPT !.control = TRUE].pcb = cpu[d].pcb
    BY DEF InvReady, TypeOK, RegCpu
  <2>2. QED
    BY <1>1, <2>1 DEF Quedan, InvReady, TypeOK
<1>7. \A q \in PIDS : CpuDe(q)' = CpuDe(q)
  BY <1>6, MismasCpus
<1>8. /\ \A q \in PIDS \ {p} : MismaMano(q)
      /\ ManoDe(p)' = ManoDe(p) \ {c}
  BY <1>1, <1>3, <1>p, CambiaMano
<1>9. \A q \in PIDS : vida'[q] = IF q = p THEN "fin" ELSE vida[q]
  BY <1>1 DEF InvReady, TypeOK
<1>10. SinRepetir' /\ \A q \in PIDS : EnReady(q)' <=> EnReady(q)
  BY <1>1 DEF Sitios, SinRepetir, EnReady
<1>11. \A q \in PIDS \ {p} : Igual(q)
  BY <1>1, <1>7, <1>8, <1>9, <1>10 DEF Igual
<1>12. vida'[p] = "fin" /\ Ninguno(p)'
  BY <1>1, <1>5, <1>7, <1>8, <1>9, <1>10 DEF Ninguno, Esta
<1>13. SitioDe(p)'
  BY <1>12 DEF SitioDe
<1>14. EstadoDe(p) = "EXIT"
  BY <1>0, <1>4, EstadoPorSitio DEF EstadoBien, FIN
<1>15. EstadoDe(p)' = "EXIT"
  BY <1>12, EstadoPorSitioDespues DEF EstadoBien
<1>16. Flecha(p)
  BY <1>6, <1>14, <1>15 DEF Flecha
<1>17. Enchufadas' /\ ManoDelPlan'
  BY <1>1, <1>6 DEF Sitios, Enchufadas, ManoDelPlan, Conectadas, Quedan
<1>18. QED
  BY <1>10, <1>11, <1>13, <1>16, <1>17, MueveUno DEF Sitios

\* bloquear_proceso takes the process out of the CPU that has it.
LEMMA BloquearLugar ==
    ASSUME InvLugar, NEW c \in CPUS, bloquear_proceso(c) PROVE Sitios' /\ CicloPaso
<1> USE DEF InvLugar
<1>0. manejador[c].paso = "bloquear"
  BY DEF bloquear_proceso, Paso
<1>p. PICK p \in PIDS : manejador[c].pcb = p
  BY <1>0 DEF InvReady, EnLaMano, ConLoSuyo
<1>d. PICK d : encontrar_cpu_con_pid(p) = d
  OBVIOUS
<1>1. UNCHANGED <<exec_lista, ready, planif, block, vida>>
  BY DEF bloquear_proceso, colas
<1>2. manejador[c].paso \notin ConPcb /\ manejador[c] \in RegManejador
  BY <1>0 DEF ConPcb, InvReady, TypeOK
<1>3. CASE d = Nadie
  <2> DEFINE r == [manejador[c] EXCEPT !.paso = "dormir"]
  <2>1. manejador' = [manejador EXCEPT ![c] = r] /\ UNCHANGED cpu
    BY <1>3, <1>p, <1>d DEF bloquear_proceso, Seguir
  <2>2. r.paso \notin ConPcb
    BY <1>2 DEF RegManejador, ConPcb
  <2> HIDE DEF r
  <2>3. QED
    BY <1>1, <1>2, <2>1, <2>2, MueveSinPcb DEF Quedan
<1>4. CASE d # Nadie
  <2> DEFINE r == [manejador[c] EXCEPT !.paso = "a_block"]
             v == [cpu[d] EXCEPT !.pcb = Nadie, !.control = TRUE]
  <2>1. manejador' = [manejador EXCEPT ![c] = r] /\ cpu' = [cpu EXCEPT ![d] = v]
    BY <1>4, <1>p, <1>d DEF bloquear_proceso, Seguir
  <2>2. r.paso \in ConPcb /\ r.pcb = p
    BY <1>2, <1>p DEF RegManejador, ConPcb
  <2>3. d \in CPUS /\ cpu[d].pcb = p /\ cpu[d] \in RegCpu
    BY <1>4, <1>d, PrimeraConTipo DEF encontrar_cpu_con_pid, InvReady, TypeOK
  <2>4. v.pcb = Nadie
    BY <2>3 DEF RegCpu
  <2> HIDE DEF v, r
  <2>5. Queda(d, Nadie)
    BY <2>1, <2>3, <2>4, QuedaExcepto
  <2>6. QED
    BY <1>1, <1>2, <2>1, <2>2, <2>3, <2>5, MueveDeCpuAMano
<1>5. QED
  BY <1>3, <1>4

\* From the hands of the handler to block_lista, or nothing if it has no t_pcb.
LEMMA PasarABlockLugar ==
    ASSUME InvLugar, NEW c \in CPUS, PasarABlock(c) PROVE Sitios' /\ CicloPaso
<1> USE DEF InvLugar
<1>1. /\ manejador' = [manejador EXCEPT ![c] = Ocioso]
      /\ UNCHANGED <<exec_lista, cpu, ready, planif, vida>>
  BY DEF PasarABlock, Seguir
<1>2. Ocioso.paso \notin ConPcb
  BY DEF Ocioso, ConPcb
<1>3. CASE Paso(c, "a_block")
  <2>1. PICK p \in PIDS : manejador[c].pcb = p
    BY <1>3 DEF InvReady, EnLaMano, ConLoSuyo, Paso
  <2>2. manejador[c].paso = "a_block" /\ block' = block \cup {p}
    BY <1>3, <2>1 DEF PasarABlock, Paso
  <2>3. QED
    BY <1>1, <1>2, <2>1, <2>2, MueveDeManoABlock
<1>4. CASE ~Paso(c, "a_block")
  <2>1. manejador[c].paso = "dormir" /\ UNCHANGED block
    BY <1>4 DEF PasarABlock, Paso
  <2>2. manejador[c].paso \notin ConPcb
    BY <2>1 DEF ConPcb
  <2>3. QED
    BY <1>1, <1>2, <2>1, <2>2, MueveSinPcb DEF Quedan
<1>5. QED
  BY <1>3, <1>4

\* Out of memory: the process leaves its CPU to end.
LEMMA SacarSinMemoriaLugar ==
    ASSUME InvLugar, NEW c \in CPUS, SacarSinMemoria(c) PROVE Sitios' /\ CicloPaso
<1> USE DEF InvLugar
<1>0. manejador[c].paso = "sacar_pcb" /\ manejador[c] \in RegManejador
  BY DEF SacarSinMemoria, Paso, InvReady, TypeOK
<1>d. PICK d \in CPUS : manejador[c].cpu = d
  BY <1>0 DEF InvReady, EnLaMano, ConLoSuyo
<1>1. CASE cpu[d].pcb = Nadie
  BY <1>1, <1>d, CaerLugar DEF SacarSinMemoria
<1>2. CASE cpu[d].pcb # Nadie
  <2>1. PICK p \in PIDS : cpu[d].pcb = p
    BY <1>2 DEF InvReady, TypeOK, RegCpu, PidONadie
  <2> DEFINE r == [manejador[c] EXCEPT !.paso = "fin_memoria", !.pcb = p]
             v == [cpu[d] EXCEPT !.pcb = Nadie]
  <2>2. /\ manejador' = [manejador EXCEPT ![c] = r] /\ cpu' = [cpu EXCEPT ![d] = v]
        /\ UNCHANGED <<exec_lista, ready, planif, block, vida>>
    BY <1>2, <1>d, <2>1 DEF SacarSinMemoria, Seguir, colas
  <2>3. r.paso \in ConPcb /\ r.pcb = p /\ manejador[c].paso \notin ConPcb
    BY <1>0 DEF RegManejador, ConPcb
  <2>4. v.pcb = Nadie
    BY DEF InvReady, TypeOK, RegCpu
  <2> HIDE DEF v, r
  <2>5. Queda(d, Nadie)
    BY <2>2, <2>4, QuedaExcepto
  <2>6. QED
    BY <2>1, <2>2, <2>3, <2>5, MueveDeCpuAMano
<1>3. QED
  BY <1>1, <1>2

\* The handlers that only look, ask or wait.
LEMMA SinPcbLugar ==
    ASSUME InvLugar, NEW c \in CPUS,
           \/ LeerPcb(c) \/ BuscarDeNuevo(c) \/ reanudar_proceso_en_cpu(c)
           \/ \E r \in RESPUESTAS : Pedir(c, r)
           \/ despostear_todas_cpus(c) \/ EsperarDesalojos(c)
           \/ CompactacionExitosa(c) \/ FinDeCompactacion(c)
    PROVE  Sitios' /\ CicloPaso
<1> USE DEF InvLugar
<1>1. manejador[c] \in RegManejador /\ Ocioso.paso \notin ConPcb
  BY DEF InvReady, TypeOK, Ocioso, ConPcb
<1>2. ASSUME NEW r, Seguir(c, r), r.paso \notin ConPcb, manejador[c].paso \notin ConPcb,
             UNCHANGED <<exec_lista, ready, planif, block, vida>>, UNCHANGED cpu
      PROVE  Sitios' /\ CicloPaso
  BY <1>2, MueveSinPcb DEF Seguir, Quedan
<1>3. CASE LeerPcb(c)
  <2>1. CASE cpu[manejador[c].cpu].pcb = Nadie
    BY <1>3, <2>1, CaerLugar DEF LeerPcb
  <2>2. CASE cpu[manejador[c].cpu].pcb # Nadie
    <3> DEFINE r == [manejador[c] EXCEPT !.paso = "bloquear",
                                         !.pcb = cpu[manejador[c].cpu].pcb]
    <3>1. /\ Seguir(c, r) /\ UNCHANGED <<exec_lista, ready, planif, block, vida>>
          /\ UNCHANGED cpu /\ Paso(c, "leer_pcb")
      BY <1>3, <2>2 DEF LeerPcb, colas
    <3>2. r.paso = "bloquear"
      BY <1>1 DEF RegManejador
    <3> HIDE DEF r
    <3>3. QED
      BY <1>2, <3>1, <3>2 DEF ConPcb, Paso
  <2>3. QED
    BY <2>1, <2>2
<1>4. CASE BuscarDeNuevo(c)
  <2> DEFINE d == encontrar_cpu_con_pid(manejador[c].pid)
             x == IF Paso(c, "buscar") THEN "reanudar" ELSE "sacar_pcb"
             r == IF d = Nadie THEN Ocioso ELSE [manejador[c] EXCEPT !.paso = x, !.cpu = d]
  <2>1. /\ Seguir(c, r) /\ UNCHANGED <<exec_lista, ready, planif, block, vida>>
        /\ UNCHANGED cpu /\ (Paso(c, "buscar") \/ Paso(c, "buscar_fin"))
    BY <1>4 DEF BuscarDeNuevo, colas
  <2>2. r.paso \in {Ocioso.paso, "reanudar", "sacar_pcb"}
    <3> HIDE DEF d
    <3> QED BY <1>1 DEF RegManejador
  <2> HIDE DEF r
  <2>3. QED
    BY <1>1, <1>2, <2>1, <2>2 DEF ConPcb, Paso
<1>5. CASE reanudar_proceso_en_cpu(c)
  <2>1. CASE Caer("nulo")
    BY <2>1, CaerLugar
  <2>2. CASE ~Caer("nulo")
    <3>1. /\ Seguir(c, Ocioso) /\ UNCHANGED <<exec_lista, ready, planif, block, vida>>
          /\ UNCHANGED cpu /\ Paso(c, "reanudar")
      BY <1>5, <2>2 DEF reanudar_proceso_en_cpu, colas
    <3>2. QED
      BY <1>1, <1>2, <3>1 DEF ConPcb, Paso
  <2>3. QED
    BY <2>1, <2>2
<1>6. ASSUME NEW x, Seguir(c, [manejador[c] EXCEPT !.paso = x]), x \notin ConPcb,
             manejador[c].paso \notin ConPcb,
             UNCHANGED <<exec_lista, ready, planif, block, vida>>, UNCHANGED cpu
      PROVE  Sitios' /\ CicloPaso
  <2>1. [manejador[c] EXCEPT !.paso = x].paso = x
    BY <1>1 DEF RegManejador
  <2>2. QED
    BY <1>2, <1>6, <2>1
<1>7. ASSUME NEW s \in RESPUESTAS, Pedir(c, s) PROVE Sitios' /\ CicloPaso
  <2>1. /\ UNCHANGED <<exec_lista, ready, planif, block, vida>> /\ UNCHANGED cpu
        /\ Paso(c, "pedir") \/ Paso(c, "repedir")
    BY <1>7 DEF Pedir, colas
  <2>2. \/ UNCHANGED manejador
        \/ \E x \in {"medir", "buscar", "buscar_fin", "reponer"} :
              Seguir(c, [manejador[c] EXCEPT !.paso = x])
    BY <1>7, Zenon DEF Pedir
  <2>3. CASE UNCHANGED manejador
    BY <2>1, <2>3, MueveNada DEF Quedan
  <2>4. ASSUME NEW x \in {"medir", "buscar", "buscar_fin", "reponer"},
               Seguir(c, [manejador[c] EXCEPT !.paso = x])
        PROVE  Sitios' /\ CicloPaso
    BY <1>6, <2>1, <2>4 DEF ConPcb, Paso
  <2>5. QED
    BY <2>2, <2>3, <2>4
<1>8. CASE despostear_todas_cpus(c)
  <2>1. /\ UNCHANGED <<exec_lista, ready, planif, block, vida>> /\ UNCHANGED cpu
        /\ Paso(c, "medir") \/ Paso(c, "bajar")
    BY <1>8 DEF despostear_todas_cpus, colas
  <2>2. \E x \in {"medir", "bajar", "desalojar"} : Seguir(c, [manejador[c] EXCEPT !.paso = x])
    BY <1>8, Zenon DEF despostear_todas_cpus
  <2>3. QED
    BY <1>6, <2>1, <2>2 DEF ConPcb, Paso
<1>9. CASE EsperarDesalojos(c)
  <2>1. /\ UNCHANGED <<exec_lista, ready, planif, block, vida>> /\ UNCHANGED cpu
        /\ manejador[c].paso = "esperar"
    BY <1>9 DEF EsperarDesalojos, colas, Paso
  <2>2. CASE manejador[c].faltan = 0
    BY <1>6, <1>9, <2>1, <2>2 DEF EsperarDesalojos, ConPcb
  <2>3. CASE manejador[c].faltan # 0
    <3> DEFINE r == [manejador[c] EXCEPT !.faltan = @ - 1]
    <3>1. Seguir(c, r)
      BY <1>9, <2>3 DEF EsperarDesalojos
    <3>2. r.paso = "esperar"
      BY <1>1, <2>1 DEF RegManejador
    <3> HIDE DEF r
    <3>3. QED
      BY <1>2, <2>1, <3>1, <3>2 DEF ConPcb
  <2>4. QED
    BY <2>2, <2>3
<1>10. CASE CompactacionExitosa(c)
  BY <1>6, <1>10 DEF CompactacionExitosa, ConPcb, colas, Paso
<1>11. CASE FinDeCompactacion(c)
  <2>1. UNCHANGED <<exec_lista, ready, planif, block, vida>> /\ UNCHANGED cpu
    BY <1>11 DEF FinDeCompactacion, colas
  <2>2. CASE Paso(c, "reponer")
    BY <1>6, <1>11, <2>1, <2>2 DEF FinDeCompactacion, ConPcb, Paso
  <2>3. CASE ~Paso(c, "reponer")
    <3> DEFINE t == manejador[c].totales
               resto == SubSeq(t, 1, Len(t) - 1)
               r == [manejador[c] EXCEPT !.paso = IF resto = <<>> THEN "buscar" ELSE "reponer",
                                         !.totales = resto]
    <3>1. Seguir(c, r) /\ Paso(c, "postear")
      BY <1>11, <2>3, Zenon DEF FinDeCompactacion
    <3>2. r.paso \in {"buscar", "reponer"}
      <4> HIDE DEF resto
      <4> QED BY <1>1 DEF RegManejador
    <3> HIDE DEF r
    <3>3. QED
      BY <1>2, <2>1, <3>1, <3>2 DEF ConPcb, Paso
  <2>4. QED
    BY <2>2, <2>3
<1>12. QED
  BY <1>3, <1>4, <1>5, <1>7, <1>8, <1>9, <1>10, <1>11

\* The CPU that asked loses its process, which goes first in ready_cola; the
\* others keep theirs.
LEMMA DesalojarLugar ==
    ASSUME InvLugar, NEW c \in CPUS, desalojar_por_compactacion(c)
    PROVE  Sitios' /\ CicloPaso
<1> USE DEF InvLugar
<1> DEFINE ocupadas == {d \in Conectadas : cpu[d].pcb # Nadie}
           avisadas == {d \in ocupadas \ {c} : ~cpu[d].control}
           r == [manejador[c] EXCEPT !.paso = "esperar", !.faltan = Cardinality(avisadas),
                                     !.totales = Append(@, Cardinality(ocupadas))]
<1>1. /\ manejador' = [manejador EXCEPT ![c] = r] /\ manejador[c].paso = "desalojar"
      /\ UNCHANGED <<exec_lista, planif, block, vida>>
      /\ ready' = IF c \in ocupadas THEN <<cpu[c].pcb>> \o ready ELSE ready
  BY Zenon DEF desalojar_por_compactacion, Seguir, Paso
<1>2. cpu' = [d \in CPUS |->
              IF d \in ocupadas /\ d = c
                THEN [cpu[d] EXCEPT !.pcb = Nadie, !.control = FALSE]
              ELSE IF d \in avisadas
                THEN [cpu[d] EXCEPT !.control = TRUE, !.ack = TRUE]
              ELSE cpu[d]]
  BY Zenon DEF desalojar_por_compactacion
<1>3. r.paso = "esperar"
  <2>1. manejador[c] \in RegManejador
    BY DEF InvReady, TypeOK
  <2> HIDE DEF avisadas, ocupadas
  <2>2. QED
    BY <2>1 DEF RegManejador
<1>4. manejador[c].paso \notin ConPcb /\ r.paso \notin ConPcb
  BY <1>1, <1>3 DEF ConPcb
<1>5. ASSUME NEW d \in CPUS
      PROVE  cpu'[d].pcb = IF d \in ocupadas /\ d = c THEN Nadie ELSE cpu[d].pcb
  <2>1. cpu[d] \in RegCpu
    BY DEF InvReady, TypeOK
  <2> HIDE DEF avisadas, ocupadas
  <2>2. QED
    BY <1>2, <2>1 DEF RegCpu
<1>6. CASE c \notin ocupadas
  <2>1. Quedan
    BY <1>5, <1>6 DEF Quedan
  <2> HIDE DEF r, ocupadas
  <2>2. QED
    BY <1>1, <1>4, <1>6, <2>1, MueveSinPcb
<1>7. CASE c \in ocupadas
  <2>1. PICK p \in PIDS : cpu[c].pcb = p
    BY <1>7 DEF InvReady, TypeOK, RegCpu, PidONadie
  <2>2. Queda(c, Nadie)
    BY <1>5, <1>7 DEF Queda
  <2>3. ready' = <<p>> \o ready
    BY <1>1, <1>7, <2>1
  <2> HIDE DEF r, ocupadas
  <2>4. vida[p] = "vivo" /\ SoloCpu(p, c)
    BY <2>1, EsDeCpu
  <2>5. ~EnReady(p) /\ CpuDe(p) = {c} /\ ManoDe(p) = {} /\ planif.pcb # p /\ p \notin block
    BY <2>4 DEF SoloCpu, Esta
  <2>6. /\ SinRepetir' /\ EnReady(p)'
        /\ \A q \in PIDS \ {p} : EnReady(q)' <=> EnReady(q)
    BY <2>3, <2>5, EntraEnReady
  <2>7. /\ \A q \in PIDS \ {p} : CpuDe(q)' = CpuDe(q)
        /\ CpuDe(p)' = {}
    BY <2>1, <2>2, <2>5, CambiaCpu
  <2>8. \A q \in PIDS : MismaMano(q)
    BY <1>1, <1>4, MismasManos
  <2>9. \A q \in PIDS \ {p} : Igual(q)
    BY <1>1, <2>6, <2>7, <2>8 DEF Igual
  <2>10. vida'[p] = "vivo" /\ SoloReady(p)'
    BY <1>1, <2>4, <2>5, <2>6, <2>7, <2>8 DEF SoloReady, Esta, MismaMano
  <2>11. SitioDe(p)'
    BY <2>10 DEF SitioDe
  <2>12. EstadoDe(p) = "EXEC"
    BY <2>4, EstadoPorSitio DEF EstadoBien
  <2>13. EstadoDe(p)' = "READY"
    BY <2>10, EstadoPorSitioDespues DEF EstadoBien
  <2>14. Flecha(p)
    BY <2>1, <2>2, <2>12, <2>13 DEF Flecha
  <2>15. Enchufadas' /\ ManoDelPlan'
    BY <1>1, <2>2 DEF Sitios, Enchufadas, ManoDelPlan, Conectadas, Queda
  <2>16. QED
    BY <2>6, <2>9, <2>11, <2>14, <2>15, MueveUno DEF Sitios
<1>8. QED
  BY <1>6, <1>7

\* Every step of a handler.
LEMMA ManejadorLugar ==
    ASSUME InvLugar, NEW c \in CPUS, Manejador(c) PROVE Sitios' /\ CicloPaso
<1>1. CASE Recepcion(c) \/ EncolarReady(c) \/ enlistar_primero_ready(c)
           \/ enviar_fin_proceso_memory(c) \/ enviar_fin_proceso_a_cpu(c)
  BY <1>1, RecepcionLugar, EncolarLugar, FinMemoriaLugar, FinCpuLugar
<1>2. CASE bloquear_proceso(c) \/ PasarABlock(c) \/ SacarSinMemoria(c)
           \/ desalojar_por_compactacion(c)
  BY <1>2, BloquearLugar, PasarABlockLugar, SacarSinMemoriaLugar, DesalojarLugar
<1>3. CASE \/ LeerPcb(c) \/ BuscarDeNuevo(c) \/ reanudar_proceso_en_cpu(c)
           \/ \E r \in RESPUESTAS : Pedir(c, r)
           \/ despostear_todas_cpus(c) \/ EsperarDesalojos(c)
           \/ CompactacionExitosa(c) \/ FinDeCompactacion(c)
  BY <1>3, SinPcbLugar
<1>4. QED
  BY <1>1, <1>2, <1>3 DEF Manejador

\* The device returns a process that is in block_lista, and no other.
LEMMA FinSleepLugar == ASSUME InvLugar, FINALIZAR_SLEEP PROVE Sitios' /\ CicloPaso
<1> USE DEF InvLugar
<1>1. UNCHANGED <<exec_lista, cpu, manejador, planif, vida>>
  BY DEF FINALIZAR_SLEEP
<1>2. PICK p \in PIDS : p = Head(cola_sleep)
  BY HeadTailProperties DEF FINALIZAR_SLEEP, InvReady, TypeOK
<1>3. CASE p \notin block
  BY <1>1, <1>2, <1>3, MueveNada DEF FINALIZAR_SLEEP, Quedan
<1>4. CASE p \in block
  <2>1. block' = block \ {p} /\ ready' = Append(ready, p)
    BY <1>2, <1>4 DEF FINALIZAR_SLEEP
  <2>2. vida[p] = "vivo" /\ SoloBlock(p)
    BY <1>4, EsDeBlock
  <2>3. ~EnReady(p) /\ CpuDe(p) = {} /\ ManoDe(p) = {} /\ planif.pcb # p
    BY <2>2 DEF SoloBlock, Esta
  <2>4. /\ SinRepetir' /\ EnReady(p)'
        /\ \A q \in PIDS \ {p} : EnReady(q)' <=> EnReady(q)
    BY <2>1, <2>3, EntraEnReady
  <2>5. Quedan
    BY <1>1 DEF Quedan
  <2>6. \A q \in PIDS : CpuDe(q)' = CpuDe(q)
    BY <2>5, MismasCpus
  <2>7. \A q \in PIDS : MismaMano(q)
    BY <1>1 DEF MismaMano, ManoDe, EnMano
  <2>8. \A q \in PIDS \ {p} : Igual(q)
    BY <1>1, <2>1, <2>4, <2>6, <2>7 DEF Igual
  <2>9. vida'[p] = "vivo" /\ SoloReady(p)'
    BY <1>1, <2>1, <2>2, <2>3, <2>4, <2>6, <2>7 DEF SoloReady, Esta, MismaMano
  <2>10. SitioDe(p)'
    BY <2>9 DEF SitioDe
  <2>11. EstadoDe(p) = "BLOCK"
    BY <2>2, EstadoPorSitio DEF EstadoBien
  <2>12. EstadoDe(p)' = "READY"
    BY <2>9, EstadoPorSitioDespues DEF EstadoBien
  <2>13. Flecha(p)
    BY <2>5, <2>11, <2>12 DEF Flecha
  <2>14. Enchufadas' /\ ManoDelPlan'
    BY <1>1 DEF Sitios, Enchufadas, ManoDelPlan, Conectadas
  <2>15. QED
    BY <2>4, <2>8, <2>10, <2>13, <2>14, MueveUno DEF Sitios
<1>5. QED
  BY <1>3, <1>4

-----------------------------------------------------------------------------
(* The planner and the timers.                                               *)

\* The planner waits, looks or sleeps: it has no process in its hand.
LEMMA PlanSinPcb ==
    ASSUME InvLugar, EnPlan, planif.paso # "despachar",
           planif'.pcb \in {Nadie, planif.pcb}, UNCHANGED <<cpu, ready>>
    PROVE  Sitios' /\ CicloPaso
<1> USE DEF InvLugar
<1>1. planif.pcb = Nadie /\ planif'.pcb = planif.pcb
  BY DEF Sitios, ManoDelPlan
<1>2. UNCHANGED <<exec_lista, manejador, block, vida>>
  BY DEF EnPlan
<1>3. Quedan
  BY DEF Quedan
<1>4. \A q \in PIDS : EnReady(q)' <=> EnReady(q)
  BY DEF EnReady
<1>5. ASSUME NEW q \in PIDS PROVE Igual(q)
  BY <1>1, <1>2, <1>3, <1>4, MismasCpus DEF Igual, MismaMano, ManoDe, EnMano
<1>6. SinRepetir' /\ Enchufadas' /\ ManoDelPlan'
  BY <1>1, <1>2 DEF Sitios, SinRepetir, Enchufadas, ManoDelPlan, Conectadas
<1>7. QED
  BY <1>3, <1>5, <1>6, NadieSeMueve DEF Sitios

\* The waits of the planner move no t_pcb.
LEMMA EsperasLugar ==
    ASSUME InvLugar, EsperarReady \/ EsperarCpu \/ MirarCompactando \/ Despertar
    PROVE  Sitios' /\ CicloPaso
<1>1. EnPlan /\ UNCHANGED <<cpu, ready>>
  BY DEF EsperarReady, EsperarCpu, MirarCompactando, Despertar
<1>2. planif.paso # "despachar" /\ \E x : planif' = [planif EXCEPT !.paso = x]
  BY DEF EsperarReady, EsperarCpu, MirarCompactando, Despertar, PlanPaso, PlanSeguir
<1>3. planif'.pcb = planif.pcb
  BY <1>2 DEF InvLugar, InvReady, TypeOK, RegPlanif
<1>4. QED
  BY <1>1, <1>2, <1>3, PlanSinPcb

\* The first process of ready_cola passes to the planner's hand.
LEMMA DesencolarLugar == ASSUME InvLugar, desencolar_pcb_ready PROVE Sitios' /\ CicloPaso
<1> USE DEF InvLugar
<1>1. CASE ready = <<>>
  BY <1>1, CaerLugar DEF desencolar_pcb_ready
<1>2. CASE ready # <<>>
  <2>1. PICK p : p = Head(ready)
    OBVIOUS
  <2>2. /\ ready' = Tail(ready) /\ EnPlan /\ planif.paso = "desencolar" /\ UNCHANGED cpu
        /\ planif' = [planif EXCEPT !.paso = "despachar", !.pcb = p]
    BY <1>2, <2>1 DEF desencolar_pcb_ready, PlanPaso
  <2>3. /\ SinRepetir' /\ p \in PIDS /\ EnReady(p) /\ ~EnReady(p)'
        /\ \A q \in PIDS \ {p} : EnReady(q)' <=> EnReady(q)
    BY <1>2, <2>1, <2>2, SaleDeReady
  <2>4. planif.pcb = Nadie /\ planif'.pcb = p /\ planif'.paso = "despachar"
    BY <2>2 DEF Sitios, ManoDelPlan, InvReady, TypeOK, RegPlanif
  <2>5. UNCHANGED <<exec_lista, manejador, block, vida>>
    BY <2>2 DEF EnPlan
  <2>6. vida[p] = "vivo" /\ SoloReady(p)
    BY <2>3, EsDeReady
  <2>7. Quedan
    BY <2>2 DEF Quedan
  <2>8. \A q \in PIDS : CpuDe(q)' = CpuDe(q) /\ MismaMano(q)
    BY <2>5, <2>7, MismasCpus DEF MismaMano, ManoDe, EnMano
  <2>9. \A q \in PIDS : q # Nadie
    BY SupuestosDespacho
  <2>10. \A q \in PIDS \ {p} : Igual(q)
    BY <2>3, <2>4, <2>5, <2>8, <2>9 DEF Igual
  <2>11. vida'[p] = "vivo" /\ SoloPlan(p)'
    BY <2>3, <2>4, <2>5, <2>6, <2>8 DEF SoloPlan, SoloReady, Esta, MismaMano
  <2>12. SitioDe(p)'
    BY <2>11 DEF SitioDe
  <2>13. EstadoDe(p) = "READY"
    BY <2>3, <2>6, EstadoPorSitio DEF EstadoBien
  <2>14. EstadoDe(p)' = "READY"
    BY <2>3, <2>11, EstadoPorSitioDespues DEF EstadoBien
  <2>15. Flecha(p)
    BY <2>7, <2>13, <2>14 DEF Flecha
  <2>16. Enchufadas' /\ ManoDelPlan'
    BY <2>2, <2>4, <2>5 DEF Sitios, Enchufadas, ManoDelPlan, Conectadas
  <2>17. QED
    BY <2>3, <2>10, <2>12, <2>15, <2>16, MueveUno DEF Sitios
<1>3. QED
  BY <1>1, <1>2

\* From the planner's hand to a free CPU, or back to ready_cola.
LEMMA DespacharLugar == ASSUME InvLugar, enviar_proceso_a_cpu PROVE Sitios' /\ CicloPaso
<1> USE DEF InvLugar
<1>1. planif.paso = "despachar" /\ EnPlan
  BY DEF enviar_proceso_a_cpu, PlanPaso
<1>2. PICK p \in PIDS : planif.pcb = p
  BY <1>1 DEF InvReady, EnLaMano, PlanPaso
<1>3. PICK d : obtener_cpu_libre = d
  OBVIOUS
<1>4. UNCHANGED <<exec_lista, manejador, block, vida>>
  BY <1>1 DEF EnPlan
<1>5. vida[p] = "vivo" /\ SoloPlan(p)
  BY <1>2, EsDelPlan
<1>6. ~EnReady(p) /\ CpuDe(p) = {} /\ ManoDe(p) = {} /\ p \notin block
  BY <1>5 DEF SoloPlan, Esta
<1>7. \A q \in PIDS : MismaMano(q)
  BY <1>4 DEF MismaMano, ManoDe, EnMano
<1>8. EstadoDe(p) = "READY"
  BY <1>5, EstadoPorSitio DEF EstadoBien
<1>9. \A q \in PIDS : q # Nadie
  BY SupuestosDespacho
<1>10. CASE d = Nadie
  <2>1. ready' = Append(ready, p) /\ planif'.pcb = Nadie /\ UNCHANGED cpu
    BY <1>2, <1>3, <1>10 DEF enviar_proceso_a_cpu
  <2>2. /\ SinRepetir' /\ EnReady(p)'
        /\ \A q \in PIDS \ {p} : EnReady(q)' <=> EnReady(q)
    BY <1>6, <2>1, EntraEnReady
  <2>3. Quedan
    BY <2>1 DEF Quedan
  <2>4. \A q \in PIDS : CpuDe(q)' = CpuDe(q)
    BY <2>3, MismasCpus
  <2>5. \A q \in PIDS \ {p} : Igual(q)
    BY <1>2, <1>4, <1>7, <1>9, <2>1, <2>2, <2>4 DEF Igual
  <2>6. vida'[p] = "vivo" /\ SoloReady(p)'
    BY <1>4, <1>5, <1>6, <1>7, <1>9, <2>1, <2>2, <2>4 DEF SoloReady, Esta, MismaMano
  <2>7. SitioDe(p)'
    BY <2>6 DEF SitioDe
  <2>8. EstadoDe(p)' = "READY"
    BY <2>6, EstadoPorSitioDespues DEF EstadoBien
  <2>9. Flecha(p)
    BY <1>8, <2>3, <2>8 DEF Flecha
  <2>10. Enchufadas' /\ ManoDelPlan'
    BY <1>4, <2>1 DEF Sitios, Enchufadas, ManoDelPlan, Conectadas
  <2>11. QED
    BY <2>2, <2>5, <2>7, <2>9, <2>10, MueveUno DEF Sitios
<1>11. CASE d # Nadie
  <2>1. d \in CPUS /\ d \in Conectadas /\ cpu[d].pcb = Nadie
    BY <1>3, <1>11, PrimeraConConectada DEF obtener_cpu_libre
  <2> DEFINE v == [cpu[d] EXCEPT !.pcb = p, !.control = FALSE]
  <2>2. cpu' = [cpu EXCEPT ![d] = v] /\ planif'.pcb = Nadie /\ UNCHANGED ready
    BY <1>2, <1>3, <1>11 DEF enviar_proceso_a_cpu
  <2>3. v.pcb = p
    BY <2>1 DEF InvReady, TypeOK, RegCpu
  <2> HIDE DEF v
  <2>4. Queda(d, p)
    BY <2>1, <2>2, <2>3, QuedaExcepto
  <2>5. /\ \A q \in PIDS \ {p} : CpuDe(q)' = CpuDe(q)
        /\ CpuDe(p)' = {d}
    BY <1>6, <2>1, <2>4, CambiaCpu
  <2>6. SinRepetir' /\ \A q \in PIDS : EnReady(q)' <=> EnReady(q)
    BY <2>2 DEF Sitios, SinRepetir, EnReady
  <2>7. \A q \in PIDS \ {p} : Igual(q)
    BY <1>2, <1>4, <1>7, <1>9, <2>2, <2>5, <2>6 DEF Igual
  <2>8. vida'[p] = "vivo" /\ SoloCpu(p, d)'
    BY <1>4, <1>5, <1>6, <1>7, <1>9, <2>2, <2>5, <2>6 DEF SoloCpu, Esta, MismaMano
  <2>9. SitioDe(p)'
    BY <2>1, <2>8 DEF SitioDe
  <2>10. EstadoDe(p)' = "EXEC"
    BY <2>1, <2>8, EstadoPorSitioDespues DEF EstadoBien
  <2>11. Flecha(p)
    BY <1>8, <2>1, <2>4, <2>10 DEF Flecha
  <2>12. Enchufadas' /\ ManoDelPlan'
    BY <1>4, <2>1, <2>2, <2>4 DEF Sitios, Enchufadas, ManoDelPlan, Conectadas, Queda
  <2>13. QED
    BY <2>6, <2>7, <2>9, <2>11, <2>12, MueveUno DEF Sitios
<1>12. QED
  BY <1>10, <1>11

\* A timer is started, or expires: no t_pcb moves.
LEMMA TimersLugar ==
    ASSUME InvLugar, iniciar_timer_quantum \/ \E c \in CPUS : hilo_timer_quantum(c)
    PROVE  Sitios' /\ CicloPaso
<1> USE DEF InvLugar
<1>1. CASE Caer("nulo")
  BY <1>1, CaerLugar
<1>2. CASE iniciar_timer_quantum /\ ~Caer("nulo")
  <2>1. /\ EnPlan /\ planif.paso = "temporizar" /\ planif'.pcb = Nadie
        /\ UNCHANGED <<cpu, ready>>
    BY <1>2 DEF iniciar_timer_quantum, PlanPaso
  <2>2. QED
    BY <2>1, PlanSinPcb
<1>3. ASSUME NEW c \in CPUS, hilo_timer_quantum(c) PROVE Sitios' /\ CicloPaso
  <2>1. UNCHANGED <<exec_lista, ready, planif, block, vida, manejador>>
    BY <1>3 DEF hilo_timer_quantum, EnPlan
  <2>2. Quedan
    <3>1. cpu' \in {cpu, [cpu EXCEPT ![c].control = TRUE]}
      BY <1>3 DEF hilo_timer_quantum
    <3>2. [cpu[c] EXCEPT !.control = TRUE].pcb = cpu[c].pcb
      BY DEF InvReady, TypeOK, RegCpu
    <3>3. QED
      BY <3>1, <3>2 DEF Quedan, InvReady, TypeOK
  <2>3. QED
    BY <2>1, <2>2, MueveNada
<1>4. QED
  BY <1>1, <1>2, <1>3

-----------------------------------------------------------------------------
(* The invariant of the places, and the two theorems it gives.               *)

\* At the start the first process is in ready_cola and the others are nowhere.
LEMMA InicioLugar == Init => InvLugar
<1> SUFFICES ASSUME Init PROVE InvLugar
  OBVIOUS
<1>1. InvReady
  BY InicioReady
<1>2. PICK p \in PIDS : /\ vida = [q \in PIDS |-> IF q = p THEN "vivo" ELSE "nuevo"]
                        /\ ready = <<p>>
  BY DEF Init
<1>3. /\ \A c \in CPUS : cpu[c].pcb = Nadie /\ manejador[c].paso \notin ConPcb
      /\ planif.pcb = Nadie /\ block = {}
  BY DEF Init, CpuNueva, Ocioso, ConPcb
<1>4. \A q \in PIDS : q # Nadie
  BY SupuestosDespacho
<1>5. DOMAIN ready = {1} /\ ready[1] = p
  BY <1>2
<1>6. ASSUME NEW q \in PIDS PROVE SitioDe(q)
  <2>1. CpuDe(q) = {} /\ ManoDe(q) = {} /\ planif.pcb # q /\ q \notin block
    BY <1>3, <1>4 DEF CpuDe, ManoDe
  <2>2. EnReady(q) <=> q = p
    BY <1>5 DEF EnReady
  <2>3. vida[q] = "vivo" <=> q = p
    BY <1>2
  <2>4. QED
    BY <2>1, <2>2, <2>3 DEF SitioDe, SoloReady, Ninguno, Esta
<1>7. SinRepetir /\ Enchufadas /\ ManoDelPlan
  BY <1>3, <1>5 DEF SinRepetir, Enchufadas, ManoDelPlan
<1>8. QED
  BY <1>1, <1>6, <1>7 DEF InvLugar, Sitios

\* Every step keeps the places, and is one of CicloDeVida.
LEMMA PasoLugar == InvLugar /\ [Next]_vars => InvLugar' /\ CicloPaso
<1> SUFFICES ASSUME InvLugar, [Next]_vars PROVE InvLugar' /\ CicloPaso
  OBVIOUS
<1>1. InvReady'
  BY PasoReady DEF InvLugar
<1>2. CASE planificador
  BY <1>2, EsperasLugar, DesencolarLugar, DespacharLugar, TimersLugar, <1>1
  DEF planificador, InvLugar
<1>3. CASE FINALIZAR_SLEEP
  BY <1>1, <1>3, FinSleepLugar DEF InvLugar
<1>4. ASSUME NEW c \in CPUS,
             \/ ConectarCpu(c)
             \/ Cpu(c)
             \/ Programa(c)
             \/ Manejador(c)
             \/ hilo_timer_quantum(c)
      PROVE  Sitios' /\ CicloPaso
  BY <1>4, ConectarLugar, CpuLugar, ManejadorLugar, TimersLugar
<1>5. CASE UNCHANGED vars
  BY <1>1, <1>5, MueveNada DEF InvLugar, vars, colas, Quedan
<1>6. QED
  BY <1>1, <1>2, <1>3, <1>4, <1>5 DEF Next, InvLugar

\* The place of every process, as an invariant of the scheduler.
THEOREM LugaresSiempre == Spec => []InvLugar
<1>1. InvLugar /\ [Next]_vars => InvLugar'
  BY PasoLugar
<1>2. QED
  BY InicioLugar, <1>1, PTL DEF Spec

\* No process of ready_cola is in it twice, so at most one position is its place.
LEMMA LugarUnico ==
    ASSUME InvLugar, NEW p \in PIDS
    PROVE  IF vida[p] = "vivo" THEN \E x : Lugares(p) = {x} ELSE Lugares(p) = {}
<1> USE DEF InvLugar
<1> DEFINE enReady == {<<"ready", i>> : i \in {j \in DOMAIN ready : ready[j] = p}}
           enCpu == {<<"cpu", c>> : c \in {d \in CPUS : cpu[d].pcb = p}}
           enMano == {<<"mano", c>> : c \in {d \in CPUS : manejador[d].pcb = p
                                                           /\ manejador[d].paso \in ConPcb}}
           enPlan == {<<"plan", q>> : q \in {p} \cap {planif.pcb}}
           enBlock == {<<"block", q>> : q \in {p} \cap block}
<1>1. Lugares(p) = enReady \cup enCpu \cup enMano \cup enPlan \cup enBlock
  BY DEF Lugares
<1>2. ~EnReady(p) => enReady = {}
  BY DEF EnReady
<1>3. CpuDe(p) = {} => enCpu = {}
  BY DEF CpuDe
<1>4. ManoDe(p) = {} => enMano = {}
  BY DEF ManoDe
<1>5. planif.pcb # p => enPlan = {}
  OBVIOUS
<1>6. p \notin block => enBlock = {}
  OBVIOUS
<1>7. CASE vida[p] # "vivo"
  <2>1. Ninguno(p)
    BY <1>7 DEF Sitios, SitioDe
  <2> HIDE DEF enReady, enCpu, enMano, enPlan, enBlock
  <2>2. QED
    BY <1>1, <1>2, <1>3, <1>4, <1>5, <1>6, <1>7, <2>1 DEF Ninguno, Esta
<1>8. CASE vida[p] = "vivo" /\ SoloReady(p)
  <2>1. EnReady(p) /\ CpuDe(p) = {} /\ ManoDe(p) = {} /\ planif.pcb # p /\ p \notin block
    BY <1>8 DEF SoloReady, Esta
  <2>2. PICK i \in DOMAIN ready : ready[i] = p
    BY <2>1 DEF EnReady
  <2>3. {j \in DOMAIN ready : ready[j] = p} = {i}
    BY <2>2 DEF Sitios, SinRepetir
  <2>4. enReady = {<<"ready", i>>}
    BY <2>3
  <2> HIDE DEF enReady, enCpu, enMano, enPlan, enBlock
  <2>5. Lugares(p) = {<<"ready", i>>}
    BY <1>1, <1>3, <1>4, <1>5, <1>6, <2>1, <2>4
  <2>6. QED
    BY <1>8, <2>5
<1>9. CASE vida[p] = "vivo" /\ SoloPlan(p)
  <2>1. ~EnReady(p) /\ CpuDe(p) = {} /\ ManoDe(p) = {} /\ planif.pcb = p /\ p \notin block
    BY <1>9 DEF SoloPlan, Esta
  <2>2. enPlan = {<<"plan", p>>}
    BY <2>1
  <2> HIDE DEF enReady, enCpu, enMano, enPlan, enBlock
  <2>3. Lugares(p) = {<<"plan", p>>}
    BY <1>1, <1>2, <1>3, <1>4, <1>6, <2>1, <2>2
  <2>4. QED
    BY <1>9, <2>3
<1>10. CASE vida[p] = "vivo" /\ SoloBlock(p)
  <2>1. ~EnReady(p) /\ CpuDe(p) = {} /\ ManoDe(p) = {} /\ planif.pcb # p /\ p \in block
    BY <1>10 DEF SoloBlock, Esta
  <2>2. enBlock = {<<"block", p>>}
    BY <2>1
  <2> HIDE DEF enReady, enCpu, enMano, enPlan, enBlock
  <2>3. Lugares(p) = {<<"block", p>>}
    BY <1>1, <1>2, <1>3, <1>4, <1>5, <2>1, <2>2
  <2>4. QED
    BY <1>10, <2>3
<1>11. ASSUME vida[p] = "vivo", NEW c \in CPUS, SoloCpu(p, c) PROVE \E x : Lugares(p) = {x}
  <2>1. ~EnReady(p) /\ CpuDe(p) = {c} /\ ManoDe(p) = {} /\ planif.pcb # p /\ p \notin block
    BY <1>11 DEF SoloCpu, Esta
  <2>2. enCpu = {<<"cpu", c>>}
    BY <2>1 DEF CpuDe
  <2> HIDE DEF enReady, enCpu, enMano, enPlan, enBlock
  <2>3. Lugares(p) = {<<"cpu", c>>}
    BY <1>1, <1>2, <1>4, <1>5, <1>6, <2>1, <2>2
  <2>4. QED
    BY <2>3
<1>12. ASSUME vida[p] = "vivo", NEW c \in CPUS, SoloMano(p, c) PROVE \E x : Lugares(p) = {x}
  <2>1. ~EnReady(p) /\ CpuDe(p) = {} /\ ManoDe(p) = {c} /\ planif.pcb # p /\ p \notin block
    BY <1>12 DEF SoloMano, Esta
  <2>2. enMano = {<<"mano", c>>}
    BY <2>1 DEF ManoDe
  <2> HIDE DEF enReady, enCpu, enMano, enPlan, enBlock
  <2>3. Lugares(p) = {<<"mano", c>>}
    BY <1>1, <1>2, <1>3, <1>5, <1>6, <2>1, <2>2
  <2>4. QED
    BY <2>3
<1>13. QED
  <2> HIDE DEF enReady, enCpu, enMano, enPlan, enBlock
  <2>1. SitioDe(p)
    BY DEF Sitios
  <2>2. QED
    BY <1>7, <1>8, <1>9, <1>10, <1>11, <1>12, <2>1 DEF SitioDe

\* The t_pcb of a live process is in one place and only one, and that of one
\* that ended or was not created in none.
THEOREM EnUnSoloLugar == Spec => []UnLugar
<1>1. InvLugar => UnLugar
  <2> SUFFICES ASSUME InvLugar, NEW p \in PIDS
               PROVE  IF vida[p] = "vivo" THEN Cardinality(Lugares(p)) = 1
                                          ELSE Lugares(p) = {}
    BY DEF UnLugar
  <2>1. \A x : Cardinality({x}) = 1
    BY FS_Singleton
  <2>2. QED
    BY <2>1, LugarUnico
<1>2. QED
  BY <1>1, LugaresSiempre, PTL

\* At the start the first process is READY and the others NEW.
LEMMA InicioCiclo == Init => Ciclo!Init
<1> SUFFICES ASSUME Init PROVE Ciclo!Init
  OBVIOUS
<1>1. PICK p \in PIDS : vida = [q \in PIDS |-> IF q = p THEN "vivo" ELSE "nuevo"]
                        /\ ready = <<p>>
  BY DEF Init
<1>2. vida[p] = "vivo" /\ \A q \in PIDS \ {p} : vida[q] = "nuevo"
  BY <1>1
<1>3. EnReady(p)
  BY <1>1 DEF EnReady
<1>4. SoloReady(p)
  BY <1>3, InicioLugar, EsDeReady DEF InvLugar
<1>5. \A q \in PIDS : EstadoDe(q) = IF q = p THEN "READY" ELSE "NEW"
  BY <1>2, <1>4, EstadoPorSitio DEF EstadoBien
<1>6. [c \in CPUS |-> cpu[c].pcb] = [c \in CPUS |-> Nadie]
  BY DEF Init, CpuNueva
<1>7. QED
  BY <1>5, <1>6 DEF Ciclo!Init

\* Whatever the handlers, timers, device, planner and compactions do, each of
\* their steps takes a process along one arrow of CicloDeVida, or none.
THEOREM EsUnCiclo == Spec => ImplementaCiclo
<1>1. InvLugar /\ [Next]_vars => [Ciclo!Next]_(Ciclo!cvars)
  BY PasoLugar DEF CicloPaso
<1>2. QED
  BY <1>1, InicioCiclo, LugaresSiempre, PTL DEF Spec, ImplementaCiclo, Ciclo!Spec

-----------------------------------------------------------------------------
(* Without preemption.  With FIFO and a Kernel Memory that never asks for a  *)
(* compaction no message crosses another: each process on a CPU has one      *)
(* bearer, the order to execute it, the CPU, the syscall it made or the      *)
(* handler that serves it.                                                   *)

SinDesalojo == ALGORITMO = "FIFO" /\ "COMPACTACION" \notin RESPUESTAS

\* The orders to execute in a socket, and what the socket of a CPU with
\* process p holds: one order at most, for p, and notices.
Arranques(s) == {i \in DOMAIN s : s[i].tipo = "EJECUTAR_PROCESO"}
Buzon(s, p) ==
    /\ \A i \in DOMAIN s : s[i].tipo \in ORDENES
    /\ \A i, j \in Arranques(s) : i = j
    /\ \A i \in Arranques(s) : s[i].pid = p

\* The handler serves a syscall of a process that has not left its CPU.
ACTIVOS == {"leer_pcb", "bloquear", "buscar", "buscar_fin", "reanudar", "sacar_pcb", "pedir"}
Atiende(c) == manejador[c].paso \in ACTIVOS

Portador(c) ==
    /\ Buzon(a_cpu[c], cpu[c].pcb)
    /\ Arranques(a_cpu[c]) # {} => corre[c] = Nadie /\ a_plan[c] = <<>> /\ ~Atiende(c)
    /\ corre[c] # Nadie => corre[c] = cpu[c].pcb /\ a_plan[c] = <<>> /\ ~Atiende(c)
    /\ a_plan[c] # <<>> => /\ Head(a_plan[c]).pid = cpu[c].pcb
                           /\ Head(a_plan[c]).tipo \in SYSCALLS
                           /\ Tail(a_plan[c]) = <<>>
                           /\ ~Atiende(c)
    /\ Atiende(c) => manejador[c].pid = cpu[c].pcb

ManoFifo(c) ==
    /\ manejador[c].paso \in ACTIVOS \cup {"recibir", "fin_memoria", "fin_cpu", "a_block"}
    /\ manejador[c].paso \in {"leer_pcb", "reanudar", "sacar_pcb", "fin_memoria", "fin_cpu"}
         => manejador[c].cpu = c
    /\ manejador[c].paso = "bloquear" => manejador[c].pcb = manejador[c].pid

\* sem_hay_cpu_libre counts the free CPUs.
Cuenta ==
    sem.cpu + (IF PlanConToken THEN 1 ELSE 0) + Cardinality(PorPostear) = Cardinality(Libres)

Fifo ==
    /\ \A c \in CPUS : Portador(c) /\ ManoFifo(c) /\ temporizador[c] = Nadie
    /\ Cuenta
    /\ planif.paso # "temporizar" /\ compactando = FALSE /\ caida = "no"
InvFifo == InvLugar /\ Fifo

-----------------------------------------------------------------------------
(* The socket of a CPU.                                                      *)

\* A notice does not change the order that waits in the socket.
LEMMA BuzonAviso ==
    ASSUME NEW s \in Seq(MsjACpu), NEW m \in MsjACpu, NEW p, Buzon(s, p),
           m.tipo \in {"PROCESO_BLOQUEADO", "FIN_PROCESO"}
    PROVE  Buzon(Append(s, m), p) /\ Arranques(Append(s, m)) = Arranques(s)
<1>1. /\ Len(s) \in Nat /\ DOMAIN s = 1..Len(s)
      /\ DOMAIN Append(s, m) = 1..(Len(s) + 1)
      /\ \A i \in 1..Len(s) : Append(s, m)[i] = s[i]
      /\ Append(s, m)[Len(s) + 1] = m
  BY LenProperties, AppendProperties
<1>2. Arranques(Append(s, m)) = Arranques(s)
  BY <1>1 DEF Arranques
<1>3. QED
  BY <1>1, <1>2 DEF Buzon, Arranques, ORDENES

\* The order to execute goes to a socket that has none.
LEMMA BuzonOrden ==
    ASSUME NEW s \in Seq(MsjACpu), NEW m \in MsjACpu, NEW p, Buzon(s, p),
           Arranques(s) = {}, m.tipo = "EJECUTAR_PROCESO"
    PROVE  Buzon(Append(s, m), m.pid)
<1>1. /\ Len(s) \in Nat /\ DOMAIN s = 1..Len(s)
      /\ DOMAIN Append(s, m) = 1..(Len(s) + 1)
      /\ \A i \in 1..Len(s) : Append(s, m)[i] = s[i]
      /\ Append(s, m)[Len(s) + 1] = m
  BY LenProperties, AppendProperties
<1>2. Arranques(Append(s, m)) = {Len(s) + 1}
  BY <1>1 DEF Arranques
<1>3. QED
  BY <1>1, <1>2 DEF Buzon, ORDENES

\* The CPU reads its socket.
LEMMA BuzonLee ==
    ASSUME NEW s \in Seq(MsjACpu), NEW p, Buzon(s, p), s # <<>>
    PROVE  /\ Buzon(Tail(s), p) /\ Head(s).tipo \in ORDENES
           /\ Arranques(Tail(s)) # {} => Arranques(s) # {}
           /\ Head(s).tipo = "EJECUTAR_PROCESO" =>
                 Head(s).pid = p /\ Arranques(s) # {} /\ Arranques(Tail(s)) = {}
<1>1. /\ Len(s) \in Nat \ {0} /\ DOMAIN s = 1..Len(s)
      /\ DOMAIN Tail(s) = 1..(Len(s) - 1)
      /\ \A i \in 1..(Len(s) - 1) : Tail(s)[i] = s[i + 1]
      /\ Head(s) = s[1]
  BY LenProperties, HeadTailProperties, EmptySeq
<1>2. \A i \in Arranques(Tail(s)) : i + 1 \in Arranques(s) /\ Tail(s)[i] = s[i + 1] /\ i \in Nat \ {0}
  BY <1>1 DEF Arranques
<1>3. \A i, j \in Arranques(Tail(s)) : i = j
  BY <1>2 DEF Buzon
<1>4. \A i \in Arranques(Tail(s)) : Tail(s)[i].pid = p
  BY <1>2 DEF Buzon
<1>5. \A i \in DOMAIN Tail(s) : Tail(s)[i].tipo \in ORDENES
  BY <1>1 DEF Buzon
<1>6. Head(s).tipo \in ORDENES
  BY <1>1 DEF Buzon
<1>7. Arranques(Tail(s)) # {} => Arranques(s) # {}
  BY <1>2
<1>8. ASSUME Head(s).tipo = "EJECUTAR_PROCESO"
      PROVE  Head(s).pid = p /\ Arranques(s) # {} /\ Arranques(Tail(s)) = {}
  <2>1. 1 \in Arranques(s)
    BY <1>1, <1>8 DEF Arranques
  <2>2. \A i \in Arranques(Tail(s)) : i + 1 = 1
    BY <1>2, <2>1 DEF Buzon
  <2>3. Arranques(Tail(s)) = {}
    BY <1>2, <2>2
  <2>4. QED
    BY <1>1, <2>1, <2>3 DEF Buzon
<1>9. QED
  BY <1>3, <1>4, <1>5, <1>6, <1>7, <1>8 DEF Buzon

\* The scan for a process that is on a CPU finds that CPU.
LEMMA EncuentraLaSuya ==
    ASSUME InvLugar, NEW c \in CPUS, NEW p \in PIDS, cpu[c].pcb = p
    PROVE  encontrar_cpu_con_pid(p) = c
<1> USE DEF InvLugar
<1>1. c \in Conectadas /\ \A x \in CPUS : x # Nadie
  BY SupuestosDespacho DEF Sitios, Enchufadas
<1>2. PICK i \in DOMAIN exec_lista : exec_lista[i] = c
  BY <1>1 DEF Conectadas
<1> DEFINE donde == {j \in DOMAIN exec_lista : cpu[exec_lista[j]].pcb = p}
           k == CHOOSE j \in donde : \A l \in donde : j <= l
<1>3. i \in donde /\ donde \in SUBSET Nat
  BY <1>2, LenProperties DEF InvReady, TypeOK
<1>4. k \in donde
  BY <1>3, HayPrimero
<1>5. PrimeraCon(p) = exec_lista[k]
  BY <1>3 DEF PrimeraCon
<1>e. exec_lista[k] \in CPUS
  <2> HIDE DEF k
  <2> QED BY <1>4, ElementOfSeq, LenProperties DEF InvReady, TypeOK
<1>6. cpu[exec_lista[k]].pcb = p
  BY <1>4
<1>7. CpuDe(p) = {c}
  BY EsDeCpu DEF SoloCpu, Esta
<1>8. QED
  BY <1>5, <1>e, <1>6, <1>7 DEF CpuDe, encontrar_cpu_con_pid

\* A free CPU in the list is found.
LEMMA EncuentraLibre ==
    ASSUME InvReady, Libres # {} PROVE obtener_cpu_libre # Nadie
<1>1. PICK c \in Conectadas : cpu[c].pcb = Nadie
  BY DEF Libres
<1>2. PICK i \in DOMAIN exec_lista : exec_lista[i] = c
  BY <1>1 DEF Conectadas
<1> DEFINE donde == {j \in DOMAIN exec_lista : cpu[exec_lista[j]].pcb = Nadie}
           k == CHOOSE j \in donde : \A l \in donde : j <= l
<1>3. i \in donde /\ donde \in SUBSET Nat
  BY <1>1, <1>2, LenProperties DEF InvReady, TypeOK
<1>4. k \in donde
  BY <1>3, HayPrimero
<1>5. PrimeraCon(Nadie) = exec_lista[k]
  BY <1>3 DEF PrimeraCon
<1>e. exec_lista[k] \in CPUS
  <2> HIDE DEF k
  <2> QED BY <1>4, ElementOfSeq, LenProperties DEF InvReady, TypeOK
<1>6. QED
  BY <1>5, <1>e, SupuestosDespacho DEF obtener_cpu_libre

-----------------------------------------------------------------------------
(* What a step keeps of the CPUs it does not touch, and of the count.        *)

Ajeno(c) ==
    /\ a_cpu'[c] = a_cpu[c] /\ a_plan'[c] = a_plan[c] /\ corre'[c] = corre[c]
    /\ cpu'[c].pcb = cpu[c].pcb /\ manejador'[c] = manejador[c]

\* The invariant of a CPU is about that CPU alone.
LEMMA AjenoFifo ==
    ASSUME NEW c \in CPUS, Portador(c), ManoFifo(c), Ajeno(c)
    PROVE  Portador(c)' /\ ManoFifo(c)'
  BY DEF Portador, ManoFifo, Atiende, Ajeno

\* The handlers that have freed a CPU and have not posted its token.
POSTERGA == {"encolar", "fin_memoria", "fin_cpu", "a_block"}

\* What the count adds is finite.
LEMMA Finitos ==
    ASSUME InvReady
    PROVE  /\ IsFiniteSet(PorPostear) /\ IsFiniteSet(Libres)
           /\ Cardinality(PorPostear) \in Nat /\ Cardinality(Libres) \in Nat
           /\ sem.cpu \in Nat /\ Conectadas \subseteq CPUS
<1>1. Conectadas \subseteq CPUS
  BY ElementOfSeq, LenProperties DEF Conectadas, InvReady, TypeOK
<1>2. PorPostear \subseteq CPUS /\ Libres \subseteq CPUS
  BY <1>1 DEF PorPostear, Libres
<1>3. IsFiniteSet(PorPostear) /\ IsFiniteSet(Libres)
  BY <1>2, FS_Subset, SupuestosDespacho
<1>4. QED
  BY <1>1, <1>3, FS_CardinalityType DEF InvReady, TypeOK

\* A handler goes on: it is the only one that begins or stops owing a token.
LEMMA PorPostearCon ==
    ASSUME InvReady, NEW c \in CPUS, NEW r, manejador' = [manejador EXCEPT ![c] = r]
    PROVE  /\ r.paso \in POSTERGA => PorPostear' = PorPostear \cup {c}
           /\ r.paso \notin POSTERGA => PorPostear' = PorPostear \ {c}
           /\ c \in PorPostear <=> manejador[c].paso \in POSTERGA
<1>1. \A x \in CPUS : manejador'[x] = IF x = c THEN r ELSE manejador[x]
  BY DEF InvReady, TypeOK
<1>2. QED
  BY <1>1 DEF PorPostear, POSTERGA

\* A CPU that is given a process, or loses it, is the only one to change.
LEMMA LibresCon ==
    ASSUME InvReady, UNCHANGED exec_lista
    PROVE  /\ Quedan => Libres' = Libres
           /\ \A d \in Conectadas : Queda(d, Nadie) => Libres' = Libres \cup {d}
           /\ \A d \in Conectadas : \A p \in PIDS : Queda(d, p) => Libres' = Libres \ {d}
<1>1. Conectadas' = Conectadas /\ Conectadas \subseteq CPUS /\ \A p \in PIDS : p # Nadie
  BY Finitos, SupuestosDespacho DEF Conectadas
<1>2. Quedan => Libres' = Libres
  BY <1>1 DEF Libres, Quedan
<1>3. ASSUME NEW d \in Conectadas, Queda(d, Nadie) PROVE Libres' = Libres \cup {d}
  BY <1>1, <1>3 DEF Libres, Queda
<1>4. ASSUME NEW d \in Conectadas, NEW p \in PIDS, Queda(d, p) PROVE Libres' = Libres \ {d}
  BY <1>1, <1>4 DEF Libres, Queda
<1>5. QED
  BY <1>2, <1>3, <1>4

\* The count does not change when nothing it counts does.
LEMMA CuentaIgual ==
    ASSUME Cuenta, sem'.cpu = sem.cpu, PlanConToken' <=> PlanConToken,
           PorPostear' = PorPostear, Libres' = Libres
    PROVE  Cuenta'
  BY DEF Cuenta

\* A handler takes the process out of a CPU: a free CPU, a token owed.
LEMMA CuentaLibera ==
    ASSUME InvReady, Cuenta, NEW c \in CPUS, NEW r, manejador' = [manejador EXCEPT ![c] = r],
           manejador[c].paso \notin POSTERGA, r.paso \in POSTERGA,
           NEW d \in Conectadas, cpu[d].pcb # Nadie, Queda(d, Nadie),
           UNCHANGED <<exec_lista, planif>>, sem'.cpu = sem.cpu
    PROVE  Cuenta'
<1>1. PorPostear' = PorPostear \cup {c} /\ c \notin PorPostear
  BY PorPostearCon
<1>2. Libres' = Libres \cup {d} /\ d \notin Libres
  BY LibresCon DEF Libres
<1>3. /\ Cardinality(PorPostear') = Cardinality(PorPostear) + 1
      /\ Cardinality(Libres') = Cardinality(Libres) + 1
  BY <1>1, <1>2, Finitos, FS_AddElement
<1>4. QED
  BY <1>3, Finitos DEF Cuenta, PlanConToken

\* A handler gives the token it owed.
LEMMA CuentaPostea ==
    ASSUME InvReady, Cuenta, NEW c \in CPUS, manejador' = [manejador EXCEPT ![c] = Ocioso],
           manejador[c].paso \in POSTERGA, UNCHANGED <<exec_lista, planif>>,
           sem'.cpu = sem.cpu + 1, Quedan
    PROVE  Cuenta'
<1>r. Ocioso.paso \notin POSTERGA
  BY DEF POSTERGA, Ocioso
<1>1. PorPostear' = PorPostear \ {c} /\ c \in PorPostear
  BY <1>r, PorPostearCon
<1>2. Cardinality(PorPostear') = Cardinality(PorPostear) - 1
  BY <1>1, Finitos, FS_RemoveElement
<1>3. Cardinality(Libres') = Cardinality(Libres) /\ (PlanConToken' <=> PlanConToken)
  BY LibresCon DEF PlanConToken
<1>4. sem.cpu \in Nat /\ Cardinality(PorPostear) \in Nat
  BY Finitos
<1>5. CASE PlanConToken
  <2>1. sem.cpu + 1 + Cardinality(PorPostear) = Cardinality(Libres)
    BY <1>5 DEF Cuenta
  <2>2. sem'.cpu + 1 + Cardinality(PorPostear') = Cardinality(Libres')
    BY <1>2, <1>3, <1>4, <2>1
  <2>3. QED
    BY <1>3, <1>5, <2>2 DEF Cuenta
<1>6. CASE ~PlanConToken
  <2>1. sem.cpu + 0 + Cardinality(PorPostear) = Cardinality(Libres)
    BY <1>6 DEF Cuenta
  <2>2. sem'.cpu + 0 + Cardinality(PorPostear') = Cardinality(Libres')
    BY <1>2, <1>3, <1>4, <2>1
  <2>3. QED
    BY <1>3, <1>6, <2>2 DEF Cuenta
<1>7. QED
  BY <1>5, <1>6

\* A CPU connects: it is free, and it brings its token.
LEMMA CuentaConecta ==
    ASSUME InvLugar, Cuenta, NEW c \in CPUS, ConectarCpu(c), compactando = FALSE
    PROVE  Cuenta' /\ Quedan
<1> USE DEF InvLugar
<1>1. /\ c \notin Conectadas /\ exec_lista' = Append(exec_lista, c)
      /\ cpu' = [cpu EXCEPT ![c] = CpuNueva]
      /\ UNCHANGED <<manejador, planif>>
  BY DEF ConectarCpu
<1>2. sem'.cpu = sem.cpu + 1
  BY DEF ConectarCpu, InvReady, TypeOK
<1>3. cpu[c].pcb = Nadie /\ CpuNueva.pcb = Nadie
  BY <1>1 DEF Sitios, Enchufadas, CpuNueva
<1>4. Quedan
  BY <1>1, <1>3, QuedaExcepto
<1>6. Conectadas' = Conectadas \cup {c}
  <2>1. /\ Len(exec_lista) \in Nat /\ DOMAIN exec_lista = 1..Len(exec_lista)
        /\ DOMAIN exec_lista' = 1..(Len(exec_lista) + 1)
        /\ \A i \in 1..Len(exec_lista) : exec_lista'[i] = exec_lista[i]
        /\ exec_lista'[Len(exec_lista) + 1] = c
    BY <1>1, LenProperties, AppendProperties DEF InvReady, TypeOK
  <2>2. QED
    BY <2>1 DEF Conectadas
<1>7. Libres' = Libres \cup {c} /\ c \notin Libres
  BY <1>1, <1>3, <1>4, <1>6, Finitos DEF Libres, Quedan
<1>8. Cardinality(Libres') = Cardinality(Libres) + 1
  BY <1>7, Finitos, FS_AddElement
<1>9. PorPostear' = PorPostear /\ (PlanConToken' <=> PlanConToken)
  BY <1>1 DEF PorPostear, PlanConToken
<1>10. Cuenta'
  <2>1. sem.cpu \in Nat /\ Cardinality(PorPostear) \in Nat
    BY Finitos
  <2>2. CASE PlanConToken
    <3>1. sem.cpu + 1 + Cardinality(PorPostear) = Cardinality(Libres)
      BY <2>2 DEF Cuenta
    <3>2. sem'.cpu + 1 + Cardinality(PorPostear') = Cardinality(Libres')
      BY <1>2, <1>8, <1>9, <2>1, <3>1
    <3>3. QED
      BY <1>9, <2>2, <3>2 DEF Cuenta
  <2>3. CASE ~PlanConToken
    <3>1. sem.cpu + 0 + Cardinality(PorPostear) = Cardinality(Libres)
      BY <2>3 DEF Cuenta
    <3>2. sem'.cpu + 0 + Cardinality(PorPostear') = Cardinality(Libres')
      BY <1>2, <1>8, <1>9, <2>1, <3>1
    <3>3. QED
      BY <1>9, <2>3, <3>2 DEF Cuenta
  <2>4. QED
    BY <2>2, <2>3
<1>11. QED
  BY <1>4, <1>10

\* The planner gives the CPU whose token it has.
LEMMA CuentaDespacha ==
    ASSUME InvReady, Cuenta, PlanConToken, ~PlanConToken', NEW d \in Conectadas, NEW p \in PIDS,
           cpu[d].pcb = Nadie, Queda(d, p), UNCHANGED <<exec_lista, manejador>>,
           sem'.cpu = sem.cpu
    PROVE  Cuenta'
<1>1. Libres' = Libres \ {d} /\ d \in Libres
  BY LibresCon DEF Libres
<1>2. Cardinality(Libres') = Cardinality(Libres) - 1
  BY <1>1, Finitos, FS_RemoveElement
<1>3. PorPostear' = PorPostear
  BY DEF PorPostear
<1>4. sem.cpu \in Nat /\ Cardinality(PorPostear) \in Nat /\ Cardinality(Libres) \in Nat
  BY Finitos
<1>5. sem.cpu + 1 + Cardinality(PorPostear) = Cardinality(Libres)
  BY DEF Cuenta
<1>6. sem'.cpu + 0 + Cardinality(PorPostear') = Cardinality(Libres')
  BY <1>2, <1>3, <1>4, <1>5
<1>7. QED
  BY <1>6 DEF Cuenta

\* The planner with a token finds a free CPU.
LEMMA HayLibre ==
    ASSUME InvReady, Cuenta, PlanConToken
    PROVE  \E d \in Conectadas : obtener_cpu_libre = d /\ cpu[d].pcb = Nadie
<1>1. Libres # {}
  <2>1. sem.cpu \in Nat /\ Cardinality(PorPostear) \in Nat
    BY Finitos
  <2>2. sem.cpu + 1 + Cardinality(PorPostear) = Cardinality(Libres)
    BY DEF Cuenta
  <2>3. Cardinality(Libres) # 0
    BY <2>1, <2>2
  <2>4. QED
    BY <2>3, FS_EmptySet
<1>2. QED
  BY <1>1, EncuentraLibre, PrimeraConConectada DEF obtener_cpu_libre

-----------------------------------------------------------------------------
(* The handlers.                                                             *)

\* A handler goes on and no CPU is freed.
LEMMA SigueFifo ==
    ASSUME InvFifo, NEW c \in CPUS, NEW r, manejador' = [manejador EXCEPT ![c] = r],
           manejador[c].paso \in POSTERGA <=> r.paso \in POSTERGA,
           UNCHANGED <<exec_lista, corre, planif, temporizador, compactando, caida>>,
           sem'.cpu = sem.cpu, Quedan,
           \A x \in CPUS \ {c} : a_cpu'[x] = a_cpu[x] /\ a_plan'[x] = a_plan[x],
           Portador(c)', ManoFifo(c)'
    PROVE  Fifo'
<1> USE DEF InvFifo, InvLugar
<1>1. ASSUME NEW x \in CPUS \ {c} PROVE Portador(x)' /\ ManoFifo(x)'
  <2>1. Ajeno(x)
    BY DEF Ajeno, Quedan, InvReady, TypeOK
  <2>2. QED
    BY <2>1, AjenoFifo DEF Fifo
<1>2. PorPostear' = PorPostear /\ Libres' = Libres
  <2>1. PorPostear' = PorPostear
    <3>1. /\ r.paso \in POSTERGA => PorPostear' = PorPostear \cup {c}
          /\ r.paso \notin POSTERGA => PorPostear' = PorPostear \ {c}
          /\ c \in PorPostear <=> manejador[c].paso \in POSTERGA
      BY PorPostearCon
    <3>2. QED
      BY <3>1
  <2>2. Libres' = Libres
    BY LibresCon
  <2>3. QED
    BY <2>1, <2>2
<1>3. Cuenta'
  BY <1>2, CuentaIgual DEF Fifo, PlanConToken
<1>4. QED
  BY <1>1, <1>3 DEF Fifo

\* A handler takes the process out of its own CPU: a free CPU, a token owed.
LEMMA LiberaFifo ==
    ASSUME InvFifo, NEW c \in CPUS, NEW r, manejador' = [manejador EXCEPT ![c] = r],
           manejador[c].paso \notin POSTERGA, r.paso \in {"fin_memoria", "a_block"},
           ManoFifo(c)',
           UNCHANGED <<exec_lista, corre, planif, temporizador, sem, compactando, caida>>,
           cpu[c].pcb # Nadie, Queda(c, Nadie),
           Atiende(c) \/ a_plan[c] # <<>>,
           \A x \in CPUS \ {c} : a_cpu'[x] = a_cpu[x] /\ a_plan'[x] = a_plan[x],
           a_plan'[c] = <<>>,
           NEW s \in Seq(MsjACpu), a_cpu'[c] = s,
           Arranques(s) = Arranques(a_cpu[c]), Buzon(s, cpu[c].pcb)
    PROVE  Fifo'
<1> USE DEF InvFifo, InvLugar
<1>1. ASSUME NEW x \in CPUS \ {c} PROVE Portador(x)' /\ ManoFifo(x)'
  <2>1. Ajeno(x)
    BY DEF Ajeno, Queda, InvReady, TypeOK
  <2>2. QED
    BY <2>1, AjenoFifo DEF Fifo
<1>2. Portador(c) /\ c \in Conectadas
  BY DEF Fifo, Sitios, Enchufadas
<1>3. Arranques(a_cpu[c]) = {} /\ corre[c] = Nadie
  BY <1>2 DEF Portador
<1>4. manejador'[c] = r /\ cpu'[c].pcb = Nadie
  BY DEF Queda, InvReady, TypeOK
<1>5. Buzon(s, Nadie)
  BY <1>3 DEF Buzon
<1>6. Portador(c)'
  BY <1>3, <1>4, <1>5 DEF Portador, Atiende, ACTIVOS
<1>7. c \in Conectadas /\ r.paso \in POSTERGA
  BY <1>2 DEF POSTERGA
<1>10. Cuenta'
  BY <1>7, CuentaLibera DEF Fifo
<1>11. QED
  BY <1>1, <1>6, <1>10 DEF Fifo

\* A handler gives the token it owed.
LEMMA PosteaFifo ==
    ASSUME InvFifo, NEW c \in CPUS, manejador' = [manejador EXCEPT ![c] = Ocioso],
           manejador[c].paso \in POSTERGA,
           UNCHANGED <<exec_lista, corre, planif, temporizador, compactando, caida>>,
           sem'.cpu = sem.cpu + 1, Quedan, UNCHANGED a_plan,
           \A x \in CPUS \ {c} : a_cpu'[x] = a_cpu[x],
           NEW s \in Seq(MsjACpu), a_cpu'[c] = s,
           Arranques(s) = Arranques(a_cpu[c]), Buzon(s, cpu[c].pcb)
    PROVE  Fifo'
<1> USE DEF InvFifo, InvLugar
<1>1. ASSUME NEW x \in CPUS \ {c} PROVE Portador(x)' /\ ManoFifo(x)'
  <2>1. Ajeno(x)
    BY DEF Ajeno, Quedan, InvReady, TypeOK
  <2>2. QED
    BY <2>1, AjenoFifo DEF Fifo
<1>2. Portador(c)
  BY DEF Fifo
<1>3. manejador'[c] = Ocioso /\ cpu'[c].pcb = cpu[c].pcb
  BY DEF Quedan, InvReady, TypeOK
<1>4. Ocioso.paso = "recibir"
  BY DEF Ocioso
<1>5. Portador(c)'
  BY <1>2, <1>3, <1>4 DEF Portador, Atiende, ACTIVOS
<1>6. ManoFifo(c)'
  BY <1>3, <1>4 DEF ManoFifo
<1>10. Cuenta'
  BY CuentaPostea DEF Fifo
<1>11. QED
  BY <1>1, <1>5, <1>6, <1>10 DEF Fifo

\* What a CPU has when its handler finds a message of it, or serves one.
LEMMA PidDeMensaje ==
    ASSUME InvFifo, NEW c \in CPUS, a_plan[c] # <<>>
    PROVE  /\ Head(a_plan[c]).pid \in PIDS /\ cpu[c].pcb = Head(a_plan[c]).pid
           /\ encontrar_cpu_con_pid(Head(a_plan[c]).pid) = c
           /\ Head(a_plan[c]).tipo \in SYSCALLS /\ Tail(a_plan[c]) = <<>>
           /\ Arranques(a_cpu[c]) = {} /\ corre[c] = Nadie
<1>1. Portador(c)
  BY DEF InvFifo, Fifo
<1>2. Head(a_plan[c]) \in MsjAPlan
  BY HeadTailProperties DEF InvFifo, InvLugar, InvReady, TypeOK
<1>3. Head(a_plan[c]).pid \in PIDS
  BY <1>2 DEF MsjAPlan
<1>4. cpu[c].pcb = Head(a_plan[c]).pid
  BY <1>1 DEF Portador
<1>5. encontrar_cpu_con_pid(Head(a_plan[c]).pid) = c
  BY <1>3, <1>4, EncuentraLaSuya DEF InvFifo
<1>6. /\ Head(a_plan[c]).tipo \in SYSCALLS /\ Tail(a_plan[c]) = <<>>
      /\ Arranques(a_cpu[c]) = {} /\ corre[c] = Nadie
  BY <1>1 DEF Portador
<1>7. QED
  BY <1>3, <1>4, <1>5, <1>6

\* What a CPU has while its handler serves a syscall.
LEMMA PidAtendido ==
    ASSUME InvFifo, NEW c \in CPUS, Atiende(c)
    PROVE  /\ manejador[c].pid \in PIDS /\ cpu[c].pcb = manejador[c].pid
           /\ encontrar_cpu_con_pid(manejador[c].pid) = c
           /\ a_plan[c] = <<>> /\ Arranques(a_cpu[c]) = {} /\ corre[c] = Nadie
<1>1. Portador(c)
  BY DEF InvFifo, Fifo
<1>2. manejador[c].pid \in PIDS
  BY DEF InvFifo, InvLugar, InvReady, EnLaMano, ConLoSuyo, Atiende, ACTIVOS
<1>3. encontrar_cpu_con_pid(manejador[c].pid) = c
  BY <1>1, <1>2, EncuentraLaSuya DEF InvFifo, Portador
<1>4. QED
  BY <1>1, <1>2, <1>3 DEF Portador

\* The handler takes a message and begins to serve it.
LEMMA RecibeFifo ==
    ASSUME InvFifo, NEW c \in CPUS, NEW tipos, NEW r, a_plan[c] # <<>>, Recibir(c, tipos, r),
           r.paso \in ACTIVOS, r.pid = Head(a_plan[c]).pid, r.paso # "bloquear",
           r.paso \in {"leer_pcb", "reanudar", "sacar_pcb"} => r.cpu = c,
           UNCHANGED <<exec_lista, cpu, a_cpu, corre, planif, temporizador, compactando, caida>>,
           sem'.cpu = sem.cpu
    PROVE  Fifo'
<1> USE DEF InvFifo, InvLugar
<1>1. /\ manejador[c] = Ocioso /\ manejador' = [manejador EXCEPT ![c] = r]
      /\ a_plan' = [a_plan EXCEPT ![c] = Tail(@)]
  BY DEF Recibir
<1>2. manejador'[c] = r /\ a_plan'[c] = Tail(a_plan[c])
  BY <1>1 DEF InvReady, TypeOK
<1>3. Portador(c)'
  BY <1>2, PidDeMensaje DEF Fifo, Portador
<1>4. ManoFifo(c)'
  BY <1>2 DEF ManoFifo, ACTIVOS
<1>5. \A x \in CPUS \ {c} : a_cpu'[x] = a_cpu[x] /\ a_plan'[x] = a_plan[x]
  BY <1>1 DEF InvReady, TypeOK
<1>6. manejador[c].paso \in POSTERGA <=> r.paso \in POSTERGA
  BY <1>1 DEF Ocioso, POSTERGA, ACTIVOS
<1>7. Quedan
  BY DEF Quedan
<1>8. QED
  BY <1>1, <1>3, <1>4, <1>5, <1>6, <1>7, SigueFifo

\* No interruption comes: only syscalls are received.
LEMMA RecepcionFifo == ASSUME InvFifo, NEW c \in CPUS, Recepcion(c) PROVE Fifo'
<1> USE DEF InvFifo, InvLugar
<1>1. ASSUME NEW tipos, NEW r, Recibir(c, tipos, r)
      PROVE  a_plan[c] # <<>> /\ Head(a_plan[c]).tipo \in tipos
                /\ Head(a_plan[c]).tipo \in SYSCALLS
  BY <1>1, PidDeMensaje DEF Recibir
<1>2. ~FINALIZAR_POR_QUANTUM(c) /\ ~COMPACTACION(c)
  BY <1>1, SupuestosDespacho DEF FINALIZAR_POR_QUANTUM, COMPACTACION, SacarDeCpu
<1>3. CASE EXIT(c)
  <2> DEFINE tipos == {"EXIT", "SEG_FAULT"}
  <2>1. a_plan[c] # <<>> /\ SacarDeCpu(c, tipos, {}, "fin_memoria")
    BY <1>3 DEF EXIT
  <2>2. PICK p \in PIDS : /\ Head(a_plan[c]).pid = p /\ encontrar_cpu_con_pid(p) = c
                          /\ cpu[c].pcb = p /\ Tail(a_plan[c]) = <<>>
    BY <2>1, PidDeMensaje
  <2> DEFINE r == [Ocioso EXCEPT !.paso = "fin_memoria", !.pid = p, !.cpu = c, !.pcb = p]
             v == [pcb |-> Nadie, control |-> cpu[c].control, ack |-> cpu[c].ack]
  <2>3. c # Nadie /\ p # Nadie
    BY SupuestosDespacho
  <2>4. Recibir(c, tipos, r)
    BY <2>1, <2>2, <2>3 DEF SacarDeCpu
  <2>5. /\ cpu' = [cpu EXCEPT ![c] = v]
        /\ UNCHANGED <<exec_lista, a_cpu, corre, planif, temporizador, sem, compactando, caida>>
    BY <2>1, <2>2, <2>3 DEF SacarDeCpu, memoria
  <2>6. v.pcb = Nadie
    OBVIOUS
  <2>7. r.paso = "fin_memoria" /\ r.cpu = c
    BY DEF Ocioso
  <2> HIDE DEF r, v, tipos
  <2>8. Queda(c, Nadie)
    BY <2>5, <2>6, QuedaExcepto
  <2>9. /\ manejador[c] = Ocioso /\ manejador' = [manejador EXCEPT ![c] = r]
        /\ a_plan' = [a_plan EXCEPT ![c] = Tail(@)]
    BY <2>4 DEF Recibir
  <2>10. /\ a_plan'[c] = <<>> /\ manejador'[c] = r
         /\ \A x \in CPUS \ {c} : a_cpu'[x] = a_cpu[x] /\ a_plan'[x] = a_plan[x]
    BY <2>2, <2>5, <2>9 DEF InvReady, TypeOK
  <2>11. ManoFifo(c)'
    BY <2>7, <2>10 DEF ManoFifo
  <2>12. manejador[c].paso \notin POSTERGA
    BY <2>9 DEF Ocioso, POSTERGA
  <2>13. a_cpu[c] \in Seq(MsjACpu) /\ a_cpu'[c] = a_cpu[c] /\ Buzon(a_cpu[c], cpu[c].pcb)
    BY <2>5 DEF InvReady, TypeOK, Fifo, Portador
  <2>14. QED
    BY <2>1, <2>2, <2>3, <2>5, <2>7, <2>8, <2>9, <2>10, <2>11, <2>12, <2>13, LiberaFifo
<1>4. ASSUME NEW tipo, NEW paso \in {"leer_pcb", "pedir"}, BuscarCpu(c, tipo, paso) PROVE Fifo'
  <2>1. a_plan[c] # <<>>
    BY <1>4 DEF BuscarCpu
  <2>2. PICK p \in PIDS : Head(a_plan[c]).pid = p /\ encontrar_cpu_con_pid(p) = c
    BY <2>1, PidDeMensaje
  <2> DEFINE r == [Ocioso EXCEPT !.paso = paso, !.pid = p, !.cpu = c]
  <2>3. c # Nadie
    BY SupuestosDespacho
  <2>4. /\ Recibir(c, {tipo}, r)
        /\ UNCHANGED <<exec_lista, cpu, a_cpu, corre, planif, temporizador, compactando, caida>>
        /\ UNCHANGED sem
    BY <1>4, <2>2, <2>3 DEF BuscarCpu, memoria
  <2>5. r.paso = paso /\ r.pid = p /\ r.cpu = c
    BY DEF Ocioso
  <2> HIDE DEF r
  <2>6. QED
    BY <2>1, <2>2, <2>4, <2>5, RecibeFifo DEF ACTIVOS
<1>5. CASE MEM_FREE(c) \/ INIT_PROC(c, PIDS)
  <2> DEFINE r == [Ocioso EXCEPT !.paso = "buscar", !.pid = Head(a_plan[c]).pid]
  <2>1. /\ a_plan[c] # <<>> /\ \E tipos : Recibir(c, tipos, r)
        /\ UNCHANGED <<exec_lista, cpu, a_cpu, corre, planif, temporizador, compactando, caida>>
    BY <1>5 DEF MEM_FREE, INIT_PROC, memoria
  <2>2. sem'.cpu = sem.cpu
    BY <1>5 DEF MEM_FREE, INIT_PROC, InvReady, TypeOK
  <2>3. r.paso = "buscar" /\ r.pid = Head(a_plan[c]).pid
    BY DEF Ocioso
  <2> HIDE DEF r
  <2>4. QED
    BY <2>1, <2>2, <2>3, RecibeFifo DEF ACTIVOS
<1>6. QED
  BY <1>2, <1>3, <1>4, <1>5 DEF Recepcion, SLEEP, MEM_ALLOC

\* cpuSleep->pcb is still the process that asked to sleep.
LEMMA LeerPcbFifo == ASSUME InvFifo, NEW c \in CPUS, LeerPcb(c) PROVE Fifo'
<1> USE DEF InvFifo, InvLugar
<1>1. Paso(c, "leer_pcb") /\ manejador[c].cpu = c
  BY DEF LeerPcb, Paso, Fifo, ManoFifo
<1>2. Atiende(c)
  BY <1>1 DEF Paso, Atiende, ACTIVOS
<1>3. PICK p \in PIDS : manejador[c].pid = p /\ cpu[c].pcb = p
  BY <1>2, PidAtendido
<1> DEFINE r == [manejador[c] EXCEPT !.paso = "bloquear", !.pcb = p]
<1>4. /\ manejador' = [manejador EXCEPT ![c] = r]
      /\ UNCHANGED <<exec_lista, cpu, a_cpu, a_plan, corre, planif, temporizador,
                     compactando, caida>>
      /\ UNCHANGED sem
  BY <1>1, <1>3, SupuestosDespacho DEF LeerPcb, Seguir, memoria
<1>5. r.paso = "bloquear" /\ r.pid = p /\ r.pcb = p
  BY <1>3 DEF InvReady, TypeOK, RegManejador
<1> HIDE DEF r
<1>6. manejador'[c] = r
  BY <1>4 DEF InvReady, TypeOK
<1>7. Portador(c)'
  BY <1>2, <1>3, <1>4, <1>5, <1>6 DEF Fifo, Portador, Atiende
<1>8. ManoFifo(c)'
  BY <1>5, <1>6 DEF ManoFifo, ACTIVOS
<1>9. manejador[c].paso \in POSTERGA <=> r.paso \in POSTERGA
  BY <1>1, <1>5 DEF Paso, POSTERGA
<1>10. QED
  BY <1>4, <1>7, <1>8, <1>9, SigueFifo DEF Quedan

\* bloquear_proceso finds its own CPU and frees it.
LEMMA BloquearFifo == ASSUME InvFifo, NEW c \in CPUS, bloquear_proceso(c) PROVE Fifo'
<1> USE DEF InvFifo, InvLugar
<1>1. manejador[c].paso = "bloquear" /\ manejador[c].pcb = manejador[c].pid
  BY DEF bloquear_proceso, Paso, Fifo, ManoFifo
<1>2. Atiende(c)
  BY <1>1 DEF Atiende, ACTIVOS
<1>3. PICK p \in PIDS : /\ manejador[c].pcb = p /\ cpu[c].pcb = p
                        /\ encontrar_cpu_con_pid(p) = c
  BY <1>1, <1>2, PidAtendido
<1>n. c # Nadie /\ p # Nadie
  BY SupuestosDespacho
<1> DEFINE r == [manejador[c] EXCEPT !.paso = "a_block"]
           v == [cpu[c] EXCEPT !.pcb = Nadie, !.control = TRUE]
           s == IF cpu[c].control THEN a_cpu[c] ELSE Append(a_cpu[c], Msj("PROCESO_BLOQUEADO", p))
<1>4. /\ manejador' = [manejador EXCEPT ![c] = r] /\ cpu' = [cpu EXCEPT ![c] = v]
      /\ a_cpu' = ConControl(c, "PROCESO_BLOQUEADO", p)
      /\ UNCHANGED <<exec_lista, a_plan, corre, planif, temporizador, sem,
                     compactando, caida>>
  BY <1>3, <1>n DEF bloquear_proceso, Seguir, memoria
<1>5. a_cpu'[c] = s /\ \A x \in CPUS \ {c} : a_cpu'[x] = a_cpu[x]
  BY <1>4 DEF ConControl, InvReady, TypeOK
<1>6. Portador(c) /\ a_cpu[c] \in Seq(MsjACpu)
  BY DEF Fifo, InvReady, TypeOK
<1>7. s \in Seq(MsjACpu) /\ Arranques(s) = Arranques(a_cpu[c]) /\ Buzon(s, p)
  <2>1. CASE cpu[c].control
    BY <1>3, <1>6, <2>1 DEF Portador
  <2>2. CASE ~cpu[c].control
    <3> DEFINE m == Msj("PROCESO_BLOQUEADO", p)
    <3>1. m \in MsjACpu /\ m.tipo \in {"PROCESO_BLOQUEADO", "FIN_PROCESO"}
      BY DEF Msj, MsjACpu, ORDENES
    <3>2. s = Append(a_cpu[c], m)
      BY <2>2
    <3>3. Buzon(a_cpu[c], p)
      BY <1>3, <1>6 DEF Portador
    <3>4. Append(a_cpu[c], m) \in Seq(MsjACpu)
      BY <1>6, <3>1, AppendProperties
    <3> HIDE DEF m, s
    <3>5. QED
      BY <1>6, <3>1, <3>2, <3>3, <3>4, BuzonAviso
  <2>3. QED
    BY <2>1, <2>2
<1>8. v.pcb = Nadie
  BY DEF InvReady, TypeOK, RegCpu
<1>9. r.paso = "a_block"
  BY DEF InvReady, TypeOK, RegManejador
<1> HIDE DEF r, v, s
<1>10. Queda(c, Nadie)
  BY <1>4, <1>8, QuedaExcepto
<1>11. manejador'[c] = r
  BY <1>4 DEF InvReady, TypeOK
<1>12. ManoFifo(c)'
  BY <1>9, <1>11 DEF ManoFifo
<1>13. a_plan'[c] = <<>> /\ \A x \in CPUS \ {c} : a_plan'[x] = a_plan[x]
  BY <1>2, <1>4, PidAtendido
<1>14. manejador[c].paso \notin POSTERGA
  BY <1>1 DEF POSTERGA
<1>15. s \in Seq(MsjACpu) /\ Arranques(s) = Arranques(a_cpu[c]) /\ Buzon(s, cpu[c].pcb)
  BY <1>3, <1>7
<1>16. cpu[c].pcb # Nadie
  BY <1>3, <1>n
<1>17. QED
  BY <1>2, <1>4, <1>5, <1>9, <1>10, <1>12, <1>13, <1>14, <1>15, <1>16, LiberaFifo

\* The token that bloquear_proceso owed.
LEMMA PasarABlockFifo == ASSUME InvFifo, NEW c \in CPUS, PasarABlock(c) PROVE Fifo'
<1> USE DEF InvFifo, InvLugar
<1>1. manejador[c].paso = "a_block"
  BY DEF PasarABlock, Paso, Fifo, ManoFifo, ACTIVOS
<1>2. /\ manejador' = [manejador EXCEPT ![c] = Ocioso]
      /\ UNCHANGED <<exec_lista, cpu, a_cpu, a_plan, corre, planif, temporizador,
                     compactando, caida>>
  BY DEF PasarABlock, Seguir, memoria
<1>3. sem'.cpu = sem.cpu + 1
  BY DEF PasarABlock, InvReady, TypeOK
<1>4. a_cpu[c] \in Seq(MsjACpu) /\ Buzon(a_cpu[c], cpu[c].pcb)
  BY DEF InvReady, TypeOK, Fifo, Portador
<1>5. QED
  BY <1>1, <1>2, <1>3, <1>4, PosteaFifo DEF POSTERGA, Quedan

\* The second search finds the process where it was.
LEMMA BuscarFifo == ASSUME InvFifo, NEW c \in CPUS, BuscarDeNuevo(c) PROVE Fifo'
<1> USE DEF InvFifo, InvLugar
<1>1. manejador[c].paso \in {"buscar", "buscar_fin"}
  BY DEF BuscarDeNuevo, Paso
<1>2. Atiende(c)
  BY <1>1 DEF Atiende, ACTIVOS
<1>3. encontrar_cpu_con_pid(manejador[c].pid) = c /\ c # Nadie
  BY <1>2, PidAtendido, SupuestosDespacho
<1>4. PICK paso \in {"reanudar", "sacar_pcb"} :
          manejador' = [manejador EXCEPT ![c] = [manejador[c] EXCEPT !.paso = paso, !.cpu = c]]
  BY <1>3 DEF BuscarDeNuevo, Seguir
<1> DEFINE r == [manejador[c] EXCEPT !.paso = paso, !.cpu = c]
<1>5. UNCHANGED <<exec_lista, cpu, a_cpu, a_plan, corre, planif, temporizador,
                  compactando, caida>> /\ UNCHANGED sem
  BY DEF BuscarDeNuevo, memoria
<1>6. r.paso = paso /\ r.cpu = c /\ r.pid = manejador[c].pid
  BY DEF InvReady, TypeOK, RegManejador
<1>7. manejador' = [manejador EXCEPT ![c] = r]
  BY <1>4
<1> HIDE DEF r
<1>8. manejador'[c] = r
  BY <1>7 DEF InvReady, TypeOK
<1>9. Portador(c)'
  BY <1>2, <1>5, <1>6, <1>8 DEF Fifo, Portador, Atiende
<1>10. ManoFifo(c)'
  BY <1>6, <1>8 DEF ManoFifo, ACTIVOS
<1>11. manejador[c].paso \in POSTERGA <=> r.paso \in POSTERGA
  BY <1>1, <1>6 DEF POSTERGA
<1>12. QED
  BY <1>5, <1>7, <1>9, <1>10, <1>11, SigueFifo DEF Quedan

\* The process goes on on the CPU that made the syscall.
LEMMA ReanudarFifo == ASSUME InvFifo, NEW c \in CPUS, reanudar_proceso_en_cpu(c) PROVE Fifo'
<1> USE DEF InvFifo, InvLugar
<1>1. manejador[c].paso = "reanudar" /\ manejador[c].cpu = c
  BY DEF reanudar_proceso_en_cpu, Paso, Fifo, ManoFifo
<1>2. Atiende(c)
  BY <1>1 DEF Atiende, ACTIVOS
<1>3. PICK p \in PIDS : cpu[c].pcb = p
  BY <1>2, PidAtendido
<1>n. p # Nadie
  BY SupuestosDespacho
<1>s. a_plan[c] = <<>> /\ Arranques(a_cpu[c]) = {} /\ corre[c] = Nadie
  BY <1>2, PidAtendido
<1>4. /\ manejador' = [manejador EXCEPT ![c] = Ocioso]
      /\ a_cpu' = ConControl(c, "EJECUTAR_PROCESO", p)
      /\ UNCHANGED <<exec_lista, cpu, a_plan, corre, planif, temporizador,
                     compactando, caida>>
      /\ UNCHANGED sem
  BY <1>1, <1>3, <1>n DEF reanudar_proceso_en_cpu, Seguir, memoria
<1>5. Ocioso.paso = "recibir" /\ manejador'[c] = Ocioso
  BY <1>4 DEF Ocioso, InvReady, TypeOK
<1>6. Buzon(a_cpu'[c], p) /\ \A x \in CPUS \ {c} : a_cpu'[x] = a_cpu[x]
  <2>1. Buzon(a_cpu[c], p) /\ a_cpu[c] \in Seq(MsjACpu)
    BY <1>3 DEF Fifo, Portador, InvReady, TypeOK
  <2>2. CASE cpu[c].control
    BY <1>4, <2>1, <2>2 DEF ConControl
  <2>3. CASE ~cpu[c].control
    <3> DEFINE m == Msj("EJECUTAR_PROCESO", p)
    <3>1. m \in MsjACpu /\ m.tipo = "EJECUTAR_PROCESO" /\ m.pid = p
      BY DEF Msj, MsjACpu, ORDENES
    <3>2. a_cpu'[c] = Append(a_cpu[c], m) /\ \A x \in CPUS \ {c} : a_cpu'[x] = a_cpu[x]
      BY <1>4, <2>3 DEF ConControl, InvReady, TypeOK
    <3> HIDE DEF m
    <3>3. Buzon(Append(a_cpu[c], m), m.pid)
      BY <1>s, <2>1, <3>1, BuzonOrden
    <3>4. QED
      BY <3>1, <3>2, <3>3
  <2>4. QED
    BY <2>2, <2>3
<1>7. Portador(c)'
  BY <1>3, <1>4, <1>5, <1>6, <1>s DEF Portador, Atiende, ACTIVOS
<1>8. ManoFifo(c)'
  BY <1>5 DEF ManoFifo
<1>9. manejador[c].paso \in POSTERGA <=> Ocioso.paso \in POSTERGA
  BY <1>1, <1>5 DEF POSTERGA
<1>10. QED
  BY <1>4, <1>6, <1>7, <1>8, <1>9, SigueFifo DEF Quedan

\* The process that got no memory is still on its CPU.
LEMMA SacarSinMemoriaFifo == ASSUME InvFifo, NEW c \in CPUS, SacarSinMemoria(c) PROVE Fifo'
<1> USE DEF InvFifo, InvLugar
<1>1. manejador[c].paso = "sacar_pcb" /\ manejador[c].cpu = c
  BY DEF SacarSinMemoria, Paso, Fifo, ManoFifo
<1>2. Atiende(c)
  BY <1>1 DEF Atiende, ACTIVOS
<1>3. PICK p \in PIDS : cpu[c].pcb = p
  BY <1>2, PidAtendido
<1>n. p # Nadie
  BY SupuestosDespacho
<1> DEFINE r == [manejador[c] EXCEPT !.paso = "fin_memoria", !.pcb = p]
           v == [cpu[c] EXCEPT !.pcb = Nadie]
<1>4. /\ manejador' = [manejador EXCEPT ![c] = r] /\ cpu' = [cpu EXCEPT ![c] = v]
      /\ UNCHANGED <<exec_lista, a_cpu, a_plan, corre, planif, temporizador, sem,
                     compactando, caida>>
  BY <1>1, <1>3, <1>n DEF SacarSinMemoria, Seguir, memoria
<1>5. r.paso = "fin_memoria" /\ r.cpu = c /\ v.pcb = Nadie
  BY <1>1 DEF InvReady, TypeOK, RegManejador, RegCpu
<1> HIDE DEF r, v
<1>6. Queda(c, Nadie)
  BY <1>4, <1>5, QuedaExcepto
<1>7. manejador'[c] = r
  BY <1>4 DEF InvReady, TypeOK
<1>8. ManoFifo(c)'
  BY <1>5, <1>7 DEF ManoFifo
<1>9. a_plan'[c] = <<>> /\ \A x \in CPUS \ {c} : a_plan'[x] = a_plan[x] /\ a_cpu'[x] = a_cpu[x]
  BY <1>2, <1>4, PidAtendido
<1>10. manejador[c].paso \notin POSTERGA
  BY <1>1 DEF POSTERGA
<1>11. a_cpu[c] \in Seq(MsjACpu) /\ a_cpu'[c] = a_cpu[c] /\ Buzon(a_cpu[c], cpu[c].pcb)
  BY <1>4 DEF InvReady, TypeOK, Fifo, Portador
<1>12. cpu[c].pcb # Nadie
  BY <1>3, <1>n
<1>13. QED
  BY <1>2, <1>4, <1>5, <1>6, <1>8, <1>9, <1>10, <1>11, <1>12, LiberaFifo

\* Kernel Memory answers at once: there is memory, or there is not.
LEMMA PedirFifo ==
    ASSUME InvFifo, SinDesalojo, NEW c \in CPUS, NEW r \in RESPUESTAS, Pedir(c, r)
    PROVE  Fifo'
<1> USE DEF InvFifo, InvLugar
<1>1. manejador[c].paso = "pedir" /\ r # "COMPACTACION"
  BY DEF Pedir, Paso, Fifo, ManoFifo, ACTIVOS, SinDesalojo
<1>2. Atiende(c)
  BY <1>1 DEF Atiende, ACTIVOS
<1>3. PICK paso \in {"buscar", "buscar_fin"} :
          manejador' = [manejador EXCEPT ![c] = [manejador[c] EXCEPT !.paso = paso]]
  BY <1>1 DEF Pedir, Paso, Seguir
<1> DEFINE n == [manejador[c] EXCEPT !.paso = paso]
<1>4. UNCHANGED <<exec_lista, cpu, a_cpu, a_plan, corre, planif, temporizador,
                  compactando, caida>> /\ UNCHANGED sem
  BY <1>1 DEF Pedir, Paso, memoria
<1>5. n.paso = paso /\ n.pid = manejador[c].pid
  BY DEF InvReady, TypeOK, RegManejador
<1>6. manejador' = [manejador EXCEPT ![c] = n]
  BY <1>3
<1> HIDE DEF n
<1>7. manejador'[c] = n
  BY <1>6 DEF InvReady, TypeOK
<1>8. Portador(c)'
  BY <1>2, <1>4, <1>5, <1>7 DEF Fifo, Portador, Atiende
<1>9. ManoFifo(c)'
  BY <1>5, <1>7 DEF ManoFifo, ACTIVOS
<1>10. manejador[c].paso \in POSTERGA <=> n.paso \in POSTERGA
  BY <1>1, <1>5 DEF POSTERGA
<1>11. QED
  BY <1>4, <1>6, <1>8, <1>9, <1>10, SigueFifo DEF Quedan

\* The end of a process: first Kernel Memory, then its CPU and its token.
LEMMA FinMemoriaFifo == ASSUME InvFifo, NEW c \in CPUS, enviar_fin_proceso_memory(c) PROVE Fifo'
<1> USE DEF InvFifo, InvLugar
<1>1. manejador[c].paso = "fin_memoria" /\ manejador[c].cpu = c
  BY DEF enviar_fin_proceso_memory, Paso, Fifo, ManoFifo
<1> DEFINE r == [manejador[c] EXCEPT !.paso = "fin_cpu"]
<1>2. /\ manejador' = [manejador EXCEPT ![c] = r]
      /\ UNCHANGED <<exec_lista, cpu, a_cpu, a_plan, corre, planif, temporizador,
                     compactando, caida>>
      /\ UNCHANGED sem
  BY DEF enviar_fin_proceso_memory, Seguir, memoria
<1>3. r.paso = "fin_cpu" /\ r.cpu = c
  BY <1>1 DEF InvReady, TypeOK, RegManejador
<1> HIDE DEF r
<1>4. manejador'[c] = r
  BY <1>2 DEF InvReady, TypeOK
<1>5. Portador(c)'
  BY <1>1, <1>2, <1>3, <1>4 DEF Fifo, Portador, Atiende, ACTIVOS
<1>6. ManoFifo(c)'
  BY <1>3, <1>4 DEF ManoFifo
<1>7. manejador[c].paso \in POSTERGA <=> r.paso \in POSTERGA
  BY <1>1, <1>3 DEF POSTERGA
<1>8. QED
  BY <1>2, <1>5, <1>6, <1>7, SigueFifo DEF Quedan

\* Then its CPU is told, and the token is given.
LEMMA FinCpuFifo == ASSUME InvFifo, NEW c \in CPUS, enviar_fin_proceso_a_cpu(c) PROVE Fifo'
<1> USE DEF InvFifo, InvLugar
<1>1. manejador[c].paso = "fin_cpu" /\ manejador[c].cpu = c
  BY DEF enviar_fin_proceso_a_cpu, Paso, Fifo, ManoFifo
<1>2. PICK p \in PIDS : manejador[c].pcb = p
  BY <1>1 DEF InvReady, EnLaMano, ConLoSuyo
<1> DEFINE s == IF cpu[c].control THEN a_cpu[c] ELSE Append(a_cpu[c], Msj("FIN_PROCESO", p))
           v == [cpu[c] EXCEPT !.control = TRUE]
<1>4. /\ manejador' = [manejador EXCEPT ![c] = Ocioso] /\ cpu' = [cpu EXCEPT ![c] = v]
      /\ a_cpu' = ConControl(c, "FIN_PROCESO", p)
      /\ UNCHANGED <<exec_lista, a_plan, corre, planif, temporizador,
                     compactando, caida>>
  BY <1>1, <1>2 DEF enviar_fin_proceso_a_cpu, Seguir, memoria
<1>3. sem'.cpu = sem.cpu + 1
  BY DEF enviar_fin_proceso_a_cpu, InvReady, TypeOK
<1>5. a_cpu'[c] = s /\ \A x \in CPUS \ {c} : a_cpu'[x] = a_cpu[x]
  BY <1>4 DEF ConControl, InvReady, TypeOK
<1>6. Buzon(a_cpu[c], cpu[c].pcb) /\ a_cpu[c] \in Seq(MsjACpu)
  BY DEF Fifo, Portador, InvReady, TypeOK
<1>7. s \in Seq(MsjACpu) /\ Arranques(s) = Arranques(a_cpu[c]) /\ Buzon(s, cpu[c].pcb)
  <2>1. CASE cpu[c].control
    BY <1>6, <2>1
  <2>2. CASE ~cpu[c].control
    <3> DEFINE m == Msj("FIN_PROCESO", p)
    <3>1. m \in MsjACpu /\ m.tipo \in {"PROCESO_BLOQUEADO", "FIN_PROCESO"}
      BY DEF Msj, MsjACpu, ORDENES
    <3>2. s = Append(a_cpu[c], m)
      BY <2>2
    <3>4. Append(a_cpu[c], m) \in Seq(MsjACpu)
      BY <1>6, <3>1, AppendProperties
    <3> HIDE DEF m, s
    <3>5. QED
      BY <1>6, <3>1, <3>2, <3>4, BuzonAviso
  <2>3. QED
    BY <2>1, <2>2
<1>8. v.pcb = cpu[c].pcb
  BY DEF InvReady, TypeOK, RegCpu
<1> HIDE DEF s, v
<1>9. Quedan
  BY <1>4, <1>8, QuedaExcepto
<1>10. manejador[c].paso \in POSTERGA
  BY <1>1 DEF POSTERGA
<1>11. QED
  BY <1>3, <1>4, <1>5, <1>7, <1>9, <1>10, PosteaFifo

\* The other steps of a handler belong to preemption.
LEMMA ManejadorFifo == ASSUME InvFifo, SinDesalojo, NEW c \in CPUS, Manejador(c) PROVE Fifo'
<1>1. /\ manejador[c].paso \in ACTIVOS \cup {"recibir", "fin_memoria", "fin_cpu", "a_block"}
  BY DEF InvFifo, Fifo, ManoFifo
<1>2. /\ ~EncolarReady(c) /\ ~enlistar_primero_ready(c)
      /\ ~despostear_todas_cpus(c) /\ ~desalojar_por_compactacion(c)
      /\ ~EsperarDesalojos(c) /\ ~CompactacionExitosa(c) /\ ~FinDeCompactacion(c)
  BY <1>1 DEF ACTIVOS, Paso, EncolarReady, enlistar_primero_ready, despostear_todas_cpus,
     desalojar_por_compactacion, EsperarDesalojos, CompactacionExitosa, FinDeCompactacion
<1>3. QED
  BY <1>2, RecepcionFifo, FinMemoriaFifo, FinCpuFifo, LeerPcbFifo, BloquearFifo,
     PasarABlockFifo, BuscarFifo, ReanudarFifo, SacarSinMemoriaFifo, PedirFifo
  DEF Manejador

-----------------------------------------------------------------------------
(* The CPUs.                                                                 *)

\* A step that only moves what CPU c has in hand.
LEMMA SoloCpuFifo ==
    ASSUME InvFifo, NEW c \in CPUS,
           UNCHANGED <<exec_lista, cpu, manejador, planif, temporizador, sem,
                       compactando, caida>>,
           \A x \in CPUS \ {c} : a_cpu'[x] = a_cpu[x] /\ a_plan'[x] = a_plan[x]
                                 /\ corre'[x] = corre[x],
           Portador(c)'
    PROVE  Fifo'
<1>1. ASSUME NEW x \in CPUS \ {c} PROVE Portador(x)' /\ ManoFifo(x)'
  BY AjenoFifo DEF Ajeno, InvFifo, Fifo
<1>2. ManoFifo(c)'
  BY DEF ManoFifo, InvFifo, Fifo
<1>3. PorPostear' = PorPostear /\ Libres' = Libres
  BY DEF PorPostear, Libres, Conectadas
<1>4. Cuenta'
  BY <1>3, CuentaIgual DEF InvFifo, Fifo, PlanConToken
<1>5. QED
  BY <1>1, <1>2, <1>4 DEF InvFifo, Fifo

\* Nothing in the socket is an interruption; the order starts the process.
LEMMA CpuOciosaFifo == ASSUME InvFifo, NEW c \in CPUS, CpuOciosa(c) PROVE Fifo'
<1> USE DEF InvFifo, InvLugar
<1> DEFINE s == a_cpu[c]
           m == Head(s)
<1>1. corre[c] = Nadie /\ s # <<>> /\ s \in Seq(MsjACpu) /\ Portador(c)
  BY DEF CpuOciosa, InvReady, TypeOK, Fifo
<1>2. Buzon(s, cpu[c].pcb)
  BY <1>1 DEF Portador
<1>3. /\ Buzon(Tail(s), cpu[c].pcb) /\ m.tipo \in ORDENES
      /\ Arranques(Tail(s)) # {} => Arranques(s) # {}
      /\ m.tipo = "EJECUTAR_PROCESO" =>
            m.pid = cpu[c].pcb /\ Arranques(s) # {} /\ Arranques(Tail(s)) = {}
  BY <1>1, <1>2, BuzonLee
<1>4. m.tipo \notin INTERRUPCIONES
  BY <1>3 DEF ORDENES, INTERRUPCIONES
<1>5. /\ corre' = IF m.tipo = "EJECUTAR_PROCESO" THEN [corre EXCEPT ![c] = m.pid] ELSE corre
      /\ a_plan' = a_plan /\ a_cpu' = [a_cpu EXCEPT ![c] = Tail(s)]
      /\ UNCHANGED <<exec_lista, cpu, manejador, planif, temporizador, sem,
                     compactando, caida>>
  BY <1>4 DEF CpuOciosa, EnCpu, memoria
<1>6. /\ a_cpu'[c] = Tail(s)
      /\ corre'[c] = IF m.tipo = "EJECUTAR_PROCESO" THEN m.pid ELSE corre[c]
      /\ \A x \in CPUS \ {c} : a_cpu'[x] = a_cpu[x] /\ a_plan'[x] = a_plan[x]
                               /\ corre'[x] = corre[x]
  BY <1>5 DEF InvReady, TypeOK
<1> HIDE DEF m, s
<1>7. Arranques(s) # {} => a_plan[c] = <<>> /\ ~Atiende(c)
  BY <1>1 DEF Portador, s
<1>8. Portador(c)'
  <2>1. CASE m.tipo = "EJECUTAR_PROCESO"
    BY <1>3, <1>5, <1>6, <1>7, <2>1 DEF Portador, Atiende
  <2>2. CASE m.tipo # "EJECUTAR_PROCESO"
    BY <1>1, <1>3, <1>5, <1>6, <1>7, <2>2 DEF Portador, Atiende
  <2>3. QED
    BY <2>1, <2>2
<1>9. QED
  BY <1>5, <1>6, <1>8, SoloCpuFifo

\* While a process runs what arrives is a notice, and it is dropped.
LEMMA HayInterrupcionFifo == ASSUME InvFifo, NEW c \in CPUS, hay_interrupcion(c) PROVE Fifo'
<1> USE DEF InvFifo, InvLugar
<1> DEFINE s == a_cpu[c]
<1>1. corre[c] # Nadie /\ s # <<>> /\ s \in Seq(MsjACpu) /\ Portador(c)
  BY DEF hay_interrupcion, InvReady, TypeOK, Fifo
<1>2. Buzon(s, cpu[c].pcb) /\ Arranques(s) = {}
  BY <1>1 DEF Portador
<1>3. /\ Buzon(Tail(s), cpu[c].pcb) /\ Head(s).tipo \in ORDENES
      /\ Arranques(Tail(s)) # {} => Arranques(s) # {}
  BY <1>1, <1>2, BuzonLee
<1>4. Head(s).tipo \notin INTERRUPCIONES
  BY <1>3 DEF ORDENES, INTERRUPCIONES
<1>5. /\ corre' = corre /\ a_plan' = a_plan /\ a_cpu' = [a_cpu EXCEPT ![c] = Tail(s)]
      /\ UNCHANGED <<exec_lista, cpu, manejador, planif, temporizador, sem,
                     compactando, caida>>
  BY <1>4 DEF hay_interrupcion, EnCpu, memoria
<1>6. /\ a_cpu'[c] = Tail(s)
      /\ \A x \in CPUS \ {c} : a_cpu'[x] = a_cpu[x] /\ a_plan'[x] = a_plan[x]
                               /\ corre'[x] = corre[x]
  BY <1>5 DEF InvReady, TypeOK
<1> HIDE DEF s
<1>7. Portador(c)'
  BY <1>1, <1>2, <1>3, <1>5, <1>6 DEF Portador, Atiende
<1>8. QED
  BY <1>5, <1>6, <1>7, SoloCpuFifo

\* The process leaves the CPU: its syscall bears it now.
LEMMA SyscallFifo == ASSUME InvFifo, NEW c \in CPUS, Programa(c) PROVE Fifo'
<1> USE DEF InvFifo, InvLugar
<1>1. PICK t \in SYSCALLS : Syscall(c, t)
  BY DEF Programa
<1>2. corre[c] # Nadie /\ Portador(c)
  BY <1>1 DEF Syscall, Fifo
<1>3. corre[c] = cpu[c].pcb /\ a_plan[c] = <<>> /\ ~Atiende(c) /\ Arranques(a_cpu[c]) = {}
  BY <1>2 DEF Portador
<1> DEFINE m == Msj(t, corre[c])
<1>4. /\ a_plan' = [a_plan EXCEPT ![c] = Append(@, m)]
      /\ corre' = [corre EXCEPT ![c] = Nadie] /\ a_cpu' = a_cpu
      /\ UNCHANGED <<exec_lista, cpu, manejador, planif, temporizador, sem,
                     compactando, caida>>
  BY <1>1 DEF Syscall, EnCpu, memoria
<1>5. m.tipo = t /\ m.pid = cpu[c].pcb
  BY <1>3 DEF Msj
<1> HIDE DEF m
<1>6. /\ a_plan'[c] = Append(<<>>, m) /\ corre'[c] = Nadie
      /\ \A x \in CPUS \ {c} : a_cpu'[x] = a_cpu[x] /\ a_plan'[x] = a_plan[x]
                               /\ corre'[x] = corre[x]
  BY <1>3, <1>4 DEF InvReady, TypeOK
<1>7. Append(<<>>, m) = <<m>>
  OBVIOUS
<1>8. Head(<<m>>) = m /\ Tail(<<m>>) = <<>>
  OBVIOUS
<1>9. Portador(c)'
  BY <1>2, <1>3, <1>4, <1>5, <1>6, <1>7, <1>8 DEF Portador, Atiende
<1>10. QED
  BY <1>4, <1>6, <1>9, SoloCpuFifo

\* A CPU connects: it is free, and it brings its token.
LEMMA ConectarFifo == ASSUME InvFifo, NEW c \in CPUS, ConectarCpu(c) PROVE Fifo'
<1> USE DEF InvFifo, InvLugar
<1>1. UNCHANGED <<a_cpu, a_plan, corre, manejador, planif, temporizador, compactando, caida>>
  BY DEF ConectarCpu, memoria
<1>2. Cuenta' /\ Quedan
  BY CuentaConecta DEF Fifo
<1>3. ASSUME NEW x \in CPUS PROVE Portador(x)' /\ ManoFifo(x)'
  BY <1>1, <1>2, AjenoFifo DEF Ajeno, Quedan, Fifo
<1>4. QED
  BY <1>1, <1>2, <1>3 DEF Fifo

-----------------------------------------------------------------------------
(* The planner.                                                              *)

\* The planner goes on, and what it takes of sem_hay_cpu_libre is in its hands.
LEMMA PlanFifo ==
    ASSUME InvFifo,
           UNCHANGED <<exec_lista, cpu, a_cpu, a_plan, corre, manejador, temporizador,
                       compactando, caida>>,
           planif'.paso # "temporizar",
           sem'.cpu + (IF PlanConToken' THEN 1 ELSE 0) = sem.cpu + (IF PlanConToken THEN 1 ELSE 0)
    PROVE  Fifo'
<1>1. \A x \in CPUS : Portador(x)' /\ ManoFifo(x)'
  BY AjenoFifo DEF Ajeno, InvFifo, Fifo
<1>2. PorPostear' = PorPostear /\ Libres' = Libres
  BY DEF PorPostear, Libres, Conectadas
<1>3. Cuenta'
  BY <1>2 DEF InvFifo, Fifo, Cuenta
<1>4. QED
  BY <1>1, <1>3 DEF InvFifo, Fifo

\* Its waits: it looks at compactando, that is always false.
LEMMA EsperasFifo ==
    ASSUME InvFifo, EsperarReady \/ EsperarCpu \/ MirarCompactando \/ Despertar
    PROVE  Fifo'
<1> USE DEF InvFifo, InvLugar
<1>1. sem \in Sem /\ planif \in RegPlanif
  BY DEF InvReady, TypeOK, Sem
<1>2. CASE EsperarReady
  <2>1. /\ planif'.paso = "esperar_cpu" /\ planif.paso = "esperar_ready" /\ sem'.cpu = sem.cpu
        /\ UNCHANGED <<exec_lista, cpu, a_cpu, a_plan, corre, manejador, temporizador,
                       compactando, caida>>
    BY <1>1, <1>2 DEF EsperarReady, PlanPaso, PlanSeguir, EnPlan, memoria, Sem, RegPlanif
  <2>2. ~PlanConToken /\ ~PlanConToken'
    BY <2>1 DEF PlanConToken
  <2>3. QED
    BY <2>1, <2>2, PlanFifo
<1>3. CASE EsperarCpu
  <2>1. /\ planif'.paso = "mirar" /\ planif.paso = "esperar_cpu" /\ sem.cpu > 0
        /\ sem'.cpu = sem.cpu - 1
        /\ UNCHANGED <<exec_lista, cpu, a_cpu, a_plan, corre, manejador, temporizador,
                       compactando, caida>>
    BY <1>1, <1>3 DEF EsperarCpu, PlanPaso, PlanSeguir, EnPlan, memoria, Sem, RegPlanif
  <2>2. ~PlanConToken /\ PlanConToken'
    BY <2>1 DEF PlanConToken
  <2>3. sem'.cpu + 1 = sem.cpu + 0
    BY <1>1, <2>1 DEF Sem
  <2>4. sem'.cpu + (IF PlanConToken' THEN 1 ELSE 0) = sem.cpu + (IF PlanConToken THEN 1 ELSE 0)
    BY <2>2, <2>3
  <2>5. planif'.paso # "temporizar"
    BY <2>1
  <2>6. QED
    BY <2>1, <2>4, <2>5, PlanFifo
<1>4. CASE MirarCompactando
  <2>1. /\ planif'.paso = "desencolar" /\ planif.paso = "mirar" /\ sem' = sem
        /\ UNCHANGED <<exec_lista, cpu, a_cpu, a_plan, corre, manejador, temporizador,
                       compactando, caida>>
    BY <1>1, <1>4 DEF MirarCompactando, PlanPaso, PlanSeguir, EnPlan, memoria, RegPlanif, Fifo
  <2>2. PlanConToken /\ PlanConToken'
    BY <2>1 DEF PlanConToken
  <2>3. QED
    BY <2>1, <2>2, PlanFifo
<1>5. CASE Despertar
  <2>1. /\ planif'.paso = "esperar_ready" /\ planif.paso = "dormido" /\ sem' = sem
        /\ UNCHANGED <<exec_lista, cpu, a_cpu, a_plan, corre, manejador, temporizador,
                       compactando, caida>>
    BY <1>1, <1>5 DEF Despertar, PlanPaso, PlanSeguir, EnPlan, memoria, RegPlanif
  <2>2. ~PlanConToken /\ ~PlanConToken'
    BY <2>1 DEF PlanConToken
  <2>3. QED
    BY <2>1, <2>2, PlanFifo
<1>6. QED
  BY <1>2, <1>3, <1>4, <1>5

\* The queue has a process: ReadyContado.
LEMMA DesencolarFifo == ASSUME InvFifo, desencolar_pcb_ready PROVE Fifo'
<1> USE DEF InvFifo, InvLugar
<1>1. planif.paso = "desencolar" /\ planif \in RegPlanif
  BY DEF desencolar_pcb_ready, PlanPaso, InvReady, TypeOK
<1>2. ready # <<>>
  <2>1. sem.ready \in Nat /\ sem.ready + 1 = Len(ready)
    BY <1>1 DEF InvReady, TypeOK, ReadyContado, TieneTurno
  <2>2. Len(<<>>) = 0
    OBVIOUS
  <2>3. QED
    BY <2>1, <2>2
<1>3. /\ planif'.paso = "despachar" /\ sem' = sem
      /\ UNCHANGED <<exec_lista, cpu, a_cpu, a_plan, corre, manejador, temporizador,
                     compactando, caida>>
  BY <1>1, <1>2 DEF desencolar_pcb_ready, EnPlan, memoria, RegPlanif
<1>4. PlanConToken /\ PlanConToken'
  BY <1>1, <1>3 DEF PlanConToken
<1>5. QED
  BY <1>3, <1>4, PlanFifo

\* The token of the planner is that of a free CPU: it finds one, with no order
\* in its socket, and the process becomes its own.
LEMMA DespacharFifo == ASSUME InvFifo, SinDesalojo, enviar_proceso_a_cpu PROVE Fifo'
<1> USE DEF InvFifo, InvLugar
<1>1. planif.paso = "despachar" /\ PlanConToken
  BY DEF enviar_proceso_a_cpu, PlanPaso, PlanConToken
<1>2. PICK p \in PIDS : planif.pcb = p
  BY <1>1 DEF InvReady, EnLaMano, PlanPaso
<1>4. PICK d \in Conectadas : obtener_cpu_libre = d /\ cpu[d].pcb = Nadie
  BY <1>1, HayLibre DEF Fifo
<1>n. d \in CPUS /\ d # Nadie /\ p # Nadie
  BY <1>4, Finitos, SupuestosDespacho
<1> DEFINE m == Msj("EJECUTAR_PROCESO", p)
           v == [cpu[d] EXCEPT !.pcb = p, !.control = FALSE]
<1>5. /\ cpu' = [cpu EXCEPT ![d] = v] /\ a_cpu' = [a_cpu EXCEPT ![d] = Append(@, m)]
      /\ planif'.paso = "esperar_ready"
      /\ UNCHANGED <<exec_lista, a_plan, corre, manejador, temporizador, sem,
                     compactando, caida>>
  BY <1>1, <1>2, <1>4, <1>n DEF enviar_proceso_a_cpu, SinDesalojo, EnPlan, memoria
<1>6. v.pcb = p
  BY <1>n DEF InvReady, TypeOK, RegCpu
<1>7. m \in MsjACpu /\ m.tipo = "EJECUTAR_PROCESO" /\ m.pid = p
  BY DEF m, Msj, MsjACpu, ORDENES
<1> HIDE DEF m, v
<1>8. Queda(d, p)
  BY <1>5, <1>6, <1>n, QuedaExcepto
<1>9. ASSUME NEW x \in CPUS \ {d} PROVE Portador(x)' /\ ManoFifo(x)'
  <2>1. Ajeno(x)
    BY <1>5, <1>8 DEF Ajeno, Queda, InvReady, TypeOK
  <2>2. QED
    BY <2>1, AjenoFifo DEF Fifo
<1>10. Portador(d) /\ a_cpu[d] \in Seq(MsjACpu) /\ temporizador[d] = Nadie
  BY <1>n DEF Fifo, InvReady, TypeOK
<1>11. a_plan[d] = <<>>
  <2>1. SUFFICES ASSUME a_plan[d] # <<>> PROVE FALSE
    OBVIOUS
  <2>2. cpu[d].pcb \in PIDS
    BY <1>n, <2>1, PidDeMensaje
  <2>3. QED
    BY <1>4, <2>2, SupuestosDespacho
<1>12. ~Atiende(d)
  <2>1. SUFFICES ASSUME Atiende(d) PROVE FALSE
    OBVIOUS
  <2>2. cpu[d].pcb \in PIDS
    BY <1>n, <2>1, PidAtendido
  <2>3. QED
    BY <1>4, <2>2, SupuestosDespacho
<1>13. corre[d] = Nadie
  BY <1>4, <1>10 DEF Portador
<1>14. Arranques(a_cpu[d]) = {}
  <2>1. SUFFICES ASSUME NEW i \in Arranques(a_cpu[d]) PROVE FALSE
    OBVIOUS
  <2>2. i \in DOMAIN a_cpu[d] /\ a_cpu[d][i].pid = Nadie
    BY <1>4, <1>10 DEF Portador, Buzon, Arranques
  <2>3. a_cpu[d][i] \in MsjACpu
    BY <1>10, <2>2, ElementOfSeq, LenProperties
  <2>4. QED
    BY <2>2, <2>3, SupuestosDespacho DEF MsjACpu
<1>15. Buzon(Append(a_cpu[d], m), p)
  <2>1. Buzon(a_cpu[d], cpu[d].pcb)
    BY <1>10 DEF Portador
  <2>2. Buzon(Append(a_cpu[d], m), m.pid)
    BY <1>7, <1>10, <1>14, <2>1, BuzonOrden
  <2>3. QED
    BY <1>7, <2>2
<1>16. a_cpu'[d] = Append(a_cpu[d], m) /\ cpu'[d].pcb = p /\ manejador'[d] = manejador[d]
  BY <1>5, <1>8, <1>n DEF Queda, InvReady, TypeOK
<1>17. Portador(d)'
  BY <1>5, <1>11, <1>12, <1>13, <1>15, <1>16 DEF Portador, Atiende
<1>18. ManoFifo(d)'
  BY <1>16, <1>n DEF ManoFifo, Fifo
<1>19. ~PlanConToken'
  BY <1>5 DEF PlanConToken
<1>22. Cuenta'
  BY <1>1, <1>4, <1>5, <1>8, <1>19, CuentaDespacha DEF Fifo
<1>23. planif'.paso # "temporizar"
  BY <1>5
<1>24. QED
  BY <1>5, <1>9, <1>10, <1>17, <1>18, <1>22, <1>23 DEF Fifo

\* The thread of SLEEP only moves processes from block_lista to ready_cola.
LEMMA FinSleepFifo == ASSUME InvFifo, FINALIZAR_SLEEP PROVE Fifo'
<1> USE DEF InvFifo, InvLugar
<1>1. UNCHANGED <<exec_lista, cpu, a_cpu, a_plan, corre, manejador, planif, temporizador,
                  compactando, caida>>
  BY DEF FINALIZAR_SLEEP, memoria
<1>2. sem'.cpu = sem.cpu
  BY DEF FINALIZAR_SLEEP, InvReady, TypeOK
<1>3. (PlanConToken' <=> PlanConToken) /\ planif'.paso # "temporizar"
  BY <1>1 DEF PlanConToken, Fifo
<1>4. sem'.cpu + (IF PlanConToken' THEN 1 ELSE 0) = sem.cpu + (IF PlanConToken THEN 1 ELSE 0)
  BY <1>2, <1>3
<1>5. QED
  BY <1>1, <1>3, <1>4, PlanFifo

-----------------------------------------------------------------------------
(* The theorems of FIFO without compactions.                                 *)

\* At the start no CPU is connected.
LEMMA InicioFifo == ASSUME Init PROVE Fifo
<1>1. /\ \A c \in CPUS : /\ cpu[c] = CpuNueva /\ a_cpu[c] = <<>> /\ a_plan[c] = <<>>
                         /\ corre[c] = Nadie /\ manejador[c] = Ocioso
                         /\ temporizador[c] = Nadie
      /\ planif.paso = "esperar_ready" /\ sem.cpu = 0 /\ exec_lista = <<>>
      /\ compactando = FALSE /\ caida = "no"
  BY DEF Init
<1>2. Arranques(<<>>) = {} /\ Buzon(<<>>, Nadie)
  BY DEF Arranques, Buzon
<1>3. CpuNueva.pcb = Nadie /\ Ocioso.paso = "recibir"
  BY DEF CpuNueva, Ocioso
<1>4. ASSUME NEW c \in CPUS PROVE Portador(c) /\ ManoFifo(c)
  BY <1>1, <1>2, <1>3 DEF Portador, ManoFifo, Atiende, ACTIVOS
<1>5. Libres = {} /\ PorPostear = {} /\ ~PlanConToken
  BY <1>1, <1>3 DEF Libres, Conectadas, PorPostear, PlanConToken
<1>6. Cuenta
  BY <1>1, <1>5, FS_EmptySet DEF Cuenta
<1>7. QED
  BY <1>1, <1>4, <1>6 DEF Fifo

\* Every step keeps the invariant.
LEMMA PasoFifo == ASSUME InvFifo, SinDesalojo, [Next]_vars PROVE InvFifo'
<1>1. InvLugar'
  BY PasoLugar DEF InvFifo
<1>2. CASE planificador
  <2>1. ~iniciar_timer_quantum
    BY DEF iniciar_timer_quantum, PlanPaso, InvFifo, Fifo
  <2>2. QED
    BY <1>1, <1>2, <2>1, EsperasFifo, DesencolarFifo, DespacharFifo DEF planificador, InvFifo
<1>3. CASE FINALIZAR_SLEEP
  BY <1>1, <1>3, FinSleepFifo DEF InvFifo
<1>4. ASSUME NEW c \in CPUS,
             \/ ConectarCpu(c)
             \/ Cpu(c)
             \/ Programa(c)
             \/ Manejador(c)
             \/ hilo_timer_quantum(c)
      PROVE  Fifo'
  <2>1. ~hilo_timer_quantum(c)
    BY DEF hilo_timer_quantum, InvFifo, Fifo
  <2>2. QED
    BY <1>4, <2>1, ConectarFifo, CpuOciosaFifo, HayInterrupcionFifo, SyscallFifo,
       ManejadorFifo DEF Cpu
<1>5. CASE UNCHANGED vars
  <2>1. Fifo'
    BY <1>5, PlanFifo DEF vars, memoria, InvFifo, Fifo, PlanConToken
  <2>2. QED
    BY <1>1, <2>1 DEF InvFifo
<1>6. QED
  BY <1>1, <1>2, <1>3, <1>4, <1>5 DEF Next, InvFifo

\* Without preemption each process on a CPU has one bearer, and the semaphore
\* of free CPUs counts them.
THEOREM FifoSiempre == ASSUME SinDesalojo PROVE Spec => []InvFifo
<1>1. Init => InvFifo
  BY InicioLugar, InicioFifo DEF InvFifo
<1>2. InvFifo /\ [Next]_vars => InvFifo'
  BY PasoFifo
<1>3. QED
  BY <1>1, <1>2, PTL DEF Spec

\* Without preemption a CPU executes only the process the scheduler has on it.
THEOREM SoloElAsignado == ASSUME SinDesalojo PROVE Spec => []EjecutaElAsignado
<1>1. InvFifo => EjecutaElAsignado
  BY DEF InvFifo, Fifo, Portador, EjecutaElAsignado
<1>2. QED
  BY <1>1, FifoSiempre, PTL

\* Without preemption no thread reads the pid of a CPU that has no process.
THEOREM NuncaNulo == ASSUME SinDesalojo PROVE Spec => []SinNulos
<1>1. InvFifo => SinNulos
  BY DEF InvFifo, Fifo, SinNulos
<1>2. QED
  BY <1>1, FifoSiempre, PTL

-----------------------------------------------------------------------------
(* With the quantum, the tokens.  Interruptions cross the syscalls, and a    *)
(* process may leave its CPU behind the back of the handler that serves it.  *)
(* The count of the free CPUs does not depend on that: whoever takes a       *)
(* process out of a CPU is the one that owes its token.  Only SLEEP gives a  *)
(* token for a CPU it did not free, and only a compaction takes them.        *)

SinFichasDeMas == "COMPACTACION" \notin RESPUESTAS /\ "SLEEP" \notin SYSCALLS

\* No message of a compaction travels, and no handler is at its steps, or at
\* those of SLEEP.
SinCompactar(s) == \A i \in DOMAIN s : s[i].tipo # "COMPACTACION"
PASOS_RR == {"recibir", "encolar", "fin_memoria", "fin_cpu", "buscar", "buscar_fin",
             "reanudar", "sacar_pcb", "pedir"}
Tranquila(c) == SinCompactar(a_cpu[c]) /\ SinCompactar(a_plan[c]) /\ manejador[c].paso \in PASOS_RR
Fichas ==
    /\ \A c \in CPUS : Tranquila(c)
    /\ Cuenta /\ compactando = FALSE
InvFichas == InvLugar /\ Fichas

\* A socket gets a message, or loses the first one.
LEMMA SinCompactarSigue ==
    ASSUME NEW M, NEW s \in Seq(M), SinCompactar(s)
    PROVE  /\ \A m \in M : m.tipo # "COMPACTACION" => SinCompactar(Append(s, m))
           /\ s # <<>> => Head(s).tipo # "COMPACTACION" /\ SinCompactar(Tail(s))
<1>1. ASSUME NEW m \in M, m.tipo # "COMPACTACION" PROVE SinCompactar(Append(s, m))
  <2>1. /\ Len(s) \in Nat /\ DOMAIN s = 1..Len(s)
        /\ DOMAIN Append(s, m) = 1..(Len(s) + 1)
        /\ \A i \in 1..Len(s) : Append(s, m)[i] = s[i]
        /\ Append(s, m)[Len(s) + 1] = m
    BY LenProperties, AppendProperties
  <2>2. QED
    BY <1>1, <2>1 DEF SinCompactar
<1>2. ASSUME s # <<>> PROVE Head(s).tipo # "COMPACTACION" /\ SinCompactar(Tail(s))
  <2>1. /\ Len(s) \in Nat \ {0} /\ DOMAIN s = 1..Len(s)
        /\ DOMAIN Tail(s) = 1..(Len(s) - 1)
        /\ \A i \in 1..(Len(s) - 1) : Tail(s)[i] = s[i + 1]
        /\ Head(s) = s[1]
    BY <1>2, LenProperties, HeadTailProperties, EmptySeq
  <2>2. QED
    BY <2>1 DEF SinCompactar
<1>3. QED
  BY <1>1, <1>2

\* Every socket of the scheduler towards a CPU is as it was, or got one
\* message that is not of a compaction.
Escrito ==
    \A c \in CPUS : \/ a_cpu'[c] = a_cpu[c]
                    \/ \E m \in MsjACpu : m.tipo # "COMPACTACION" /\ a_cpu'[c] = Append(a_cpu[c], m)

\* A control message that is not of a compaction.
LEMMA ConControlEscrito ==
    ASSUME InvReady, NEW d \in CPUS, NEW p \in PIDS,
           NEW t \in ORDENES \cup {"FINALIZAR_POR_QUANTUM"}, a_cpu' = ConControl(d, t, p)
    PROVE  Escrito
<1> DEFINE m == Msj(t, p)
<1>1. m \in MsjACpu /\ m.tipo # "COMPACTACION"
  BY DEF Msj, MsjACpu, ORDENES, INTERRUPCIONES
<1>2. \A c \in CPUS : a_cpu'[c] = a_cpu[c] \/ a_cpu'[c] = Append(a_cpu[c], m)
  BY DEF ConControl, InvReady, TypeOK
<1> HIDE DEF m
<1>3. QED
  BY <1>1, <1>2 DEF Escrito

\* What the scheduler does: it reads one message of c, or none, and writes to
\* the CPUs.
LEMMA FichasPor ==
    ASSUME InvFichas, NEW c \in CPUS, NEW r, manejador' = [manejador EXCEPT ![c] = r],
           r.paso \in PASOS_RR, Escrito, UNCHANGED compactando,
           \/ a_plan' = a_plan
           \/ a_plan[c] # <<>> /\ a_plan' = [a_plan EXCEPT ![c] = Tail(@)],
           Cuenta'
    PROVE  Fichas'
<1> USE DEF InvFichas, InvLugar
<1>1. ASSUME NEW x \in CPUS PROVE Tranquila(x)'
  <2>1. a_cpu[x] \in Seq(MsjACpu) /\ a_plan[x] \in Seq(MsjAPlan) /\ Tranquila(x)
    BY DEF InvReady, TypeOK, Fichas
  <2>2. SinCompactar(a_cpu'[x])
    <3>1. CASE a_cpu'[x] = a_cpu[x]
      BY <2>1, <3>1 DEF Tranquila
    <3>2. ASSUME NEW m \in MsjACpu, m.tipo # "COMPACTACION", a_cpu'[x] = Append(a_cpu[x], m)
          PROVE  SinCompactar(a_cpu'[x])
      BY <2>1, <3>2, SinCompactarSigue DEF Tranquila
    <3>3. QED
      BY <3>1, <3>2 DEF Escrito
  <2>3. a_plan'[x] = a_plan[x] \/ (a_plan[x] # <<>> /\ a_plan'[x] = Tail(a_plan[x]))
    BY DEF InvReady, TypeOK
  <2>4. SinCompactar(a_plan'[x])
    BY <2>1, <2>3, SinCompactarSigue DEF Tranquila
  <2>5. manejador'[x] = IF x = c THEN r ELSE manejador[x]
    BY DEF InvReady, TypeOK
  <2>6. manejador'[x].paso \in PASOS_RR
    BY <2>1, <2>5 DEF Tranquila
  <2>7. QED
    BY <2>2, <2>4, <2>6 DEF Tranquila
<1>2. QED
  BY <1>1 DEF Fichas

\* A handler goes on: no CPU is freed, and no token given.
LEMMA CuentaSigue ==
    ASSUME InvReady, Cuenta, NEW c \in CPUS, NEW r, manejador' = [manejador EXCEPT ![c] = r],
           manejador[c].paso \in POSTERGA <=> r.paso \in POSTERGA,
           UNCHANGED <<exec_lista, planif>>, sem'.cpu = sem.cpu, Quedan
    PROVE  Cuenta'
<1>1. PorPostear' = PorPostear
  <2>1. /\ r.paso \in POSTERGA => PorPostear' = PorPostear \cup {c}
        /\ r.paso \notin POSTERGA => PorPostear' = PorPostear \ {c}
        /\ c \in PorPostear <=> manejador[c].paso \in POSTERGA
    BY PorPostearCon
  <2>2. QED
    BY <2>1
<1>2. Libres' = Libres
  BY LibresCon
<1>3. PlanConToken' <=> PlanConToken
  BY DEF PlanConToken
<1>4. QED
  BY <1>1, <1>2, <1>3, CuentaIgual

\* Nothing the count looks at changes.
LEMMA FichasQuieta ==
    ASSUME InvFichas, UNCHANGED <<manejador, exec_lista, compactando>>, Quedan,
           \A c \in CPUS : SinCompactar(a_cpu[c])' /\ SinCompactar(a_plan[c])',
           sem'.cpu + (IF PlanConToken' THEN 1 ELSE 0) = sem.cpu + (IF PlanConToken THEN 1 ELSE 0)
    PROVE  Fichas'
<1> USE DEF InvFichas, InvLugar
<1>1. PorPostear' = PorPostear /\ Libres' = Libres
  BY LibresCon DEF PorPostear
<1>2. Cuenta'
  BY <1>1 DEF Fichas, Cuenta
<1>3. \A c \in CPUS : Tranquila(c)'
  BY DEF Fichas, Tranquila
<1>4. QED
  BY <1>2, <1>3 DEF Fichas

-----------------------------------------------------------------------------
(* The handlers.                                                             *)

\* The end of a quantum and of a process: the CPU found is freed.
LEMMA SacarDeCpuFichas ==
    ASSUME InvFichas, NEW c \in CPUS, NEW tipos, NEW limpia, NEW paso \in {"encolar", "fin_memoria"},
           a_plan[c] # <<>>, SacarDeCpu(c, tipos, limpia, paso)
    PROVE  Fichas'
<1> USE DEF InvFichas, InvLugar
<1>1. PICK p \in PIDS : Head(a_plan[c]).pid = p
  <2>1. Head(a_plan[c]) \in MsjAPlan
    BY HeadTailProperties DEF InvReady, TypeOK
  <2>2. QED
    BY <2>1 DEF MsjAPlan
<1>n. p # Nadie
  BY SupuestosDespacho
<1>2. CASE encontrar_cpu_con_pid(p) = Nadie
  <2>1. Recibir(c, tipos, Ocioso) /\ cpu' = cpu
        /\ UNCHANGED <<exec_lista, a_cpu, planif, sem, compactando>>
    BY <1>1, <1>2 DEF SacarDeCpu, memoria
  <2>2. /\ manejador[c] = Ocioso /\ manejador' = [manejador EXCEPT ![c] = Ocioso]
        /\ a_plan' = [a_plan EXCEPT ![c] = Tail(@)]
    BY <2>1 DEF Recibir
  <2>3. Ocioso.paso = "recibir" /\ Ocioso.paso \in PASOS_RR
    BY DEF Ocioso, PASOS_RR
  <2>4. Cuenta'
    <3>1. manejador[c].paso \in POSTERGA <=> Ocioso.paso \in POSTERGA
      BY <2>2
    <3>2. QED
      BY <2>1, <2>2, <3>1, CuentaSigue DEF Quedan, Fichas
  <2>5. Escrito
    BY <2>1 DEF Escrito
  <2>6. QED
    BY <2>1, <2>2, <2>3, <2>4, <2>5, FichasPor
<1>3. CASE encontrar_cpu_con_pid(p) # Nadie
  <2>1. PICK d \in Conectadas : encontrar_cpu_con_pid(p) = d /\ cpu[d].pcb = p
    BY <1>3, PrimeraConConectada DEF encontrar_cpu_con_pid
  <2>n. d \in CPUS /\ d # Nadie
    BY <2>1, <1>3, Finitos
  <2> DEFINE r == [Ocioso EXCEPT !.paso = paso, !.pid = p, !.cpu = d, !.pcb = p]
             v == [pcb |-> Nadie,
                   control |-> IF "control" \in limpia THEN FALSE ELSE cpu[d].control,
                   ack |-> IF "ack" \in limpia THEN FALSE ELSE cpu[d].ack]
  <2>2. Recibir(c, tipos, r)
    BY <1>1, <2>1, <2>n DEF SacarDeCpu
  <2>3. /\ cpu' = [cpu EXCEPT ![d] = v]
        /\ UNCHANGED <<exec_lista, a_cpu, planif, sem, compactando>>
    BY <1>1, <2>1, <2>n DEF SacarDeCpu, memoria
  <2>4. v.pcb = Nadie /\ r.paso = paso
    BY DEF Ocioso
  <2> HIDE DEF r, v
  <2>5. /\ manejador[c] = Ocioso /\ manejador' = [manejador EXCEPT ![c] = r]
        /\ a_plan' = [a_plan EXCEPT ![c] = Tail(@)]
    BY <2>2 DEF Recibir
  <2>6. Queda(d, Nadie)
    BY <2>3, <2>4, <2>n, QuedaExcepto
  <2>7. manejador[c].paso \notin POSTERGA /\ r.paso \in POSTERGA /\ r.paso \in PASOS_RR
    BY <2>4, <2>5 DEF Ocioso, POSTERGA, PASOS_RR
  <2>8. Cuenta'
    BY <1>n, <2>1, <2>3, <2>5, <2>6, <2>7, CuentaLibera DEF Fichas
  <2>9. Escrito
    BY <2>3 DEF Escrito
  <2>10. QED
    BY <2>3, <2>5, <2>7, <2>8, <2>9, FichasPor
<1>4. QED
  BY <1>2, <1>3

\* The other messages free no CPU.
LEMMA RecibirFichas ==
    ASSUME InvFichas, NEW c \in CPUS, NEW tipos, NEW r, a_plan[c] # <<>>, Recibir(c, tipos, r),
           r.paso \in PASOS_RR \ POSTERGA,
           UNCHANGED <<exec_lista, cpu, a_cpu, planif, compactando>>, sem'.cpu = sem.cpu
    PROVE  Fichas'
<1>1. /\ manejador[c] = Ocioso /\ manejador' = [manejador EXCEPT ![c] = r]
      /\ a_plan' = [a_plan EXCEPT ![c] = Tail(@)]
  BY DEF Recibir
<1>2. manejador[c].paso \notin POSTERGA
  BY <1>1 DEF Ocioso, POSTERGA
<1>3. Cuenta'
  BY <1>1, <1>2, CuentaSigue DEF Quedan, InvFichas, InvLugar, Fichas
<1>4. Escrito
  BY DEF Escrito
<1>5. QED
  BY <1>1, <1>3, <1>4, FichasPor

\* Every message a handler may take.
LEMMA RecepcionFichas ==
    ASSUME InvFichas, SinFichasDeMas, NEW c \in CPUS, Recepcion(c) PROVE Fichas'
<1> USE DEF InvFichas, InvLugar
<1>1. a_plan[c] # <<>> => Head(a_plan[c]).tipo \notin {"COMPACTACION", "SLEEP"}
  <2>1. SUFFICES ASSUME a_plan[c] # <<>> PROVE Head(a_plan[c]).tipo \notin {"COMPACTACION", "SLEEP"}
    OBVIOUS
  <2>2. Head(a_plan[c]) \in MsjAPlan /\ a_plan[c] \in Seq(MsjAPlan)
    BY <2>1, HeadTailProperties DEF InvReady, TypeOK
  <2>3. Head(a_plan[c]).tipo # "COMPACTACION"
    BY <2>1, <2>2, SinCompactarSigue DEF Fichas, Tranquila
  <2>4. QED
    BY <2>2, <2>3 DEF SinFichasDeMas, MsjAPlan, INTERRUPCIONES
<1>2. ~COMPACTACION(c)
  <2>1. SUFFICES ASSUME COMPACTACION(c) PROVE FALSE
    OBVIOUS
  <2>2. a_plan[c] # <<>> /\ \E r : Recibir(c, {"COMPACTACION"}, r)
    BY <2>1 DEF COMPACTACION, SacarDeCpu
  <2>3. QED
    BY <1>1, <2>2 DEF Recibir
<1>3. ~SLEEP(c)
  <2>1. SUFFICES ASSUME SLEEP(c) PROVE FALSE
    OBVIOUS
  <2>2. a_plan[c] # <<>> /\ \E r : Recibir(c, {"SLEEP"}, r)
    BY <2>1 DEF SLEEP, BuscarCpu
  <2>3. QED
    BY <1>1, <2>2 DEF Recibir
<1>4. CASE FINALIZAR_POR_QUANTUM(c) \/ EXIT(c)
  BY <1>4, SacarDeCpuFichas DEF FINALIZAR_POR_QUANTUM, EXIT
<1>5. CASE MEM_ALLOC(c)
  <2> DEFINE d == encontrar_cpu_con_pid(Head(a_plan[c]).pid)
             r == IF d = Nadie THEN Ocioso
                  ELSE [Ocioso EXCEPT !.paso = "pedir", !.pid = Head(a_plan[c]).pid, !.cpu = d]
  <2>1. /\ a_plan[c] # <<>> /\ Recibir(c, {"MEM_ALLOC"}, r)
        /\ UNCHANGED <<exec_lista, cpu, a_cpu, planif, compactando>> /\ UNCHANGED sem
    BY <1>5 DEF MEM_ALLOC, BuscarCpu, memoria
  <2>2. r.paso \in PASOS_RR \ POSTERGA
    BY DEF Ocioso, PASOS_RR, POSTERGA
  <2> HIDE DEF r
  <2>3. QED
    BY <2>1, <2>2, RecibirFichas
<1>6. CASE MEM_FREE(c) \/ INIT_PROC(c, PIDS)
  <2> DEFINE r == [Ocioso EXCEPT !.paso = "buscar", !.pid = Head(a_plan[c]).pid]
  <2>1. /\ a_plan[c] # <<>> /\ \E tipos : Recibir(c, tipos, r)
        /\ UNCHANGED <<exec_lista, cpu, a_cpu, planif, compactando>>
    BY <1>6 DEF MEM_FREE, INIT_PROC, memoria
  <2>2. sem'.cpu = sem.cpu
    BY <1>6 DEF MEM_FREE, INIT_PROC, InvReady, TypeOK
  <2>3. r.paso \in PASOS_RR \ POSTERGA
    BY DEF Ocioso, PASOS_RR, POSTERGA
  <2> HIDE DEF r
  <2>4. QED
    BY <2>1, <2>2, <2>3, RecibirFichas
<1>7. QED
  BY <1>2, <1>3, <1>4, <1>5, <1>6 DEF Recepcion

\* The handler goes on, or gives the token it owed.
LEMMA SigueFichas ==
    ASSUME InvFichas, NEW c \in CPUS, NEW r, manejador' = [manejador EXCEPT ![c] = r],
           r.paso \in PASOS_RR, Escrito, Quedan,
           UNCHANGED <<exec_lista, a_plan, planif, compactando>>,
           \/ sem'.cpu = sem.cpu /\ (manejador[c].paso \in POSTERGA <=> r.paso \in POSTERGA)
           \/ sem'.cpu = sem.cpu + 1 /\ manejador[c].paso \in POSTERGA /\ r = Ocioso
    PROVE  Fichas'
<1>1. Cuenta'
  <2>1. CASE sem'.cpu = sem.cpu /\ (manejador[c].paso \in POSTERGA <=> r.paso \in POSTERGA)
    BY <2>1, CuentaSigue DEF InvFichas, InvLugar, Fichas
  <2>2. CASE sem'.cpu = sem.cpu + 1 /\ manejador[c].paso \in POSTERGA /\ r = Ocioso
    BY <2>2, CuentaPostea DEF InvFichas, InvLugar, Fichas
  <2>3. QED
    BY <2>1, <2>2
<1>2. QED
  BY <1>1, FichasPor

\* A NULL read changes nothing the count looks at.
LEMMA CaerFichas == ASSUME InvFichas, NEW m, Caer(m) PROVE Fichas'
<1>1. UNCHANGED <<exec_lista, cpu, a_cpu, a_plan, manejador, planif, sem, compactando>>
  BY DEF Caer, memoria
<1>2. QED
  BY <1>1 DEF InvFichas, Fichas, Tranquila, Cuenta, PlanConToken, PorPostear, Libres, Conectadas

\* The end of a quantum, and the two steps of the end of a process.
LEMMA PostesFichas ==
    ASSUME InvFichas, NEW c \in CPUS, \/ EncolarReady(c)
                                      \/ enviar_fin_proceso_memory(c)
                                      \/ enviar_fin_proceso_a_cpu(c)
    PROVE  Fichas'
<1> USE DEF InvFichas, InvLugar
<1>o. Ocioso.paso \in PASOS_RR
  BY DEF Ocioso, PASOS_RR
<1>1. CASE EncolarReady(c)
  <2>1. /\ manejador' = [manejador EXCEPT ![c] = Ocioso] /\ manejador[c].paso = "encolar"
        /\ UNCHANGED <<exec_lista, a_plan, planif, compactando, cpu, a_cpu>>
    BY <1>1 DEF EncolarReady, Seguir, Paso, memoria
  <2>2. sem'.cpu = sem.cpu + 1
    BY <1>1 DEF EncolarReady, InvReady, TypeOK
  <2>3. manejador[c].paso \in POSTERGA /\ Escrito /\ Quedan
    BY <2>1 DEF POSTERGA, Escrito, Quedan
  <2>4. QED
    BY <1>o, <2>1, <2>2, <2>3, SigueFichas
<1>2. CASE enviar_fin_proceso_memory(c)
  <2> DEFINE r == [manejador[c] EXCEPT !.paso = "fin_cpu"]
  <2>1. /\ manejador' = [manejador EXCEPT ![c] = r] /\ manejador[c].paso = "fin_memoria"
        /\ UNCHANGED <<exec_lista, a_plan, planif, compactando, cpu, a_cpu>> /\ UNCHANGED sem
    BY <1>2 DEF enviar_fin_proceso_memory, Seguir, Paso, memoria
  <2>2. r.paso = "fin_cpu"
    BY DEF InvReady, TypeOK, RegManejador
  <2> HIDE DEF r
  <2>3. r.paso \in PASOS_RR /\ (manejador[c].paso \in POSTERGA <=> r.paso \in POSTERGA)
    BY <2>1, <2>2 DEF POSTERGA, PASOS_RR
  <2>4. Escrito /\ Quedan
    BY <2>1 DEF Escrito, Quedan
  <2>5. QED
    BY <2>1, <2>3, <2>4, SigueFichas
<1>3. CASE enviar_fin_proceso_a_cpu(c)
  <2>0. manejador[c].paso = "fin_cpu"
    BY <1>3 DEF enviar_fin_proceso_a_cpu, Paso
  <2>1. PICK d \in CPUS, p \in PIDS : manejador[c].cpu = d /\ manejador[c].pcb = p
    BY <2>0 DEF InvReady, EnLaMano, ConLoSuyo
  <2> DEFINE v == [cpu[d] EXCEPT !.control = TRUE]
  <2>2. /\ manejador' = [manejador EXCEPT ![c] = Ocioso]
        /\ a_cpu' = ConControl(d, "FIN_PROCESO", p) /\ cpu' = [cpu EXCEPT ![d] = v]
        /\ UNCHANGED <<exec_lista, a_plan, planif, compactando>>
    BY <1>3, <2>1 DEF enviar_fin_proceso_a_cpu, Seguir, memoria
  <2>3. sem'.cpu = sem.cpu + 1
    BY <1>3 DEF enviar_fin_proceso_a_cpu, InvReady, TypeOK
  <2>4. v.pcb = cpu[d].pcb
    BY DEF InvReady, TypeOK, RegCpu
  <2> HIDE DEF v
  <2>5. Quedan
    BY <2>2, <2>4, QuedaExcepto
  <2>6. Escrito
    BY <2>2, ConControlEscrito DEF ORDENES
  <2>7. manejador[c].paso \in POSTERGA
    BY <2>0 DEF POSTERGA
  <2>8. QED
    BY <1>o, <2>2, <2>3, <2>5, <2>6, <2>7, SigueFichas
<1>4. QED
  BY <1>1, <1>2, <1>3

\* After the second search: the process goes on, or the one on that CPU ends.
LEMMA BuscarFichas == ASSUME InvFichas, NEW c \in CPUS, BuscarDeNuevo(c) PROVE Fichas'
<1> USE DEF InvFichas, InvLugar
<1>1. manejador[c].paso \in {"buscar", "buscar_fin"}
  BY DEF BuscarDeNuevo, Paso
<1>2. /\ UNCHANGED <<exec_lista, a_plan, planif, compactando, cpu, a_cpu>> /\ UNCHANGED sem
      /\ \/ manejador' = [manejador EXCEPT ![c] = Ocioso]
         \/ \E paso \in {"reanudar", "sacar_pcb"} : \E d :
                manejador' = [manejador EXCEPT ![c] = [manejador[c] EXCEPT !.paso = paso, !.cpu = d]]
  BY DEF BuscarDeNuevo, Seguir, memoria
<1>3. PICK r : manejador' = [manejador EXCEPT ![c] = r] /\ r.paso \in {"recibir", "reanudar", "sacar_pcb"}
  <2>1. Ocioso.paso = "recibir"
    BY DEF Ocioso
  <2>2. \A paso, d : [manejador[c] EXCEPT !.paso = paso, !.cpu = d].paso = paso
    BY DEF InvReady, TypeOK, RegManejador
  <2>3. CASE manejador' = [manejador EXCEPT ![c] = Ocioso]
    BY <2>1, <2>3
  <2>4. ASSUME NEW paso \in {"reanudar", "sacar_pcb"}, NEW d,
               manejador' = [manejador EXCEPT ![c] = [manejador[c] EXCEPT !.paso = paso, !.cpu = d]]
        PROVE  \E r : manejador' = [manejador EXCEPT ![c] = r]
                         /\ r.paso \in {"recibir", "reanudar", "sacar_pcb"}
    <3> DEFINE r == [manejador[c] EXCEPT !.paso = paso, !.cpu = d]
    <3>1. r.paso = paso
      BY <2>2
    <3>2. manejador' = [manejador EXCEPT ![c] = r]
      BY <2>4
    <3> HIDE DEF r
    <3>3. QED
      BY <3>1, <3>2
  <2>5. QED
    BY <1>2, <2>3, <2>4
<1>4. r.paso \in PASOS_RR /\ (manejador[c].paso \in POSTERGA <=> r.paso \in POSTERGA)
  BY <1>1, <1>3 DEF PASOS_RR, POSTERGA
<1>5. Escrito /\ Quedan
  BY <1>2 DEF Escrito, Quedan
<1>6. QED
  BY <1>2, <1>3, <1>4, <1>5, SigueFichas

\* The process goes on, if nothing stops it.
LEMMA ReanudarFichas == ASSUME InvFichas, NEW c \in CPUS, reanudar_proceso_en_cpu(c) PROVE Fichas'
<1> USE DEF InvFichas, InvLugar
<1>1. manejador[c].paso = "reanudar"
  BY DEF reanudar_proceso_en_cpu, Paso
<1>2. PICK d \in CPUS : manejador[c].cpu = d
  BY <1>1 DEF InvReady, EnLaMano, ConLoSuyo
<1>3. CASE ~cpu[d].control /\ cpu[d].pcb = Nadie
  BY <1>2, <1>3, CaerFichas DEF reanudar_proceso_en_cpu
<1>4. CASE ~(~cpu[d].control /\ cpu[d].pcb = Nadie)
  <2>1. /\ manejador' = [manejador EXCEPT ![c] = Ocioso]
        /\ a_cpu' = ConControl(d, "EJECUTAR_PROCESO", cpu[d].pcb)
        /\ UNCHANGED <<exec_lista, a_plan, planif, compactando, cpu>> /\ UNCHANGED sem
    BY <1>2, <1>4 DEF reanudar_proceso_en_cpu, Seguir, memoria
  <2>2. Escrito
    <3>1. CASE cpu[d].control
      BY <2>1, <3>1 DEF ConControl, Escrito
    <3>2. CASE ~cpu[d].control
      <4>1. PICK p \in PIDS : cpu[d].pcb = p
        BY <1>4, <3>2 DEF InvReady, TypeOK, RegCpu, PidONadie
      <4>2. QED
        BY <2>1, <4>1, ConControlEscrito DEF ORDENES
    <3>3. QED
      BY <3>1, <3>2
  <2>3. /\ Ocioso.paso \in PASOS_RR /\ Quedan
        /\ manejador[c].paso \in POSTERGA <=> Ocioso.paso \in POSTERGA
    BY <1>1, <2>1 DEF Ocioso, PASOS_RR, POSTERGA, Quedan
  <2>4. QED
    BY <2>1, <2>2, <2>3, SigueFichas
<1>5. QED
  BY <1>3, <1>4

\* Whatever process is on that CPU by now is taken out of it, and ends.
LEMMA SacarSinMemoriaFichas == ASSUME InvFichas, NEW c \in CPUS, SacarSinMemoria(c) PROVE Fichas'
<1> USE DEF InvFichas, InvLugar
<1>1. manejador[c].paso = "sacar_pcb"
  BY DEF SacarSinMemoria, Paso
<1>2. PICK d \in CPUS : manejador[c].cpu = d
  BY <1>1 DEF InvReady, EnLaMano, ConLoSuyo
<1>3. CASE cpu[d].pcb = Nadie
  BY <1>2, <1>3, CaerFichas DEF SacarSinMemoria
<1>4. CASE cpu[d].pcb # Nadie
  <2> DEFINE r == [manejador[c] EXCEPT !.paso = "fin_memoria", !.pcb = cpu[d].pcb]
             v == [cpu[d] EXCEPT !.pcb = Nadie]
  <2>1. /\ manejador' = [manejador EXCEPT ![c] = r] /\ cpu' = [cpu EXCEPT ![d] = v]
        /\ UNCHANGED <<exec_lista, a_plan, planif, compactando, a_cpu>> /\ UNCHANGED sem
    BY <1>2, <1>4 DEF SacarSinMemoria, Seguir, memoria
  <2>2. r.paso = "fin_memoria" /\ v.pcb = Nadie
    BY DEF InvReady, TypeOK, RegManejador, RegCpu
  <2> HIDE DEF r, v
  <2>3. Queda(d, Nadie)
    BY <2>1, <2>2, QuedaExcepto
  <2>4. d \in Conectadas
    BY <1>4 DEF Sitios, Enchufadas
  <2>5. r.paso \in PASOS_RR /\ r.paso \in POSTERGA /\ manejador[c].paso \notin POSTERGA
    BY <1>1, <2>2 DEF PASOS_RR, POSTERGA
  <2>6. Cuenta'
    BY <1>4, <2>1, <2>3, <2>4, <2>5, CuentaLibera DEF Fichas
  <2>7. Escrito
    BY <2>1 DEF Escrito
  <2>8. QED
    BY <2>1, <2>5, <2>6, <2>7, FichasPor
<1>5. QED
  BY <1>3, <1>4

\* Kernel Memory answers at once.
LEMMA PedirFichas ==
    ASSUME InvFichas, SinFichasDeMas, NEW c \in CPUS, NEW x \in RESPUESTAS, Pedir(c, x)
    PROVE  Fichas'
<1> USE DEF InvFichas, InvLugar
<1>1. manejador[c].paso = "pedir" /\ x # "COMPACTACION"
  BY DEF Pedir, Paso, Fichas, Tranquila, PASOS_RR, SinFichasDeMas
<1>2. PICK paso \in {"buscar", "buscar_fin"} :
          manejador' = [manejador EXCEPT ![c] = [manejador[c] EXCEPT !.paso = paso]]
  BY <1>1 DEF Pedir, Paso, Seguir
<1> DEFINE r == [manejador[c] EXCEPT !.paso = paso]
<1>3. UNCHANGED <<exec_lista, cpu, a_cpu, a_plan, planif, compactando>> /\ UNCHANGED sem
  BY <1>1 DEF Pedir, Paso, memoria
<1>4. r.paso = paso /\ manejador' = [manejador EXCEPT ![c] = r]
  BY <1>2 DEF InvReady, TypeOK, RegManejador
<1> HIDE DEF r
<1>5. r.paso \in PASOS_RR /\ (manejador[c].paso \in POSTERGA <=> r.paso \in POSTERGA)
  BY <1>1, <1>4 DEF PASOS_RR, POSTERGA
<1>6. Escrito /\ Quedan
  BY <1>3 DEF Escrito, Quedan
<1>7. QED
  BY <1>3, <1>4, <1>5, <1>6, SigueFichas

\* The other steps of a handler are those of SLEEP and of a compaction.
LEMMA ManejadorFichas ==
    ASSUME InvFichas, SinFichasDeMas, NEW c \in CPUS, Manejador(c) PROVE Fichas'
<1>1. manejador[c].paso \in PASOS_RR
  BY DEF InvFichas, Fichas, Tranquila
<1>2. /\ ~enlistar_primero_ready(c) /\ ~LeerPcb(c) /\ ~bloquear_proceso(c) /\ ~PasarABlock(c)
      /\ ~despostear_todas_cpus(c) /\ ~desalojar_por_compactacion(c)
      /\ ~EsperarDesalojos(c) /\ ~CompactacionExitosa(c) /\ ~FinDeCompactacion(c)
  BY <1>1 DEF PASOS_RR, Paso, enlistar_primero_ready, LeerPcb, bloquear_proceso, PasarABlock,
     despostear_todas_cpus, desalojar_por_compactacion, EsperarDesalojos, CompactacionExitosa,
     FinDeCompactacion
<1>3. QED
  BY <1>2, RecepcionFichas, PostesFichas, BuscarFichas, ReanudarFichas, SacarSinMemoriaFichas,
     PedirFichas DEF Manejador

-----------------------------------------------------------------------------
(* The CPUs, the timers and the planner.                                     *)

\* A CPU reads a message, and sends an interruption back.
LEMMA CpuFichas == ASSUME InvFichas, NEW c \in CPUS, Cpu(c) PROVE Fichas'
<1> USE DEF InvFichas, InvLugar
<1> DEFINE m == Head(a_cpu[c])
<1>1. a_cpu[c] # <<>> /\ a_cpu[c] \in Seq(MsjACpu) /\ a_plan[c] \in Seq(MsjAPlan)
  BY DEF Cpu, CpuOciosa, hay_interrupcion, InvReady, TypeOK
<1>2. SinCompactar(a_cpu[c]) /\ SinCompactar(a_plan[c])
  BY DEF Fichas, Tranquila
<1>3. m.tipo # "COMPACTACION" /\ SinCompactar(Tail(a_cpu[c])) /\ m \in MsjACpu
  BY <1>1, <1>2, SinCompactarSigue, HeadTailProperties
<1>4. /\ a_cpu' = [a_cpu EXCEPT ![c] = Tail(@)]
      /\ \/ a_plan' = a_plan
         \/ m.tipo \in INTERRUPCIONES /\ a_plan' = [a_plan EXCEPT ![c] = Append(@, m)]
      /\ UNCHANGED <<exec_lista, cpu, manejador, planif, sem, compactando>>
  BY DEF Cpu, CpuOciosa, hay_interrupcion, EnCpu, memoria
<1>5. m.tipo \in INTERRUPCIONES => m \in MsjAPlan
  BY <1>3 DEF MsjACpu, MsjAPlan
<1> HIDE DEF m
<1>6. m.tipo \in INTERRUPCIONES => SinCompactar(Append(a_plan[c], m))
  BY <1>1, <1>2, <1>3, <1>5, SinCompactarSigue
<1>7. ASSUME NEW x \in CPUS PROVE SinCompactar(a_cpu'[x]) /\ SinCompactar(a_plan'[x])
  BY <1>3, <1>4, <1>6 DEF InvReady, TypeOK, Fichas, Tranquila
<1>8. Quedan /\ (PlanConToken' <=> PlanConToken)
  BY <1>4 DEF Quedan, PlanConToken
<1>9. sem'.cpu + (IF PlanConToken' THEN 1 ELSE 0) = sem.cpu + (IF PlanConToken THEN 1 ELSE 0)
  BY <1>4, <1>8
<1>10. \A x \in CPUS : SinCompactar(a_cpu[x])' /\ SinCompactar(a_plan[x])'
  BY <1>7 DEF SinCompactar
<1>11. QED
  BY <1>4, <1>8, <1>9, <1>10, FichasQuieta

\* The process makes a syscall.
LEMMA SyscallFichas == ASSUME InvFichas, NEW c \in CPUS, Programa(c) PROVE Fichas'
<1> USE DEF InvFichas, InvLugar
<1>1. PICK t \in SYSCALLS : Syscall(c, t)
  BY DEF Programa
<1>2. PICK p \in PIDS : corre[c] = p
  BY <1>1 DEF Syscall, InvReady, TypeOK, PidONadie
<1> DEFINE m == Msj(t, p)
<1>3. m \in MsjAPlan /\ m.tipo # "COMPACTACION"
  BY SupuestosDespacho DEF Msj, MsjAPlan
<1>4. /\ a_plan' = [a_plan EXCEPT ![c] = Append(@, m)] /\ a_cpu' = a_cpu
      /\ UNCHANGED <<exec_lista, cpu, manejador, planif, sem, compactando>>
  BY <1>1, <1>2 DEF Syscall, EnCpu, memoria
<1> HIDE DEF m
<1>5. a_plan[c] \in Seq(MsjAPlan) /\ SinCompactar(a_plan[c])
  BY DEF InvReady, TypeOK, Fichas, Tranquila
<1>6. SinCompactar(Append(a_plan[c], m))
  BY <1>3, <1>5, SinCompactarSigue
<1>7. ASSUME NEW x \in CPUS PROVE SinCompactar(a_cpu'[x]) /\ SinCompactar(a_plan'[x])
  BY <1>4, <1>6 DEF InvReady, TypeOK, Fichas, Tranquila
<1>8. Quedan /\ (PlanConToken' <=> PlanConToken)
  BY <1>4 DEF Quedan, PlanConToken
<1>9. sem'.cpu + (IF PlanConToken' THEN 1 ELSE 0) = sem.cpu + (IF PlanConToken THEN 1 ELSE 0)
  BY <1>4, <1>8
<1>10. \A x \in CPUS : SinCompactar(a_cpu[x])' /\ SinCompactar(a_plan[x])'
  BY <1>7 DEF SinCompactar
<1>11. QED
  BY <1>4, <1>8, <1>9, <1>10, FichasQuieta

\* The scheduler writes to the CPUs and the handlers stay where they are.
LEMMA EscritoQuieto ==
    ASSUME InvFichas, Escrito, UNCHANGED a_plan
    PROVE  \A c \in CPUS : SinCompactar(a_cpu[c])' /\ SinCompactar(a_plan[c])'
<1> USE DEF InvFichas, InvLugar
<1>1. ASSUME NEW c \in CPUS PROVE SinCompactar(a_cpu'[c]) /\ SinCompactar(a_plan'[c])
  <2>1. a_cpu[c] \in Seq(MsjACpu) /\ SinCompactar(a_cpu[c]) /\ SinCompactar(a_plan[c])
    BY DEF InvReady, TypeOK, Fichas, Tranquila
  <2>2. CASE a_cpu'[c] = a_cpu[c]
    BY <2>1, <2>2
  <2>3. ASSUME NEW m \in MsjACpu, m.tipo # "COMPACTACION", a_cpu'[c] = Append(a_cpu[c], m)
        PROVE  SinCompactar(a_cpu'[c])
    BY <2>1, <2>3, SinCompactarSigue
  <2>4. QED
    BY <2>1, <2>2, <2>3 DEF Escrito
<1>2. QED
  BY <1>1 DEF SinCompactar

\* A timer is started, or expires.
LEMMA TimersFichas ==
    ASSUME InvFichas, iniciar_timer_quantum \/ \E c \in CPUS : hilo_timer_quantum(c)
    PROVE  Fichas'
<1> USE DEF InvFichas, InvLugar
<1>1. CASE iniciar_timer_quantum
  <2>1. CASE cpu[planif.cpu].pcb = Nadie
    BY <1>1, <2>1, CaerFichas DEF iniciar_timer_quantum
  <2>2. CASE cpu[planif.cpu].pcb # Nadie
    <3>1. /\ planif.paso = "temporizar" /\ planif'.paso = "esperar_ready"
          /\ UNCHANGED <<exec_lista, cpu, a_cpu, a_plan, manejador, sem, compactando>>
      BY <1>1, <2>2 DEF iniciar_timer_quantum, PlanPaso, EnPlan, memoria
    <3>2. ~PlanConToken /\ ~PlanConToken' /\ Quedan /\ Escrito
      BY <3>1 DEF PlanConToken, Quedan, Escrito
    <3>3. QED
      BY <3>1, <3>2, EscritoQuieto, FichasQuieta
  <2>3. QED
    BY <2>1, <2>2
<1>2. ASSUME NEW c \in CPUS, hilo_timer_quantum(c) PROVE Fichas'
  <2> DEFINE v == [cpu[c] EXCEPT !.control = TRUE]
  <2>1. /\ UNCHANGED <<exec_lista, a_plan, manejador, planif, sem, compactando>>
        /\ temporizador[c] # Nadie
        /\ \/ UNCHANGED <<cpu, a_cpu>>
           \/ /\ cpu[c].pcb = temporizador[c] /\ cpu' = [cpu EXCEPT ![c] = v]
              /\ a_cpu' = ConControl(c, "FINALIZAR_POR_QUANTUM", cpu[c].pcb)
    BY <1>2 DEF hilo_timer_quantum, EnPlan, memoria
  <2>2. v.pcb = cpu[c].pcb
    BY DEF InvReady, TypeOK, RegCpu
  <2> HIDE DEF v
  <2>3. ASSUME UNCHANGED <<cpu, a_cpu>> PROVE Quedan /\ Escrito
    BY <2>3 DEF Quedan, Escrito
  <2>4. ASSUME cpu[c].pcb = temporizador[c], cpu' = [cpu EXCEPT ![c] = v],
               a_cpu' = ConControl(c, "FINALIZAR_POR_QUANTUM", cpu[c].pcb)
        PROVE  Quedan /\ Escrito
    <3>1. PICK p \in PIDS : cpu[c].pcb = p
      BY <2>1, <2>4 DEF InvReady, TypeOK, PidONadie
    <3>2. Quedan
      BY <2>2, <2>4, QuedaExcepto
    <3>3. Escrito
      BY <2>4, <3>1, ConControlEscrito
    <3>4. QED
      BY <3>2, <3>3
  <2>5. Quedan /\ Escrito
    BY <2>1, <2>3, <2>4 DEF Quedan, Escrito
  <2>6. PlanConToken' <=> PlanConToken
    BY <2>1 DEF PlanConToken
  <2>7. sem'.cpu + (IF PlanConToken' THEN 1 ELSE 0) = sem.cpu + (IF PlanConToken THEN 1 ELSE 0)
    BY <2>1, <2>6
  <2>8. QED
    BY <2>1, <2>5, <2>7, EscritoQuieto, FichasQuieta
<1>3. QED
  BY <1>1, <1>2

\* The planner waits, and takes a process from the queue.
LEMMA EsperasFichas ==
    ASSUME InvFichas, \/ EsperarReady \/ EsperarCpu \/ MirarCompactando \/ Despertar
                      \/ desencolar_pcb_ready
    PROVE  Fichas'
<1> USE DEF InvFichas, InvLugar
<1>1. sem \in Sem /\ planif \in RegPlanif
  BY DEF InvReady, TypeOK, Sem
<1>2. ASSUME UNCHANGED <<exec_lista, cpu, a_cpu, a_plan, manejador, compactando>>,
             sem'.cpu + (IF PlanConToken' THEN 1 ELSE 0) = sem.cpu + (IF PlanConToken THEN 1 ELSE 0)
      PROVE  Fichas'
  BY <1>2, EscritoQuieto, FichasQuieta DEF Quedan, Escrito
<1>3. CASE EsperarReady
  <2>1. /\ planif'.paso = "esperar_cpu" /\ planif.paso = "esperar_ready" /\ sem'.cpu = sem.cpu
        /\ UNCHANGED <<exec_lista, cpu, a_cpu, a_plan, manejador, compactando>>
    BY <1>1, <1>3 DEF EsperarReady, PlanPaso, PlanSeguir, EnPlan, memoria, Sem, RegPlanif
  <2>2. ~PlanConToken /\ ~PlanConToken'
    BY <2>1 DEF PlanConToken
  <2>3. QED
    BY <1>2, <2>1, <2>2
<1>4. CASE EsperarCpu
  <2>1. /\ planif'.paso = "mirar" /\ planif.paso = "esperar_cpu" /\ sem.cpu > 0
        /\ sem'.cpu = sem.cpu - 1
        /\ UNCHANGED <<exec_lista, cpu, a_cpu, a_plan, manejador, compactando>>
    BY <1>1, <1>4 DEF EsperarCpu, PlanPaso, PlanSeguir, EnPlan, memoria, Sem, RegPlanif
  <2>2. ~PlanConToken /\ PlanConToken'
    BY <2>1 DEF PlanConToken
  <2>3. sem'.cpu + 1 = sem.cpu + 0
    BY <1>1, <2>1 DEF Sem
  <2>4. sem'.cpu + (IF PlanConToken' THEN 1 ELSE 0) = sem.cpu + (IF PlanConToken THEN 1 ELSE 0)
    BY <2>2, <2>3
  <2>5. QED
    BY <1>2, <2>1, <2>4
<1>5. CASE MirarCompactando
  <2>1. /\ planif'.paso = "desencolar" /\ planif.paso = "mirar" /\ sem' = sem
        /\ UNCHANGED <<exec_lista, cpu, a_cpu, a_plan, manejador, compactando>>
    BY <1>1, <1>5 DEF MirarCompactando, PlanPaso, PlanSeguir, EnPlan, memoria, RegPlanif, Fichas
  <2>2. PlanConToken /\ PlanConToken'
    BY <2>1 DEF PlanConToken
  <2>3. QED
    BY <1>2, <2>1, <2>2
<1>6. CASE Despertar
  <2>1. /\ planif'.paso = "esperar_ready" /\ planif.paso = "dormido" /\ sem' = sem
        /\ UNCHANGED <<exec_lista, cpu, a_cpu, a_plan, manejador, compactando>>
    BY <1>1, <1>6 DEF Despertar, PlanPaso, PlanSeguir, EnPlan, memoria, RegPlanif
  <2>2. ~PlanConToken /\ ~PlanConToken'
    BY <2>1 DEF PlanConToken
  <2>3. QED
    BY <1>2, <2>1, <2>2
<1>7. CASE desencolar_pcb_ready /\ ready = <<>>
  BY <1>7, CaerFichas DEF desencolar_pcb_ready
<1>8. CASE desencolar_pcb_ready /\ ready # <<>>
  <2>1. /\ planif'.paso = "despachar" /\ planif.paso = "desencolar" /\ sem' = sem
        /\ UNCHANGED <<exec_lista, cpu, a_cpu, a_plan, manejador, compactando>>
    BY <1>1, <1>8 DEF desencolar_pcb_ready, PlanPaso, EnPlan, memoria, RegPlanif
  <2>2. PlanConToken /\ PlanConToken'
    BY <2>1 DEF PlanConToken
  <2>3. QED
    BY <1>2, <2>1, <2>2
<1>9. QED
  BY <1>3, <1>4, <1>5, <1>6, <1>7, <1>8

\* The token of the planner is that of a free CPU, so it finds one.
LEMMA DespacharFichas == ASSUME InvFichas, enviar_proceso_a_cpu PROVE Fichas'
<1> USE DEF InvFichas, InvLugar
<1>1. planif.paso = "despachar" /\ PlanConToken
  BY DEF enviar_proceso_a_cpu, PlanPaso, PlanConToken
<1>2. PICK p \in PIDS : planif.pcb = p
  BY <1>1 DEF InvReady, EnLaMano, PlanPaso
<1>4. PICK d \in Conectadas : obtener_cpu_libre = d /\ cpu[d].pcb = Nadie
  BY <1>1, HayLibre DEF Fichas
<1>n. d \in CPUS /\ d # Nadie
  BY <1>4, Finitos, SupuestosDespacho
<1> DEFINE m == Msj("EJECUTAR_PROCESO", p)
           v == [cpu[d] EXCEPT !.pcb = p, !.control = FALSE]
<1>5. /\ cpu' = [cpu EXCEPT ![d] = v] /\ a_cpu' = [a_cpu EXCEPT ![d] = Append(@, m)]
      /\ planif'.paso \in {"esperar_ready", "temporizar"}
      /\ UNCHANGED <<exec_lista, a_plan, manejador, sem, compactando>>
  BY <1>1, <1>2, <1>4, <1>n DEF enviar_proceso_a_cpu, EnPlan, memoria
<1>6. v.pcb = p
  BY <1>n DEF InvReady, TypeOK, RegCpu
<1>7. m \in MsjACpu /\ m.tipo # "COMPACTACION"
  BY DEF Msj, MsjACpu, ORDENES
<1> HIDE DEF m, v
<1>8. Queda(d, p)
  BY <1>5, <1>6, <1>n, QuedaExcepto
<1>9. Escrito
  BY <1>5, <1>7 DEF Escrito, InvReady, TypeOK
<1>10. ~PlanConToken'
  BY <1>5 DEF PlanConToken
<1>11. Cuenta'
  BY <1>1, <1>4, <1>5, <1>8, <1>10, CuentaDespacha DEF Fichas
<1>12. \A c \in CPUS : SinCompactar(a_cpu[c])' /\ SinCompactar(a_plan[c])'
  BY <1>5, <1>9, EscritoQuieto
<1>13. \A c \in CPUS : Tranquila(c)'
  BY <1>5, <1>12 DEF Tranquila, Fichas
<1>14. QED
  BY <1>5, <1>11, <1>13 DEF Fichas

\* A CPU connects.
LEMMA ConectarFichas == ASSUME InvFichas, NEW c \in CPUS, ConectarCpu(c) PROVE Fichas'
<1>1. UNCHANGED <<a_cpu, a_plan, manejador, compactando>>
  BY DEF ConectarCpu, memoria
<1>2. Cuenta'
  BY CuentaConecta DEF InvFichas, Fichas
<1>3. QED
  BY <1>1, <1>2 DEF InvFichas, Fichas, Tranquila

\* SLEEP cannot be asked for, but its thread is there.
LEMMA FinSleepFichas == ASSUME InvFichas, FINALIZAR_SLEEP PROVE Fichas'
<1> USE DEF InvFichas, InvLugar
<1>1. UNCHANGED <<exec_lista, cpu, a_cpu, a_plan, manejador, planif, compactando>>
  BY DEF FINALIZAR_SLEEP, memoria
<1>2. sem'.cpu = sem.cpu
  BY DEF FINALIZAR_SLEEP, InvReady, TypeOK
<1>3. (PlanConToken' <=> PlanConToken) /\ Quedan /\ Escrito
  BY <1>1 DEF PlanConToken, Quedan, Escrito
<1>4. sem'.cpu + (IF PlanConToken' THEN 1 ELSE 0) = sem.cpu + (IF PlanConToken THEN 1 ELSE 0)
  BY <1>2, <1>3
<1>5. QED
  BY <1>1, <1>3, <1>4, EscritoQuieto, FichasQuieta

\* At the start no CPU is connected.
LEMMA InicioFichas == ASSUME Init PROVE Fichas
<1>1. /\ \A c \in CPUS : /\ cpu[c] = CpuNueva /\ a_cpu[c] = <<>> /\ a_plan[c] = <<>>
                         /\ manejador[c] = Ocioso
      /\ planif.paso = "esperar_ready" /\ sem.cpu = 0 /\ exec_lista = <<>>
      /\ compactando = FALSE
  BY DEF Init
<1>2. SinCompactar(<<>>) /\ Ocioso.paso = "recibir"
  BY DEF SinCompactar, Ocioso
<1>3. \A c \in CPUS : Tranquila(c)
  BY <1>1, <1>2 DEF Tranquila, PASOS_RR
<1>4. Libres = {} /\ PorPostear = {} /\ ~PlanConToken
  BY <1>1, <1>2 DEF Libres, Conectadas, PorPostear, PlanConToken
<1>5. Cuenta
  BY <1>1, <1>4, FS_EmptySet DEF Cuenta
<1>6. QED
  BY <1>1, <1>3, <1>5 DEF Fichas

\* Every step keeps the invariant.
LEMMA PasoFichas == ASSUME InvFichas, SinFichasDeMas, [Next]_vars PROVE InvFichas'
<1>1. InvLugar'
  BY PasoLugar DEF InvFichas
<1>2. CASE planificador
  BY <1>1, <1>2, EsperasFichas, DespacharFichas, TimersFichas DEF planificador, InvFichas
<1>3. CASE FINALIZAR_SLEEP
  BY <1>1, <1>3, FinSleepFichas DEF InvFichas
<1>4. ASSUME NEW c \in CPUS,
             \/ ConectarCpu(c)
             \/ Cpu(c)
             \/ Programa(c)
             \/ Manejador(c)
             \/ hilo_timer_quantum(c)
      PROVE  Fichas'
  BY <1>4, ConectarFichas, CpuFichas, SyscallFichas, ManejadorFichas, TimersFichas
<1>5. CASE UNCHANGED vars
  <2>1. UNCHANGED <<exec_lista, cpu, a_cpu, a_plan, manejador, planif, sem, compactando>>
    BY <1>5 DEF vars, memoria
  <2>2. Fichas'
    BY <2>1 DEF InvFichas, Fichas, Tranquila, Cuenta, PlanConToken, PorPostear, Libres, Conectadas
  <2>3. QED
    BY <1>1, <2>2 DEF InvFichas
<1>6. QED
  BY <1>1, <1>2, <1>3, <1>4, <1>5 DEF Next, InvFichas

\* With the quantum, without SLEEP and compactions, the semaphore of free CPUs
\* counts them whatever the interruptions do.
THEOREM FichasSiempre == ASSUME SinFichasDeMas PROVE Spec => []InvFichas
<1>1. Init => InvFichas
  BY InicioLugar, InicioFichas DEF InvFichas
<1>2. InvFichas /\ [Next]_vars => InvFichas'
  BY PasoFichas
<1>3. QED
  BY <1>1, <1>2, PTL DEF Spec

\* sem_hay_cpu_libre counts the free CPUs as long as no compaction takes tokens
\* and no SLEEP meets the quantum.
THEOREM CpuContada == ASSUME SinDesalojo \/ SinFichasDeMas PROVE Spec => []TokensDeCpu
<1>1. CASE SinDesalojo
  <2>1. InvFifo => TokensDeCpu
    BY DEF InvFifo, Fifo, Cuenta, TokensDeCpu
  <2>2. Spec => []InvFifo
    BY <1>1, FifoSiempre
  <2>3. QED
    BY <2>1, <2>2, PTL
<1>2. CASE SinFichasDeMas
  <2>1. InvFichas => TokensDeCpu
    BY DEF InvFichas, Fichas, Cuenta, TokensDeCpu
  <2>2. Spec => []InvFichas
    BY <1>2, FichasSiempre
  <2>3. QED
    BY <2>1, <2>2, PTL
<1>3. QED
  BY <1>1, <1>2

-----------------------------------------------------------------------------
(* A compaction, its notices and their answers.  With FIFO and without SLEEP *)
(* a process leaves its CPU only to end or because it answers a compaction:  *)
(* a notice that travels is for the process of its CPU, or for one that is   *)
(* ending.  Then the answer finds the CPU it came from, and each of the      *)
(* semaphore's posts is that of one CPU the compaction is waiting for.       *)

SinCruces == ALGORITMO = "FIFO" /\ "SLEEP" \notin SYSCALLS

\* A socket of a CPU whose esperando_ack is ack: it carries at most one notice,
\* of a process of the set, and no end of quantum.
Avisos(s) == {i \in DOMAIN s : s[i].tipo = "COMPACTACION"}
Sano(s, ack, pids) ==
    /\ \A i \in Avisos(s) : ack /\ s[i].pid \in pids
    /\ \A i, j \in Avisos(s) : i = j
    /\ \A i \in DOMAIN s : s[i].tipo # "FINALIZAR_POR_QUANTUM"
\* The two sockets of a CPU: the notice or its answer.
Canal(s, t, ack, pids) ==
    Sano(s, ack, pids) /\ Sano(t, ack, pids) /\ (Avisos(s) = {} \/ Avisos(t) = {})

\* The process is ending: it is on no CPU and never will be.
Termina(p) == vida[p] = "fin" \/ EnMano(p, FIN)
\* The processes that a notice to c may be for.
Vale(c) == {p \in PIDS : cpu[c].pcb = p \/ Termina(p)}

\* A compaction under way owns mutex_socket_memory, and no handler is at the
\* steps of SLEEP or of the end of a quantum.
CON_SOCKET == {"medir", "bajar", "desalojar", "esperar", "compactar"}
PASOS_FIFO == PASOS \ {"encolar", "leer_pcb", "bloquear", "a_block", "dormir"}
Turno == \A c \in CPUS : manejador[c].paso \in CON_SOCKET => mutex_socket = c

\* The answers the compaction waits for: those posted, those about to be posted
\* and those that did not arrive.
Adeudan == {c \in CPUS : manejador[c].paso = "enlistar_primero"}
Avisadas == {c \in CPUS : cpu[c].ack}
Faltan == IF mutex_socket # Nadie /\ manejador[mutex_socket].paso = "esperar"
          THEN manejador[mutex_socket].faltan ELSE 0
CuentaAcks == sem.desalojo + Cardinality(Adeudan) + Cardinality(Avisadas) = Faltan

Canales == \A c \in CPUS : Canal(a_cpu[c], a_plan[c], cpu[c].ack, Vale(c))
Puesto(c) == /\ manejador[c].paso \in PASOS_FIFO /\ temporizador[c] = Nadie
             /\ cpu[c].ack => c \in Conectadas
Acks == /\ Canales /\ Turno /\ CuentaAcks
        /\ \A c \in CPUS : Puesto(c)
        /\ planif.paso # "temporizar"
InvAcks == InvLugar /\ Acks

-----------------------------------------------------------------------------
(* What a socket carries after a message is read, or written.                *)

LEMMA ColaLee ==
    ASSUME NEW M, NEW s \in Seq(M), s # <<>>
    PROVE  /\ Len(s) \in Nat \ {0} /\ DOMAIN s = 1..Len(s)
           /\ DOMAIN Tail(s) = 1..(Len(s) - 1)
           /\ \A i \in 1..(Len(s) - 1) : Tail(s)[i] = s[i + 1]
           /\ Head(s) = s[1] /\ Head(s) \in M /\ Tail(s) \in Seq(M)
  BY LenProperties, HeadTailProperties, EmptySeq

LEMMA ColaEscribe ==
    ASSUME NEW M, NEW s \in Seq(M), NEW m \in M
    PROVE  /\ Len(s) \in Nat /\ DOMAIN s = 1..Len(s)
           /\ DOMAIN Append(s, m) = 1..(Len(s) + 1)
           /\ \A i \in 1..Len(s) : Append(s, m)[i] = s[i]
           /\ Append(s, m)[Len(s) + 1] = m
  BY LenProperties, AppendProperties

\* The first message is read: if it was the notice, no other is left.
LEMMA SanoLee ==
    ASSUME NEW M, NEW s \in Seq(M), s # <<>>, NEW ack, NEW pids, Sano(s, ack, pids)
    PROVE  /\ Sano(Tail(s), ack, pids)
           /\ Avisos(s) = {} => Avisos(Tail(s)) = {} /\ Head(s).tipo # "COMPACTACION"
           /\ Head(s).tipo = "COMPACTACION" =>
                 Avisos(s) # {} /\ Avisos(Tail(s)) = {} /\ ack /\ Head(s).pid \in pids
           /\ Head(s).tipo # "FINALIZAR_POR_QUANTUM"
<1>1. /\ Len(s) \in Nat \ {0} /\ DOMAIN s = 1..Len(s)
      /\ DOMAIN Tail(s) = 1..(Len(s) - 1)
      /\ \A i \in 1..(Len(s) - 1) : Tail(s)[i] = s[i + 1]
      /\ Head(s) = s[1]
  BY ColaLee
<1>2. ASSUME NEW i \in Avisos(Tail(s)) PROVE i \in Int /\ i > 0 /\ i + 1 \in Avisos(s) /\ s[i + 1] = Tail(s)[i]
  BY <1>1 DEF Avisos
<1>3. Head(s).tipo = "COMPACTACION" => 1 \in Avisos(s)
  BY <1>1 DEF Avisos
<1>4. Sano(Tail(s), ack, pids)
  <2>1. \A i \in Avisos(Tail(s)) : ack /\ Tail(s)[i].pid \in pids
    BY <1>2 DEF Sano
  <2>2. ASSUME NEW i \in Avisos(Tail(s)), NEW j \in Avisos(Tail(s)) PROVE i = j
    <3>1. i + 1 = j + 1 /\ i \in Int /\ j \in Int
      BY <1>2 DEF Sano
    <3>2. QED
      BY <3>1
  <2>3. \A i \in DOMAIN Tail(s) : Tail(s)[i].tipo # "FINALIZAR_POR_QUANTUM"
    BY <1>1 DEF Sano
  <2>4. QED
    BY <2>1, <2>2, <2>3 DEF Sano
<1>5. Avisos(s) = {} => Avisos(Tail(s)) = {} /\ Head(s).tipo # "COMPACTACION"
  BY <1>2, <1>3
<1>6. ASSUME Head(s).tipo = "COMPACTACION"
      PROVE  Avisos(s) # {} /\ Avisos(Tail(s)) = {} /\ ack /\ Head(s).pid \in pids
  <2>1. 1 \in Avisos(s) /\ ack /\ Head(s).pid \in pids
    BY <1>1, <1>3, <1>6 DEF Sano
  <2>2. ASSUME NEW i \in Avisos(Tail(s)) PROVE FALSE
    <3>1. i + 1 = 1 /\ i \in Int /\ i > 0
      BY <1>2, <2>1 DEF Sano
    <3>2. QED
      BY <3>1
  <2>3. QED
    BY <2>1, <2>2
<1>7. Head(s).tipo # "FINALIZAR_POR_QUANTUM"
  BY <1>1 DEF Sano
<1>8. QED
  BY <1>4, <1>5, <1>6, <1>7

\* An order, or a syscall, is written.
LEMMA SanoEscribe ==
    ASSUME NEW M, NEW s \in Seq(M), NEW m \in M, m.tipo \notin INTERRUPCIONES,
           NEW ack, NEW pids, Sano(s, ack, pids)
    PROVE  Sano(Append(s, m), ack, pids) /\ Avisos(Append(s, m)) = Avisos(s)
<1>1. /\ Len(s) \in Nat /\ DOMAIN s = 1..Len(s)
      /\ DOMAIN Append(s, m) = 1..(Len(s) + 1)
      /\ \A i \in 1..Len(s) : Append(s, m)[i] = s[i]
      /\ Append(s, m)[Len(s) + 1] = m
  BY ColaEscribe
<1>2. m.tipo # "COMPACTACION" /\ m.tipo # "FINALIZAR_POR_QUANTUM"
  BY DEF INTERRUPCIONES
<1>3. Avisos(Append(s, m)) = Avisos(s) /\ \A i \in Avisos(s) : Append(s, m)[i] = s[i]
  BY <1>1, <1>2 DEF Avisos
<1>4. \A i \in DOMAIN Append(s, m) : Append(s, m)[i].tipo # "FINALIZAR_POR_QUANTUM"
  BY <1>1, <1>2 DEF Sano
<1>5. QED
  BY <1>3, <1>4 DEF Sano

\* A notice is written where there was none.
LEMMA SanoAvisa ==
    ASSUME NEW M, NEW s \in Seq(M), NEW m \in M, m.tipo = "COMPACTACION",
           NEW ack, NEW pids, Sano(s, ack, pids), Avisos(s) = {}, NEW despues, m.pid \in despues
    PROVE  Sano(Append(s, m), TRUE, despues)
<1>1. /\ Len(s) \in Nat /\ DOMAIN s = 1..Len(s)
      /\ DOMAIN Append(s, m) = 1..(Len(s) + 1)
      /\ \A i \in 1..Len(s) : Append(s, m)[i] = s[i]
      /\ Append(s, m)[Len(s) + 1] = m
  BY ColaEscribe
<1>2. \A i \in 1..Len(s) : s[i].tipo # "COMPACTACION" /\ s[i].tipo # "FINALIZAR_POR_QUANTUM"
  BY <1>1 DEF Avisos, Sano
<1>3. Avisos(Append(s, m)) = {Len(s) + 1}
  BY <1>1, <1>2 DEF Avisos
<1>4. \A i \in DOMAIN Append(s, m) : Append(s, m)[i].tipo # "FINALIZAR_POR_QUANTUM"
  BY <1>1, <1>2
<1>5. QED
  BY <1>1, <1>3, <1>4 DEF Sano

\* A socket without notices is sane whatever the CPU waits for.
LEMMA SanoSinAvisos ==
    ASSUME NEW s, NEW ack, NEW pids, Sano(s, ack, pids), Avisos(s) = {}, NEW otro, NEW otros
    PROVE  Sano(s, otro, otros)
  BY DEF Sano

LEMMA SanoCrece ==
    ASSUME NEW s, NEW ack, NEW pids, Sano(s, ack, pids), NEW otros, pids \subseteq otros
    PROVE  Sano(s, ack, otros)
  BY DEF Sano

-----------------------------------------------------------------------------
(* What a step keeps.                                                        *)

\* The scheduler writes orders to the CPUs, and reads from them.
Ordenes ==
    \A c \in CPUS : \/ a_cpu'[c] = a_cpu[c]
                    \/ \E m \in MsjACpu : m.tipo \notin INTERRUPCIONES /\ a_cpu'[c] = Append(a_cpu[c], m)
Lecturas ==
    \A c \in CPUS : a_plan'[c] = a_plan[c] \/ (a_plan[c] # <<>> /\ a_plan'[c] = Tail(a_plan[c]))
MismosAcks == \A c \in CPUS : cpu'[c].ack = cpu[c].ack
\* What a notice says of a process goes on being true.
Valen == \A c \in CPUS : Vale(c) \subseteq Vale(c)'

LEMMA CanalesSiguen ==
    ASSUME InvReady, Canales, Ordenes, Lecturas, MismosAcks, Valen PROVE Canales'
<1>1. ASSUME NEW c \in CPUS PROVE Canal(a_cpu[c], a_plan[c], cpu[c].ack, Vale(c))'
  <2> DEFINE V == Vale(c)
             W == Vale(c)'
             s == a_cpu[c]
             t == a_plan[c]
             s1 == a_cpu'[c]
             t1 == a_plan'[c]
             k == cpu[c].ack
  <2>1. /\ s \in Seq(MsjACpu) /\ t \in Seq(MsjAPlan) /\ cpu'[c].ack = k /\ V \subseteq W
        /\ Sano(s, k, V) /\ Sano(t, k, V) /\ (Avisos(s) = {} \/ Avisos(t) = {})
    BY DEF InvReady, TypeOK, Canales, Canal, MismosAcks, Valen
  <2>2. \/ s1 = s
        \/ \E m \in MsjACpu : m.tipo \notin INTERRUPCIONES /\ s1 = Append(s, m)
    BY DEF Ordenes
  <2>3. t1 = t \/ (t # <<>> /\ t1 = Tail(t))
    BY DEF Lecturas
  <2> HIDE DEF V, W, s, t, s1, t1, k
  <2>4. Sano(s1, k, V) /\ Avisos(s1) = Avisos(s)
    <3>1. ASSUME NEW m \in MsjACpu, m.tipo \notin INTERRUPCIONES, s1 = Append(s, m)
          PROVE  Sano(s1, k, V) /\ Avisos(s1) = Avisos(s)
      <4>1. s \in Seq(MsjACpu) /\ Sano(s, k, V)
        BY <2>1
      <4>2. Sano(Append(s, m), k, V) /\ Avisos(Append(s, m)) = Avisos(s)
        BY <3>1, <4>1, SanoEscribe
      <4>3. QED
        BY <3>1, <4>2
    <3>2. QED
      BY <2>1, <2>2, <3>1
  <2>5. Sano(t1, k, V) /\ (Avisos(t) = {} => Avisos(t1) = {})
    BY <2>1, <2>3, SanoLee
  <2>6. Sano(s1, k, W) /\ Sano(t1, k, W)
    BY <2>1, <2>4, <2>5, SanoCrece
  <2>7. Canal(s1, t1, k, W)
    BY <2>1, <2>4, <2>5, <2>6 DEF Canal
  <2>8. QED
    BY <2>1, <2>7 DEF W, s1, t1, k
<1>2. QED
  BY <1>1 DEF Canales

\* A process stays on its CPU, or ends, and what ended does not come back.
LEMMA ValenSi ==
    ASSUME \A p \in PIDS : vida[p] = "fin" => vida'[p] = "fin",
           \A p \in PIDS : EnMano(p, FIN) => Termina(p)',
           \A c \in CPUS : \A p \in PIDS : cpu[c].pcb = p => cpu'[c].pcb = p \/ Termina(p)'
    PROVE  Valen
<1>1. \A p \in PIDS : Termina(p) => Termina(p)'
  BY DEF Termina
<1>2. QED
  BY <1>1 DEF Valen, Vale

\* A handler goes on, and keeps the process that it is ending.
LEMMA TerminanSiguen ==
    ASSUME InvReady, NEW c \in CPUS, NEW r, manejador' = [manejador EXCEPT ![c] = r],
           manejador[c].paso \in FIN => r.paso \in FIN /\ r.pcb = manejador[c].pcb
    PROVE  \A p \in PIDS : EnMano(p, FIN) => EnMano(p, FIN)' /\ Termina(p)'
<1>1. \A x \in CPUS : manejador'[x] = IF x = c THEN r ELSE manejador[x]
  BY DEF InvReady, TypeOK
<1>2. QED
  BY <1>1 DEF EnMano, Termina

\* The processes stay where they are.
LEMMA ValenIgual ==
    ASSUME InvReady, NEW c \in CPUS, NEW r, manejador' = [manejador EXCEPT ![c] = r],
           manejador[c].paso \in FIN => r.paso \in FIN /\ r.pcb = manejador[c].pcb,
           \A p \in PIDS : vida[p] = "fin" => vida'[p] = "fin", Quedan
    PROVE  Valen
<1>1. \A p \in PIDS : EnMano(p, FIN) => Termina(p)'
  BY TerminanSiguen
<1>2. \A x \in CPUS : \A p \in PIDS : cpu[x].pcb = p => cpu'[x].pcb = p \/ Termina(p)'
  BY DEF Quedan
<1>3. QED
  BY <1>1, <1>2, ValenSi

\* The sets that are counted are finite.
LEMMA AcksFinitos ==
    ASSUME InvReady
    PROVE  /\ IsFiniteSet(Adeudan) /\ Cardinality(Adeudan) \in Nat
           /\ IsFiniteSet(Avisadas) /\ Cardinality(Avisadas) \in Nat
           /\ sem.desalojo \in Nat /\ Faltan \in Nat
<1>1. Adeudan \subseteq CPUS /\ Avisadas \subseteq CPUS
  BY DEF Adeudan, Avisadas
<1>2. IsFiniteSet(Adeudan) /\ IsFiniteSet(Avisadas)
  BY <1>1, FS_Subset, SupuestosDespacho
<1>3. mutex_socket # Nadie => manejador[mutex_socket].faltan \in Nat
  BY DEF InvReady, TypeOK, RegManejador, CpuONadie
<1>4. QED
  BY <1>2, <1>3, FS_CardinalityType DEF InvReady, TypeOK, Faltan

\* A handler goes on: it is the only one that begins, or stops, owing a post.
LEMMA AdeudanCon ==
    ASSUME InvReady, NEW c \in CPUS, NEW r, manejador' = [manejador EXCEPT ![c] = r]
    PROVE  /\ r.paso = "enlistar_primero" => Adeudan' = Adeudan \cup {c}
           /\ r.paso # "enlistar_primero" => Adeudan' = Adeudan \ {c}
           /\ c \in Adeudan <=> manejador[c].paso = "enlistar_primero"
<1>1. \A x \in CPUS : manejador'[x] = IF x = c THEN r ELSE manejador[x]
  BY DEF InvReady, TypeOK
<1>2. QED
  BY <1>1 DEF Adeudan

\* The steps of a handler that do not count.
LEMMA CuentaAcksSigue ==
    ASSUME InvReady, CuentaAcks, NEW c \in CPUS, NEW r, manejador' = [manejador EXCEPT ![c] = r],
           manejador[c].paso # "enlistar_primero", r.paso # "enlistar_primero",
           MismosAcks, sem'.desalojo = sem.desalojo, Faltan' = Faltan
    PROVE  CuentaAcks'
<1>1. /\ r.paso # "enlistar_primero" => Adeudan' = Adeudan \ {c}
      /\ c \in Adeudan <=> manejador[c].paso = "enlistar_primero"
  BY AdeudanCon
<1>2. Adeudan' = Adeudan
  BY <1>1
<1>3. Avisadas' = Avisadas
  BY DEF Avisadas, MismosAcks
<1>4. QED
  BY <1>2, <1>3 DEF CuentaAcks

\* mutex_socket_memory stays with its owner, or c takes it or gives it back.
Cede(c) == mutex_socket' = mutex_socket \/ {mutex_socket, mutex_socket'} \subseteq {Nadie, c}

\* A handler that was not waiting and does not begin to wait.
LEMMA FaltanIgual ==
    ASSUME InvReady, NEW c \in CPUS, NEW r, manejador' = [manejador EXCEPT ![c] = r],
           manejador[c].paso # "esperar", r.paso # "esperar", Cede(c)
    PROVE  Faltan' = Faltan
<1>1. \A x \in CPUS : manejador'[x] = IF x = c THEN r ELSE manejador[x]
  BY DEF InvReady, TypeOK
<1>2. mutex_socket \in CPUS \cup {Nadie}
  BY DEF InvReady, TypeOK, CpuONadie
<1>3. CASE mutex_socket' = mutex_socket
  BY <1>1, <1>2, <1>3 DEF Faltan
<1>4. CASE {mutex_socket, mutex_socket'} \subseteq {Nadie, c}
  <2>1. Faltan = 0
    BY <1>4 DEF Faltan
  <2>2. Faltan' = 0
    BY <1>1, <1>4 DEF Faltan
  <2>3. QED
    BY <2>1, <2>2
<1>5. QED
  BY <1>3, <1>4 DEF Cede

\* The handler that is in a compaction is the owner of the mutex.
LEMMA TurnoSigue ==
    ASSUME InvReady, Turno, NEW c \in CPUS, NEW r, manejador' = [manejador EXCEPT ![c] = r],
           r.paso \in CON_SOCKET => mutex_socket' = c, Cede(c)
    PROVE  Turno'
<1>1. \A x \in CPUS : manejador'[x] = IF x = c THEN r ELSE manejador[x]
  BY DEF InvReady, TypeOK
<1>2. ASSUME NEW x \in CPUS, manejador'[x].paso \in CON_SOCKET PROVE mutex_socket' = x
  <2>1. CASE x = c
    BY <1>1, <1>2, <2>1
  <2>2. CASE x # c
    <3>1. mutex_socket = x /\ x # Nadie
      BY <1>1, <1>2, <2>2, SupuestosDespacho DEF Turno
    <3>2. QED
      BY <2>2, <3>1 DEF Cede
  <2>3. QED
    BY <2>1, <2>2
<1>3. QED
  BY <1>2 DEF Turno

\* A step of a handler, whatever it does to the count.
LEMMA AcksPor ==
    ASSUME InvAcks, NEW c \in CPUS, NEW r, manejador' = [manejador EXCEPT ![c] = r],
           r.paso \in PASOS_FIFO, r.paso \in CON_SOCKET => mutex_socket' = c, Cede(c),
           UNCHANGED <<exec_lista, temporizador, planif>>,
           \A x \in CPUS : cpu'[x].ack => cpu[x].ack \/ x \in Conectadas,
           Canales', CuentaAcks'
    PROVE  Acks'
<1> USE DEF InvAcks, InvLugar
<1>1. Turno'
  BY TurnoSigue DEF Acks
<1>2. \A x \in CPUS : manejador'[x] = IF x = c THEN r ELSE manejador[x]
  BY DEF InvReady, TypeOK
<1>3. Conectadas' = Conectadas
  BY DEF Conectadas
<1>4. \A x \in CPUS : Puesto(x)'
  BY <1>2, <1>3 DEF Acks, Puesto
<1>5. QED
  BY <1>1, <1>4 DEF Acks

\* A step of a handler that is not about the answers.
LEMMA SigueAcks ==
    ASSUME InvAcks, NEW c \in CPUS, NEW r, manejador' = [manejador EXCEPT ![c] = r],
           r.paso \in PASOS_FIFO \ {"esperar", "enlistar_primero"},
           manejador[c].paso \notin {"esperar", "enlistar_primero"},
           r.paso \in CON_SOCKET => mutex_socket' = c, Cede(c),
           UNCHANGED <<exec_lista, temporizador, planif>>, sem'.desalojo = sem.desalojo,
           Ordenes, Lecturas, MismosAcks, Valen
    PROVE  Acks'
<1> USE DEF InvAcks, InvLugar, Acks
<1>1. Canales'
  BY CanalesSiguen
<1>2. Faltan' = Faltan
  BY FaltanIgual
<1>3. CuentaAcks'
  BY <1>2, CuentaAcksSigue
<1>4. QED
  BY <1>1, <1>3, AcksPor DEF MismosAcks

\* The steps of the others.
LEMMA AcksQuieta ==
    ASSUME InvAcks, UNCHANGED <<manejador, exec_lista, temporizador, mutex_socket>>,
           planif'.paso # "temporizar", sem'.desalojo = sem.desalojo, MismosAcks, Canales'
    PROVE  Acks'
<1> USE DEF InvAcks, Acks
<1>1. Turno' /\ Faltan' = Faltan /\ Adeudan' = Adeudan /\ Avisadas' = Avisadas
  BY DEF Turno, Faltan, Adeudan, Avisadas, MismosAcks
<1>2. CuentaAcks'
  BY <1>1 DEF CuentaAcks
<1>3. \A x \in CPUS : Puesto(x)'
  BY DEF Puesto, MismosAcks, Conectadas
<1>4. QED
  BY <1>1, <1>2, <1>3

-----------------------------------------------------------------------------
(* The CPUs, the planner and the device.                                     *)

\* The processes, the CPUs and the handlers stay where they are.
LEMMA AcksIgual ==
    ASSUME InvAcks, UNCHANGED <<exec_lista, cpu, a_cpu, a_plan, manejador, temporizador, vida,
                                mutex_socket>>,
           planif'.paso # "temporizar", sem'.desalojo = sem.desalojo
    PROVE  Acks'
<1>1. Valen /\ Ordenes /\ Lecturas /\ MismosAcks
  BY DEF Valen, Vale, Termina, EnMano, Ordenes, Lecturas, MismosAcks
<1>2. Canales'
  BY <1>1, CanalesSiguen DEF InvAcks, InvLugar, Acks
<1>3. QED
  BY <1>1, <1>2, AcksQuieta

\* A NULL read.
LEMMA CaerAcks == ASSUME InvAcks, NEW m, Caer(m) PROVE Acks'
  BY AcksIgual DEF Caer, memoria, InvAcks, Acks

\* A notice, or an order, is read; a notice is answered on the other socket.
LEMMA CpuAcks == ASSUME InvAcks, NEW c \in CPUS, Cpu(c) PROVE Acks'
<1> USE DEF InvAcks, InvLugar
<1> DEFINE m == Head(a_cpu[c])
           s == a_cpu[c]
           t == a_plan[c]
           k == cpu[c].ack
           V == Vale(c)
<1>1. /\ s # <<>> /\ a_cpu' = [a_cpu EXCEPT ![c] = Tail(@)]
      /\ \/ a_plan' = a_plan
         \/ m.tipo \in INTERRUPCIONES /\ a_plan' = [a_plan EXCEPT ![c] = Append(@, m)]
      /\ UNCHANGED <<exec_lista, cpu, manejador, planif, sem, temporizador, vida, mutex_socket>>
  BY DEF Cpu, CpuOciosa, hay_interrupcion, EnCpu, memoria
<1>2. \A x \in CPUS : Vale(x)' = Vale(x)
  BY <1>1 DEF Vale, Termina, EnMano
<1>3. /\ s \in Seq(MsjACpu) /\ t \in Seq(MsjAPlan)
      /\ Sano(s, k, V) /\ Sano(t, k, V) /\ (Avisos(s) = {} \/ Avisos(t) = {})
  BY DEF InvReady, TypeOK, Acks, Canales, Canal
<1>4. m \in MsjACpu /\ Tail(s) \in Seq(MsjACpu)
  BY <1>1, <1>3, ColaLee
<1>5. /\ Sano(Tail(s), k, V)
      /\ Avisos(s) = {} => Avisos(Tail(s)) = {} /\ m.tipo # "COMPACTACION"
      /\ m.tipo = "COMPACTACION" => Avisos(s) # {} /\ Avisos(Tail(s)) = {} /\ k /\ m.pid \in V
      /\ m.tipo # "FINALIZAR_POR_QUANTUM"
  <2> HIDE DEF m, s, t, k, V
  <2>1. /\ Sano(Tail(s), k, V)
        /\ Avisos(s) = {} => Avisos(Tail(s)) = {} /\ Head(s).tipo # "COMPACTACION"
        /\ Head(s).tipo = "COMPACTACION" =>
              Avisos(s) # {} /\ Avisos(Tail(s)) = {} /\ k /\ Head(s).pid \in V
        /\ Head(s).tipo # "FINALIZAR_POR_QUANTUM"
    BY <1>1, <1>3, SanoLee
  <2>2. QED
    BY <2>1 DEF m, s
<1>6. m.tipo \in INTERRUPCIONES => m \in MsjAPlan /\ m.tipo = "COMPACTACION"
  BY <1>4, <1>5 DEF MsjACpu, MsjAPlan, INTERRUPCIONES
<1>7. Canal(a_cpu'[c], a_plan'[c], k, V)
  <2>1. CASE a_plan' = a_plan
    <3>1. a_cpu'[c] = Tail(s) /\ a_plan'[c] = t
      BY <1>1, <2>1 DEF InvReady, TypeOK
    <3>2. QED
      BY <1>3, <1>5, <3>1 DEF Canal
  <2>2. CASE m.tipo \in INTERRUPCIONES /\ a_plan' = [a_plan EXCEPT ![c] = Append(@, m)]
    <3>1. a_cpu'[c] = Tail(s) /\ a_plan'[c] = Append(t, m)
      BY <1>1, <2>2 DEF InvReady, TypeOK
    <3>2. m \in MsjAPlan /\ m.tipo = "COMPACTACION" /\ Avisos(Tail(s)) = {} /\ Avisos(t) = {}
          /\ m.pid \in V /\ k
      BY <1>3, <1>5, <1>6, <2>2
    <3>3. t \in Seq(MsjAPlan) /\ Sano(t, k, V) /\ Sano(Tail(s), TRUE, V)
      BY <1>3, <1>5, <3>2 DEF Sano
    <3> HIDE DEF m, s, t, V, k
    <3>4. Sano(Append(t, m), TRUE, V)
      BY <3>2, <3>3, SanoAvisa
    <3>5. k = TRUE
      BY <3>2, <1>1 DEF InvReady, TypeOK, RegCpu, k
    <3>6. QED
      BY <3>1, <3>2, <3>3, <3>4, <3>5 DEF Canal
  <2>3. QED
    BY <1>1, <2>1, <2>2
<1>8. ASSUME NEW x \in CPUS PROVE Canal(a_cpu[x], a_plan[x], cpu[x].ack, Vale(x))'
  <2>1. CASE x = c
    <3>1. cpu'[x].ack = k /\ Vale(x)' = V
      BY <1>1, <1>2, <2>1
    <3>2. QED
      BY <1>7, <2>1, <3>1
  <2>2. CASE x # c
    <3>1. a_cpu'[x] = a_cpu[x] /\ a_plan'[x] = a_plan[x] /\ cpu'[x] = cpu[x] /\ Vale(x)' = Vale(x)
      BY <1>1, <1>2, <2>2 DEF InvReady, TypeOK
    <3>2. Canal(a_cpu[x], a_plan[x], cpu[x].ack, Vale(x))
      BY DEF Acks, Canales
    <3>3. QED
      BY <3>1, <3>2
  <2>3. QED
    BY <2>1, <2>2
<1>9. Canales'
  BY <1>8 DEF Canales
<1>10. planif'.paso # "temporizar" /\ MismosAcks
  BY <1>1 DEF Acks, MismosAcks
<1>11. QED
  BY <1>1, <1>9, <1>10, AcksQuieta

\* A syscall.
LEMMA SyscallAcks == ASSUME InvAcks, NEW c \in CPUS, Programa(c) PROVE Acks'
<1> USE DEF InvAcks, InvLugar
<1>1. PICK z \in SYSCALLS : Syscall(c, z)
  BY DEF Programa
<1>2. PICK p \in PIDS : corre[c] = p
  BY <1>1 DEF Syscall, InvReady, TypeOK, PidONadie
<1> DEFINE m == Msj(z, p)
           t == a_plan[c]
           k == cpu[c].ack
           V == Vale(c)
<1>3. m \in MsjAPlan /\ m.tipo \notin INTERRUPCIONES
  BY SupuestosDespacho DEF Msj, MsjAPlan, INTERRUPCIONES
<1>4. /\ a_plan' = [a_plan EXCEPT ![c] = Append(@, m)] /\ a_cpu' = a_cpu
      /\ UNCHANGED <<exec_lista, cpu, manejador, planif, sem, temporizador, vida, mutex_socket>>
  BY <1>1, <1>2 DEF Syscall, EnCpu, memoria
<1>5. \A x \in CPUS : Vale(x)' = Vale(x)
  BY <1>4 DEF Vale, Termina, EnMano
<1>6. /\ t \in Seq(MsjAPlan)
      /\ Sano(a_cpu[c], k, V) /\ Sano(t, k, V) /\ (Avisos(a_cpu[c]) = {} \/ Avisos(t) = {})
  BY DEF InvReady, TypeOK, Acks, Canales, Canal
<1>7. Sano(Append(t, m), k, V) /\ Avisos(Append(t, m)) = Avisos(t)
  <2> HIDE DEF m, t, k, V
  <2>1. QED
    BY <1>3, <1>6, SanoEscribe
<1>8. a_plan'[c] = Append(t, m)
  BY <1>4 DEF InvReady, TypeOK
<1>9. Canal(a_cpu[c], a_plan'[c], k, V)
  <2> HIDE DEF m, t, k, V
  <2>1. QED
    BY <1>6, <1>7, <1>8 DEF Canal
<1>10. ASSUME NEW x \in CPUS PROVE Canal(a_cpu[x], a_plan[x], cpu[x].ack, Vale(x))'
  <2>1. CASE x = c
    <3>1. cpu'[x].ack = k /\ Vale(x)' = V /\ a_cpu'[x] = a_cpu[x]
      BY <1>4, <1>5, <2>1
    <3>2. QED
      BY <1>9, <2>1, <3>1
  <2>2. CASE x # c
    <3>1. a_cpu'[x] = a_cpu[x] /\ a_plan'[x] = a_plan[x] /\ cpu'[x] = cpu[x] /\ Vale(x)' = Vale(x)
      BY <1>4, <1>5, <2>2 DEF InvReady, TypeOK
    <3>2. Canal(a_cpu[x], a_plan[x], cpu[x].ack, Vale(x))
      BY DEF Acks, Canales
    <3>3. QED
      BY <3>1, <3>2
  <2>3. QED
    BY <2>1, <2>2
<1>11. Canales'
  BY <1>10 DEF Canales
<1>12. planif'.paso # "temporizar" /\ MismosAcks
  BY <1>4 DEF Acks, MismosAcks
<1>13. QED
  BY <1>4, <1>11, <1>12, AcksQuieta

\* A CPU connects: nobody was waiting for its answer.
LEMMA ConectarAcks == ASSUME InvAcks, NEW c \in CPUS, ConectarCpu(c) PROVE Acks'
<1> USE DEF InvAcks, InvLugar
<1>1. /\ c \notin Conectadas /\ exec_lista' = Append(exec_lista, c)
      /\ cpu' = [cpu EXCEPT ![c] = CpuNueva]
      /\ UNCHANGED <<a_cpu, a_plan, manejador, planif, temporizador, vida, mutex_socket>>
  BY DEF ConectarCpu, memoria
<1>2. sem'.desalojo = sem.desalojo
  BY DEF ConectarCpu, InvReady, TypeOK
<1>3. cpu[c].ack = FALSE /\ cpu[c].pcb = Nadie
  BY <1>1 DEF Acks, Puesto, Sitios, Enchufadas, InvReady, TypeOK, RegCpu
<1>4. MismosAcks /\ Quedan
  BY <1>1, <1>3 DEF MismosAcks, Quedan, CpuNueva, InvReady, TypeOK
<1>5. Valen /\ Ordenes /\ Lecturas
  BY <1>1, <1>4 DEF Valen, Vale, Termina, EnMano, Quedan, Ordenes, Lecturas
<1>6. Canales'
  BY <1>4, <1>5, CanalesSiguen DEF Acks
<1>7. Conectadas \subseteq Conectadas'
  <2>1. exec_lista \in Seq(CPUS)
    BY DEF InvReady, TypeOK
  <2>2. /\ DOMAIN exec_lista = 1..Len(exec_lista) /\ Len(exec_lista) \in Nat
        /\ DOMAIN exec_lista' = 1..(Len(exec_lista) + 1)
        /\ \A i \in 1..Len(exec_lista) : exec_lista'[i] = exec_lista[i]
    BY <1>1, <2>1, ColaEscribe
  <2>3. QED
    BY <2>2 DEF Conectadas
<1>8. Turno' /\ Faltan' = Faltan /\ Adeudan' = Adeudan /\ Avisadas' = Avisadas
  BY <1>1, <1>4 DEF Turno, Faltan, Adeudan, Avisadas, MismosAcks, Acks
<1>9. CuentaAcks'
  BY <1>2, <1>8 DEF Acks, CuentaAcks
<1>10. \A x \in CPUS : Puesto(x)'
  BY <1>1, <1>4, <1>7 DEF Acks, Puesto, MismosAcks
<1>11. QED
  BY <1>1, <1>6, <1>8, <1>9, <1>10 DEF Acks

\* The planner waits, and takes a process from the queue.
LEMMA EsperasAcks ==
    ASSUME InvAcks, \/ EsperarReady \/ EsperarCpu \/ MirarCompactando \/ Despertar
                    \/ desencolar_pcb_ready
    PROVE  Acks'
<1> USE DEF InvAcks, InvLugar
<1>1. sem \in Sem /\ planif \in RegPlanif
  BY DEF InvReady, TypeOK, Sem
<1>2. CASE desencolar_pcb_ready /\ ready = <<>>
  BY <1>2, CaerAcks DEF desencolar_pcb_ready
<1>3. CASE ~(desencolar_pcb_ready /\ ready = <<>>)
  <2>1. UNCHANGED <<exec_lista, cpu, a_cpu, a_plan, manejador, temporizador, vida, mutex_socket>>
    BY <1>3 DEF EsperarReady, EsperarCpu, MirarCompactando, Despertar, desencolar_pcb_ready,
       EnPlan, memoria
  <2>2. planif'.paso # "temporizar"
    BY <1>1, <1>3 DEF EsperarReady, EsperarCpu, MirarCompactando, Despertar, desencolar_pcb_ready,
       PlanSeguir, RegPlanif
  <2>3. sem'.desalojo = sem.desalojo
    BY <1>1, <1>3 DEF EsperarReady, EsperarCpu, MirarCompactando, Despertar, desencolar_pcb_ready, Sem
  <2>4. QED
    BY <2>1, <2>2, <2>3, AcksIgual
<1>4. QED
  BY <1>2, <1>3

\* A free CPU is given a process: no notice to that CPU was for a process of it.
LEMMA DespacharAcks == ASSUME InvAcks, SinCruces, enviar_proceso_a_cpu PROVE Acks'
<1> USE DEF InvAcks, InvLugar
<1>1. PICK p \in PIDS : planif.pcb = p
  BY DEF enviar_proceso_a_cpu, InvReady, EnLaMano, PlanPaso
<1>2. planif'.paso = "esperar_ready"
  BY DEF enviar_proceso_a_cpu, SinCruces
<1>3. CASE obtener_cpu_libre = Nadie
  <2>1. UNCHANGED <<exec_lista, cpu, a_cpu, a_plan, manejador, temporizador, vida, mutex_socket>>
    BY <1>3 DEF enviar_proceso_a_cpu, EnPlan, memoria
  <2>2. sem'.desalojo = sem.desalojo
    BY <1>3 DEF enviar_proceso_a_cpu, InvReady, TypeOK
  <2>3. QED
    BY <1>2, <2>1, <2>2, AcksIgual
<1>4. CASE obtener_cpu_libre # Nadie
  <2>1. PICK d \in CPUS : obtener_cpu_libre = d /\ cpu[d].pcb = Nadie
    BY <1>4, PrimeraConConectada DEF obtener_cpu_libre
  <2> DEFINE m == Msj("EJECUTAR_PROCESO", p)
             v == [cpu[d] EXCEPT !.pcb = p, !.control = FALSE]
  <2>2. /\ cpu' = [cpu EXCEPT ![d] = v] /\ a_cpu' = [a_cpu EXCEPT ![d] = Append(@, m)]
        /\ UNCHANGED <<exec_lista, a_plan, manejador, temporizador, sem, vida, mutex_socket>>
    BY <1>1, <1>4, <2>1 DEF enviar_proceso_a_cpu, EnPlan, memoria
  <2>3. m \in MsjACpu /\ m.tipo \notin INTERRUPCIONES
    BY DEF Msj, MsjACpu, ORDENES, INTERRUPCIONES
  <2>4. v.ack = cpu[d].ack
    BY DEF InvReady, TypeOK, RegCpu
  <2> HIDE DEF m, v
  <2>5. Ordenes /\ Lecturas
    BY <2>2, <2>3 DEF Ordenes, Lecturas, InvReady, TypeOK
  <2>6. MismosAcks
    BY <2>2, <2>4 DEF MismosAcks, InvReady, TypeOK
  <2>7. \A x \in CPUS : \A q \in PIDS : cpu[x].pcb = q => cpu'[x].pcb = q
    BY <2>1, <2>2, SupuestosDespacho DEF InvReady, TypeOK
  <2>8. Valen
    BY <2>2, <2>7 DEF Valen, Vale, Termina, EnMano
  <2>9. Canales'
    BY <2>5, <2>6, <2>8, CanalesSiguen DEF Acks
  <2>10. QED
    BY <1>2, <2>2, <2>6, <2>9, AcksQuieta
<1>5. QED
  BY <1>3, <1>4

\* No timer is ever started.
LEMMA SinTimers ==
    ASSUME InvAcks PROVE ~iniciar_timer_quantum /\ \A c \in CPUS : ~hilo_timer_quantum(c)
  BY DEF InvAcks, Acks, Puesto, iniciar_timer_quantum, hilo_timer_quantum, PlanPaso

\* The device of SLEEP writes to no CPU.
LEMMA FinSleepAcks == ASSUME InvAcks, FINALIZAR_SLEEP PROVE Acks'
<1>1. UNCHANGED <<exec_lista, cpu, a_cpu, a_plan, manejador, planif, temporizador, vida, mutex_socket>>
  BY DEF FINALIZAR_SLEEP, memoria
<1>2. sem'.desalojo = sem.desalojo
  BY DEF FINALIZAR_SLEEP, InvAcks, InvLugar, InvReady, TypeOK
<1>3. QED
  BY <1>1, <1>2, AcksIgual DEF InvAcks, Acks

-----------------------------------------------------------------------------
(* The handlers.                                                             *)

\* Every message names a process.
LEMMA PidLeido ==
    ASSUME InvReady, NEW c \in CPUS, a_plan[c] # <<>> PROVE Head(a_plan[c]).pid \in PIDS
<1>1. Head(a_plan[c]) \in MsjAPlan
  BY HeadTailProperties DEF InvReady, TypeOK
<1>2. QED
  BY <1>1 DEF MsjAPlan

\* A message is read.
LEMMA RecibeLecturas ==
    ASSUME InvReady, NEW c \in CPUS, NEW tipos, NEW r, a_plan[c] # <<>>, Recibir(c, tipos, r)
    PROVE  /\ Lecturas /\ manejador[c].paso = "recibir" /\ "recibir" \notin FIN
           /\ manejador' = [manejador EXCEPT ![c] = r]
           /\ Head(a_plan[c]).tipo \in tipos /\ Head(a_plan[c]).pid \in PIDS
<1>1. Head(a_plan[c]).pid \in PIDS
  BY PidLeido
<1>2. QED
  BY <1>1 DEF Recibir, Lecturas, Ocioso, FIN, InvReady, TypeOK

\* The message changes nothing but the handler.
LEMMA RecibirAcks ==
    ASSUME InvAcks, NEW c \in CPUS, NEW tipos, NEW r, a_plan[c] # <<>>, Recibir(c, tipos, r),
           r.paso \in PASOS_FIFO \ {"esperar", "enlistar_primero"}, r.paso \notin CON_SOCKET,
           UNCHANGED <<exec_lista, cpu, a_cpu, planif, temporizador, mutex_socket>>,
           sem'.desalojo = sem.desalojo,
           \A p \in PIDS : vida[p] = "fin" => vida'[p] = "fin"
    PROVE  Acks'
<1> USE DEF InvAcks, InvLugar
<1>1. /\ Lecturas /\ manejador[c].paso = "recibir" /\ "recibir" \notin FIN
      /\ manejador' = [manejador EXCEPT ![c] = r]
  BY RecibeLecturas
<1>2. Ordenes /\ MismosAcks /\ Quedan /\ Cede(c)
  BY DEF Ordenes, MismosAcks, Quedan, Cede
<1>3. Valen
  BY <1>1, <1>2, ValenIgual
<1>4. QED
  BY <1>1, <1>2, <1>3, SigueAcks

\* The process of a CPU is taken by a handler that ends it.
LEMMA SacaParaTerminar ==
    ASSUME InvReady, NEW c \in CPUS, NEW d \in CPUS, NEW p \in PIDS, NEW r, NEW v,
           cpu[d].pcb = p, cpu' = [cpu EXCEPT ![d] = v], v.ack = cpu[d].ack,
           manejador' = [manejador EXCEPT ![c] = r], r.paso \in FIN, r.pcb = p,
           manejador[c].paso \notin FIN, vida' = vida
    PROVE  Valen /\ MismosAcks
<1>1. MismosAcks
  BY DEF MismosAcks, InvReady, TypeOK
<1>2. \A q \in PIDS : EnMano(q, FIN) => Termina(q)'
  BY TerminanSiguen
<1>3. Termina(p)'
  <2>1. manejador'[c] = r
    BY DEF InvReady, TypeOK
  <2>2. QED
    BY <2>1 DEF Termina, EnMano
<1>4. \A x \in CPUS : \A q \in PIDS : cpu[x].pcb = q => cpu'[x].pcb = q \/ Termina(q)'
  <2>1. \A x \in CPUS : x # d => cpu'[x] = cpu[x]
    BY DEF InvReady, TypeOK
  <2>2. QED
    BY <1>3, <2>1
<1>5. QED
  BY <1>1, <1>2, <1>4, ValenSi

\* EXIT and SEG_FAULT.
LEMMA ExitAcks == ASSUME InvAcks, NEW c \in CPUS, EXIT(c) PROVE Acks'
<1> USE DEF InvAcks, InvLugar
<1> DEFINE tipos == {"EXIT", "SEG_FAULT"}
<1>1. a_plan[c] # <<>> /\ SacarDeCpu(c, tipos, {}, "fin_memoria")
  BY DEF EXIT
<1>2. PICK p \in PIDS : Head(a_plan[c]).pid = p
  BY <1>1, PidLeido
<1>3. CASE encontrar_cpu_con_pid(p) = Nadie
  <2>1. /\ Recibir(c, tipos, Ocioso)
        /\ UNCHANGED <<exec_lista, cpu, a_cpu, planif, temporizador, mutex_socket, sem, vida>>
    BY <1>1, <1>2, <1>3 DEF SacarDeCpu, memoria
  <2>2. Ocioso.paso \in PASOS_FIFO \ {"esperar", "enlistar_primero"} /\ Ocioso.paso \notin CON_SOCKET
    BY DEF Ocioso, PASOS_FIFO, PASOS, CON_SOCKET
  <2>3. QED
    BY <1>1, <2>1, <2>2, RecibirAcks
<1>4. CASE encontrar_cpu_con_pid(p) # Nadie
  <2>1. PICK d \in CPUS : encontrar_cpu_con_pid(p) = d /\ cpu[d].pcb = p /\ d # Nadie
    BY <1>4, PrimeraConConectada DEF encontrar_cpu_con_pid
  <2> DEFINE r == [Ocioso EXCEPT !.paso = "fin_memoria", !.pid = p, !.cpu = d, !.pcb = p]
             v == [pcb |-> Nadie, control |-> cpu[d].control, ack |-> cpu[d].ack]
  <2>2. /\ Recibir(c, tipos, r) /\ cpu' = [cpu EXCEPT ![d] = v]
        /\ UNCHANGED <<exec_lista, a_cpu, planif, temporizador, mutex_socket, sem, vida>>
    BY <1>1, <1>2, <2>1 DEF SacarDeCpu, memoria
  <2>3. v.ack = cpu[d].ack /\ r.paso = "fin_memoria" /\ r.pcb = p
    BY DEF Ocioso
  <2> HIDE DEF r, v
  <2>4. /\ Lecturas /\ manejador[c].paso = "recibir" /\ "recibir" \notin FIN
        /\ manejador' = [manejador EXCEPT ![c] = r]
    BY <1>1, <2>2, RecibeLecturas
  <2>5. Valen /\ MismosAcks
    BY <2>1, <2>2, <2>3, <2>4, SacaParaTerminar DEF FIN
  <2>6. Ordenes /\ Cede(c) /\ r.paso \in PASOS_FIFO \ {"esperar", "enlistar_primero"}
        /\ r.paso \notin CON_SOCKET
    BY <2>2, <2>3 DEF Ordenes, Cede, PASOS_FIFO, PASOS, CON_SOCKET
  <2>7. QED
    BY <2>2, <2>4, <2>5, <2>6, SigueAcks
<1>5. QED
  BY <1>3, <1>4

\* A process that is on a CPU is not ending.
LEMMA NoTermina ==
    ASSUME InvLugar, NEW d \in CPUS, NEW p \in PIDS, cpu[d].pcb = p PROVE ~Termina(p)
<1> USE DEF InvLugar
<1>1. vida[p] = "vivo" /\ SoloCpu(p, d)
  BY EsDeCpu
<1>2. ManoDe(p) = {}
  BY <1>1 DEF SoloCpu, Esta
<1>3. QED
  BY <1>1, <1>2 DEF Termina, EnMano, ManoDe, FIN, ConPcb

\* The answer of a CPU: the search by pid finds that same CPU, unless the
\* process is ending.
LEMMA RespuestaEsSuya ==
    ASSUME InvAcks, NEW c \in CPUS, a_plan[c] # <<>>, Head(a_plan[c]).tipo = "COMPACTACION",
           NEW p \in PIDS, Head(a_plan[c]).pid = p
    PROVE  /\ Avisos(a_cpu[c]) = {} /\ Avisos(Tail(a_plan[c])) = {} /\ cpu[c].ack
           /\ encontrar_cpu_con_pid(p) \in {Nadie, c}
           /\ encontrar_cpu_con_pid(p) = c => cpu[c].pcb = p
<1> USE DEF InvAcks, InvLugar
<1> DEFINE t == a_plan[c]
           k == cpu[c].ack
           V == Vale(c)
<1>1. /\ t \in Seq(MsjAPlan) /\ Sano(t, k, V) /\ (Avisos(a_cpu[c]) = {} \/ Avisos(t) = {})
  BY DEF InvReady, TypeOK, Acks, Canales, Canal
<1>2. Avisos(t) # {} /\ Avisos(Tail(t)) = {} /\ k /\ Head(t).pid \in V
  <2>1. t # <<>> /\ Head(t).tipo = "COMPACTACION"
    OBVIOUS
  <2> HIDE DEF t, k, V
  <2>2. QED
    BY <1>1, <2>1, SanoLee
<1>3. CASE encontrar_cpu_con_pid(p) = Nadie
  BY <1>1, <1>2, <1>3, SupuestosDespacho
<1>4. CASE encontrar_cpu_con_pid(p) # Nadie
  <2>1. PICK d \in CPUS : encontrar_cpu_con_pid(p) = d /\ cpu[d].pcb = p
    BY <1>4, PrimeraConConectada DEF encontrar_cpu_con_pid
  <2>2. ~Termina(p)
    BY <2>1, NoTermina
  <2>3. cpu[c].pcb = p
    BY <1>2, <2>2 DEF Vale
  <2>4. encontrar_cpu_con_pid(p) = c
    BY <2>3, EncuentraLaSuya
  <2>5. QED
    BY <1>1, <1>2, <2>3, <2>4
<1>5. QED
  BY <1>3, <1>4

\* One answer less is missing, and the handler owes its post.
LEMMA CompactacionAcks == ASSUME InvAcks, NEW c \in CPUS, COMPACTACION(c) PROVE Acks'
<1> USE DEF InvAcks, InvLugar
<1> DEFINE tipos == {"COMPACTACION"}
           limpia == {"control", "ack"}
<1>1. a_plan[c] # <<>> /\ SacarDeCpu(c, tipos, limpia, "enlistar_primero")
  BY DEF COMPACTACION
<1>2. PICK p \in PIDS : Head(a_plan[c]).pid = p
  BY <1>1, PidLeido
<1>m. Head(a_plan[c]).tipo = "COMPACTACION"
  BY <1>1 DEF SacarDeCpu, Recibir
<1>n. c # Nadie
  BY SupuestosDespacho
<1>r. /\ Avisos(a_cpu[c]) = {} /\ Avisos(Tail(a_plan[c])) = {} /\ cpu[c].ack
      /\ encontrar_cpu_con_pid(p) \in {Nadie, c}
      /\ encontrar_cpu_con_pid(p) = c => cpu[c].pcb = p
  BY <1>1, <1>2, <1>m, RespuestaEsSuya
<1>3. CASE encontrar_cpu_con_pid(p) = Nadie
  <2>1. /\ Recibir(c, tipos, Ocioso)
        /\ UNCHANGED <<exec_lista, cpu, a_cpu, planif, temporizador, mutex_socket, sem, vida>>
    BY <1>1, <1>2, <1>3 DEF SacarDeCpu, memoria
  <2>2. Ocioso.paso \in PASOS_FIFO \ {"esperar", "enlistar_primero"} /\ Ocioso.paso \notin CON_SOCKET
    BY DEF Ocioso, PASOS_FIFO, PASOS, CON_SOCKET
  <2>3. QED
    BY <1>1, <2>1, <2>2, RecibirAcks
<1>4. CASE encontrar_cpu_con_pid(p) = c
  <2> DEFINE r == [Ocioso EXCEPT !.paso = "enlistar_primero", !.pid = p, !.cpu = c, !.pcb = p]
             v == [pcb |-> Nadie, control |-> FALSE, ack |-> FALSE]
  <2>1. /\ Recibir(c, tipos, r) /\ cpu' = [cpu EXCEPT ![c] = v]
        /\ UNCHANGED <<exec_lista, a_cpu, planif, temporizador, mutex_socket, sem, vida>>
    BY <1>1, <1>2, <1>4, <1>n DEF SacarDeCpu, memoria
  <2>2. v.ack = FALSE /\ r.paso = "enlistar_primero"
    BY DEF Ocioso
  <2> HIDE DEF r, v
  <2>3. /\ Lecturas /\ manejador[c].paso = "recibir" /\ "recibir" \notin FIN
        /\ manejador' = [manejador EXCEPT ![c] = r]
    BY <1>1, <2>1, RecibeLecturas
  <2>4. a_plan' = [a_plan EXCEPT ![c] = Tail(@)]
    BY <2>1 DEF Recibir
  <2>6. \A q \in PIDS : EnMano(q, FIN) => EnMano(q, FIN)'
    BY <2>3, TerminanSiguen
  <2>7. ASSUME NEW x \in CPUS PROVE Canal(a_cpu[x], a_plan[x], cpu[x].ack, Vale(x))'
    <3>1. Canal(a_cpu[x], a_plan[x], cpu[x].ack, Vale(x))
      BY DEF Acks, Canales
    <3>2. CASE x = c
      <4>1. a_cpu'[x] = a_cpu[x] /\ a_plan'[x] = Tail(a_plan[x])
        BY <2>1, <2>4, <3>2 DEF InvReady, TypeOK
      <4>2. a_plan[x] \in Seq(MsjAPlan) /\ a_plan[x] # <<>>
        BY <1>1, <3>2 DEF InvReady, TypeOK
      <4>3. Sano(Tail(a_plan[x]), cpu[x].ack, Vale(x)) /\ Sano(a_cpu[x], cpu[x].ack, Vale(x))
        BY <3>1, <4>2, SanoLee DEF Canal
      <4>4. Avisos(a_cpu[x]) = {} /\ Avisos(Tail(a_plan[x])) = {}
        BY <1>r, <3>2
      <4>5. Canal(a_cpu[x], Tail(a_plan[x]), cpu'[x].ack, Vale(x)')
        BY <4>3, <4>4 DEF Canal, Sano
      <4>6. QED
        BY <4>1, <4>5
    <3>3. CASE x # c
      <4>1. a_cpu'[x] = a_cpu[x] /\ a_plan'[x] = a_plan[x] /\ cpu'[x] = cpu[x]
        BY <2>1, <2>4, <3>3 DEF InvReady, TypeOK
      <4>2. Vale(x) \subseteq Vale(x)'
        BY <2>1, <2>6, <4>1 DEF Vale, Termina
      <4>3. Canal(a_cpu[x], a_plan[x], cpu[x].ack, Vale(x)')
        BY <3>1, <4>2 DEF Canal, Sano
      <4>4. QED
        BY <4>1, <4>3
    <3>4. QED
      BY <3>2, <3>3
  <2>8. Canales'
    BY <2>7 DEF Canales
  <2>9. Avisadas' = Avisadas \ {c} /\ c \in Avisadas
    BY <1>r, <2>1, <2>2 DEF Avisadas, InvReady, TypeOK
  <2>10. Adeudan' = Adeudan \cup {c} /\ c \notin Adeudan
    BY <2>2, <2>3, AdeudanCon
  <2>11. Cede(c) /\ r.paso \in PASOS_FIFO /\ r.paso \notin CON_SOCKET
    BY <2>1, <2>2 DEF Cede, PASOS_FIFO, PASOS, CON_SOCKET
  <2>12. Faltan' = Faltan
    BY <2>2, <2>3, <2>11, FaltanIgual
  <2>13. /\ IsFiniteSet(Adeudan) /\ Cardinality(Adeudan) \in Nat
         /\ IsFiniteSet(Avisadas) /\ Cardinality(Avisadas) \in Nat
         /\ sem.desalojo \in Nat /\ Faltan \in Nat
    BY AcksFinitos
  <2>14. Cardinality(Adeudan') = Cardinality(Adeudan) + 1
    BY <2>10, <2>13, FS_AddElement
  <2>15. Cardinality(Avisadas') = Cardinality(Avisadas) - 1
    BY <2>9, <2>13, FS_RemoveElement
  <2>16. CuentaAcks'
    BY <2>1, <2>12, <2>13, <2>14, <2>15 DEF Acks, CuentaAcks
  <2>17. \A x \in CPUS : cpu'[x].ack => cpu[x].ack \/ x \in Conectadas
    BY <2>1, <2>2 DEF InvReady, TypeOK
  <2>18. QED
    BY <2>1, <2>3, <2>8, <2>11, <2>16, <2>17, AcksPor
<1>5. QED
  BY <1>3, <1>4, <1>r

\* The post that answers the compaction.
LEMMA EnlistarAcks == ASSUME InvAcks, NEW c \in CPUS, enlistar_primero_ready(c) PROVE Acks'
<1> USE DEF InvAcks, InvLugar
<1>1. /\ manejador[c].paso = "enlistar_primero" /\ manejador' = [manejador EXCEPT ![c] = Ocioso]
      /\ UNCHANGED <<exec_lista, cpu, a_cpu, a_plan, planif, temporizador, mutex_socket, vida>>
  BY DEF enlistar_primero_ready, Paso, Seguir, memoria
<1>2. sem'.desalojo = sem.desalojo + 1
  BY DEF enlistar_primero_ready, InvReady, TypeOK
<1>3. Ocioso.paso = "recibir"
  BY DEF Ocioso
<1>4. Ocioso.paso \in PASOS_FIFO /\ Ocioso.paso \notin CON_SOCKET /\ manejador[c].paso \notin FIN
      /\ Cede(c)
  BY <1>1, <1>3 DEF PASOS_FIFO, PASOS, CON_SOCKET, FIN, Cede
<1>5. Ordenes /\ Lecturas /\ MismosAcks /\ Quedan
  BY <1>1 DEF Ordenes, Lecturas, MismosAcks, Quedan
<1>6. Valen
  BY <1>1, <1>4, <1>5, ValenIgual
<1>7. Canales'
  BY <1>5, <1>6, CanalesSiguen DEF Acks
<1>8. Adeudan' = Adeudan \ {c} /\ c \in Adeudan
  BY <1>1, <1>3, AdeudanCon
<1>9. Avisadas' = Avisadas
  BY <1>1 DEF Avisadas
<1>10. Faltan' = Faltan
  BY <1>1, <1>3, <1>4, FaltanIgual
<1>11. IsFiniteSet(Adeudan) /\ Cardinality(Adeudan) \in Nat /\ Cardinality(Avisadas) \in Nat
       /\ sem.desalojo \in Nat /\ Faltan \in Nat
  BY AcksFinitos
<1>12. Cardinality(Adeudan') = Cardinality(Adeudan) - 1
  BY <1>8, <1>11, FS_RemoveElement
<1>13. CuentaAcks'
  BY <1>2, <1>9, <1>10, <1>11, <1>12 DEF Acks, CuentaAcks
<1>14. QED
  BY <1>1, <1>4, <1>7, <1>13, AcksPor

\* An order to a CPU, whether it is sent or not.
LEMMA ConControlOrdenes ==
    ASSUME InvReady, NEW d \in CPUS, NEW p, NEW t \in ORDENES, cpu[d].control \/ p \in PIDS,
           a_cpu' = ConControl(d, t, p)
    PROVE  Ordenes
<1> DEFINE m == Msj(t, p)
<1>1. CASE cpu[d].control
  BY <1>1 DEF ConControl, Ordenes
<1>2. CASE ~cpu[d].control
  <2>1. m \in MsjACpu /\ m.tipo \notin INTERRUPCIONES
    BY <1>2 DEF Msj, MsjACpu, ORDENES, INTERRUPCIONES
  <2>2. \A c \in CPUS : a_cpu'[c] = a_cpu[c] \/ a_cpu'[c] = Append(a_cpu[c], m)
    BY <1>2 DEF ConControl, InvReady, TypeOK
  <2> HIDE DEF m
  <2>3. QED
    BY <2>1, <2>2 DEF Ordenes
<1>3. QED
  BY <1>1, <1>2

\* The two steps of the end of a process.
LEMMA FinAcks ==
    ASSUME InvAcks, NEW c \in CPUS, enviar_fin_proceso_memory(c) \/ enviar_fin_proceso_a_cpu(c)
    PROVE  Acks'
<1> USE DEF InvAcks, InvLugar
<1>1. CASE enviar_fin_proceso_memory(c)
  <2> DEFINE r == [manejador[c] EXCEPT !.paso = "fin_cpu"]
  <2>1. /\ manejador[c].paso = "fin_memoria" /\ manejador' = [manejador EXCEPT ![c] = r]
        /\ UNCHANGED <<exec_lista, cpu, a_cpu, a_plan, planif, temporizador, mutex_socket, vida, sem>>
    BY <1>1 DEF enviar_fin_proceso_memory, Paso, Seguir, memoria
  <2>2. r.paso = "fin_cpu" /\ r.pcb = manejador[c].pcb
    BY DEF InvReady, TypeOK, RegManejador
  <2> HIDE DEF r
  <2>3. /\ r.paso \in PASOS_FIFO \ {"esperar", "enlistar_primero"} /\ r.paso \notin CON_SOCKET
        /\ Cede(c) /\ r.paso \in FIN
    BY <2>1, <2>2 DEF PASOS_FIFO, PASOS, CON_SOCKET, FIN, Cede
  <2>4. Ordenes /\ Lecturas /\ MismosAcks /\ Quedan
    BY <2>1 DEF Ordenes, Lecturas, MismosAcks, Quedan
  <2>5. Valen
    BY <2>1, <2>2, <2>3, <2>4, ValenIgual
  <2>6. QED
    BY <2>1, <2>3, <2>4, <2>5, SigueAcks
<1>2. CASE enviar_fin_proceso_a_cpu(c)
  <2> DEFINE v == [cpu[manejador[c].cpu] EXCEPT !.control = TRUE]
  <2>1. manejador[c].paso = "fin_cpu"
    BY <1>2 DEF enviar_fin_proceso_a_cpu, Paso
  <2>2. PICK p \in PIDS, d \in CPUS : manejador[c].pcb = p /\ manejador[c].cpu = d
    BY <2>1 DEF InvReady, EnLaMano, ConLoSuyo
  <2>3. /\ manejador' = [manejador EXCEPT ![c] = Ocioso]
        /\ a_cpu' = ConControl(d, "FIN_PROCESO", p) /\ cpu' = [cpu EXCEPT ![d] = v]
        /\ vida' = [vida EXCEPT ![p] = "fin"]
        /\ UNCHANGED <<exec_lista, a_plan, planif, temporizador, mutex_socket>>
    BY <1>2, <2>2 DEF enviar_fin_proceso_a_cpu, Seguir, memoria
  <2>4. sem'.desalojo = sem.desalojo
    BY <1>2 DEF enviar_fin_proceso_a_cpu, InvReady, TypeOK
  <2>5. v.ack = cpu[d].ack /\ v.pcb = cpu[d].pcb
    BY <2>2 DEF InvReady, TypeOK, RegCpu
  <2> HIDE DEF v
  <2>6. /\ Ocioso.paso \in PASOS_FIFO \ {"esperar", "enlistar_primero"}
        /\ Ocioso.paso \notin CON_SOCKET /\ Cede(c)
    BY <2>3 DEF Ocioso, PASOS_FIFO, PASOS, CON_SOCKET, Cede
  <2>7. Ordenes
    BY <2>3, ConControlOrdenes DEF ORDENES
  <2>8. Lecturas
    BY <2>3 DEF Lecturas
  <2>9. MismosAcks /\ Quedan
    BY <2>3, <2>5 DEF MismosAcks, Quedan, InvReady, TypeOK
  <2>10. vida'[p] = "fin" /\ \A q \in PIDS : vida[q] = "fin" => vida'[q] = "fin"
    BY <2>3 DEF InvReady, TypeOK
  <2>11. ASSUME NEW q \in PIDS, EnMano(q, FIN) PROVE Termina(q)'
    <3>1. CASE q = p
      BY <2>10, <3>1 DEF Termina
    <3>2. CASE q # p
      <4>1. PICK x \in CPUS : manejador[x].pcb = q /\ manejador[x].paso \in FIN
        BY <2>11 DEF EnMano
      <4>2. x # c /\ manejador'[x] = manejador[x]
        BY <2>2, <2>3, <3>2, <4>1 DEF InvReady, TypeOK
      <4>3. QED
        BY <4>1, <4>2 DEF Termina, EnMano
    <3>3. QED
      BY <3>1, <3>2
  <2>12. \A x \in CPUS : \A q \in PIDS : cpu[x].pcb = q => cpu'[x].pcb = q \/ Termina(q)'
    BY <2>9 DEF Quedan
  <2>13. Valen
    BY <2>10, <2>11, <2>12, ValenSi
  <2>14. manejador[c].paso \notin {"esperar", "enlistar_primero"}
    BY <2>1
  <2>15. QED
    BY <2>3, <2>4, <2>6, <2>7, <2>8, <2>9, <2>13, <2>14, SigueAcks
<1>3. QED
  BY <1>1, <1>2

\* The second search, and the order to go on.
LEMMA BuscarAcks ==
    ASSUME InvAcks, NEW c \in CPUS, BuscarDeNuevo(c) \/ reanudar_proceso_en_cpu(c)
    PROVE  Acks'
<1> USE DEF InvAcks, InvLugar
<1>1. CASE BuscarDeNuevo(c)
  <2> DEFINE d == encontrar_cpu_con_pid(manejador[c].pid)
             paso == IF Paso(c, "buscar") THEN "reanudar" ELSE "sacar_pcb"
             r == IF d = Nadie THEN Ocioso ELSE [manejador[c] EXCEPT !.paso = paso, !.cpu = d]
  <2>1. /\ manejador' = [manejador EXCEPT ![c] = r]
        /\ r.paso \in {"recibir", "reanudar", "sacar_pcb"}
    BY <1>1 DEF BuscarDeNuevo, Seguir, Ocioso, InvReady, TypeOK, RegManejador
  <2> HIDE DEF r
  <2>2. /\ manejador[c].paso \in {"buscar", "buscar_fin"}
        /\ UNCHANGED <<exec_lista, cpu, a_cpu, a_plan, planif, temporizador, mutex_socket, vida, sem>>
    BY <1>1 DEF BuscarDeNuevo, Paso, memoria
  <2>3. /\ r.paso \in PASOS_FIFO \ {"esperar", "enlistar_primero"} /\ r.paso \notin CON_SOCKET
        /\ Cede(c) /\ manejador[c].paso \notin FIN
    BY <2>1, <2>2 DEF PASOS_FIFO, PASOS, CON_SOCKET, FIN, Cede
  <2>4. Ordenes /\ Lecturas /\ MismosAcks /\ Quedan
    BY <2>2 DEF Ordenes, Lecturas, MismosAcks, Quedan
  <2>5. Valen
    BY <2>1, <2>2, <2>3, <2>4, ValenIgual
  <2>6. QED
    BY <2>1, <2>2, <2>3, <2>4, <2>5, SigueAcks
<1>2. CASE reanudar_proceso_en_cpu(c)
  <2>1. manejador[c].paso = "reanudar"
    BY <1>2 DEF reanudar_proceso_en_cpu, Paso
  <2>2. PICK d \in CPUS : manejador[c].cpu = d
    BY <2>1 DEF InvReady, EnLaMano, ConLoSuyo
  <2>3. CASE ~cpu[d].control /\ cpu[d].pcb = Nadie
    BY <1>2, <2>2, <2>3, CaerAcks DEF reanudar_proceso_en_cpu
  <2>4. CASE cpu[d].control \/ cpu[d].pcb # Nadie
    <3>1. /\ a_cpu' = ConControl(d, "EJECUTAR_PROCESO", cpu[d].pcb)
          /\ manejador' = [manejador EXCEPT ![c] = Ocioso]
          /\ UNCHANGED <<exec_lista, cpu, a_plan, planif, temporizador, mutex_socket, vida, sem>>
      BY <1>2, <2>2, <2>4 DEF reanudar_proceso_en_cpu, Seguir, memoria
    <3>2. cpu[d].control \/ cpu[d].pcb \in PIDS
      BY <2>4 DEF InvReady, TypeOK, RegCpu, PidONadie
    <3>3. Ordenes
      BY <3>1, <3>2, ConControlOrdenes DEF ORDENES
    <3>4. Lecturas /\ MismosAcks /\ Quedan /\ Cede(c)
      BY <3>1 DEF Lecturas, MismosAcks, Quedan, Cede
    <3>5. /\ Ocioso.paso \in PASOS_FIFO \ {"esperar", "enlistar_primero"}
          /\ Ocioso.paso \notin CON_SOCKET /\ manejador[c].paso \notin FIN
      BY <2>1 DEF Ocioso, PASOS_FIFO, PASOS, CON_SOCKET, FIN
    <3>6. Valen
      BY <3>1, <3>4, <3>5, ValenIgual
    <3>7. QED
      BY <2>1, <3>1, <3>3, <3>4, <3>5, <3>6, SigueAcks
  <2>5. QED
    BY <2>3, <2>4
<1>3. QED
  BY <1>1, <1>2

\* Out of memory: the process leaves its CPU and ends.
LEMMA SacarSinMemoriaAcks == ASSUME InvAcks, NEW c \in CPUS, SacarSinMemoria(c) PROVE Acks'
<1> USE DEF InvAcks, InvLugar
<1>1. manejador[c].paso = "sacar_pcb"
  BY DEF SacarSinMemoria, Paso
<1>2. PICK d \in CPUS : manejador[c].cpu = d
  BY <1>1 DEF InvReady, EnLaMano, ConLoSuyo
<1>3. CASE cpu[d].pcb = Nadie
  BY <1>2, <1>3, CaerAcks DEF SacarSinMemoria
<1>4. CASE cpu[d].pcb # Nadie
  <2>1. PICK p \in PIDS : cpu[d].pcb = p
    BY <1>4 DEF InvReady, TypeOK, RegCpu, PidONadie
  <2> DEFINE r == [manejador[c] EXCEPT !.paso = "fin_memoria", !.pcb = p]
             v == [cpu[d] EXCEPT !.pcb = Nadie]
  <2>2. /\ manejador' = [manejador EXCEPT ![c] = r] /\ cpu' = [cpu EXCEPT ![d] = v]
        /\ UNCHANGED <<exec_lista, a_cpu, a_plan, planif, temporizador, mutex_socket, vida, sem>>
    BY <1>2, <1>4, <2>1 DEF SacarSinMemoria, Seguir, memoria
  <2>3. v.ack = cpu[d].ack /\ r.paso = "fin_memoria" /\ r.pcb = p
    BY DEF InvReady, TypeOK, RegCpu, RegManejador
  <2> HIDE DEF r, v
  <2>4. manejador[c].paso \notin FIN /\ r.paso \in FIN /\ Cede(c)
        /\ r.paso \in PASOS_FIFO \ {"esperar", "enlistar_primero"} /\ r.paso \notin CON_SOCKET
    BY <1>1, <2>2, <2>3 DEF FIN, PASOS_FIFO, PASOS, CON_SOCKET, Cede
  <2>5. Valen /\ MismosAcks
    BY <2>1, <2>2, <2>3, <2>4, SacaParaTerminar
  <2>6. Ordenes /\ Lecturas
    BY <2>2 DEF Ordenes, Lecturas
  <2>7. QED
    BY <1>1, <2>2, <2>4, <2>5, <2>6, SigueAcks
<1>5. QED
  BY <1>3, <1>4

\* A step of a handler that changes itself and, at most, the free CPUs and the
\* owner of the mutex.
LEMMA PasoSoloAcks ==
    ASSUME InvAcks, NEW c \in CPUS, NEW paso, Seguir(c, [manejador[c] EXCEPT !.paso = paso]),
           manejador[c].paso \notin {"esperar", "enlistar_primero"} \cup FIN,
           paso \in PASOS_FIFO \ {"esperar", "enlistar_primero"},
           paso \in CON_SOCKET => mutex_socket' = c, Cede(c),
           UNCHANGED <<exec_lista, cpu, a_cpu, a_plan, planif, temporizador, vida>>,
           sem'.desalojo = sem.desalojo
    PROVE  Acks'
<1> USE DEF InvAcks, InvLugar
<1> DEFINE r == [manejador[c] EXCEPT !.paso = paso]
<1>1. manejador' = [manejador EXCEPT ![c] = r] /\ r.paso = paso
  BY DEF Seguir, InvReady, TypeOK, RegManejador
<1> HIDE DEF r
<1>2. Ordenes /\ Lecturas /\ MismosAcks /\ Quedan
  BY DEF Ordenes, Lecturas, MismosAcks, Quedan
<1>3. Valen
  BY <1>1, <1>2, ValenIgual
<1>4. QED
  BY <1>1, <1>2, <1>3, SigueAcks

\* A request to Kernel Memory, and the semaphore of free CPUs going down and up.
LEMMA PedirAcks ==
    ASSUME InvAcks, NEW c \in CPUS, NEW r \in RESPUESTAS, Pedir(c, r) PROVE Acks'
<1> USE DEF InvAcks, InvLugar
<1>1. /\ manejador[c].paso \in {"pedir", "repedir"} /\ mutex_socket = Nadie
      /\ UNCHANGED <<exec_lista, cpu, a_cpu, a_plan, planif, temporizador, vida, sem>>
  BY DEF Pedir, Paso
<1>2. manejador[c].paso \notin {"esperar", "enlistar_primero"} \cup FIN
  BY <1>1 DEF FIN
<1>3. CASE r = "COMPACTACION"
  <2>1. mutex_socket' = c /\ Seguir(c, [manejador[c] EXCEPT !.paso = "medir"])
    BY <1>3 DEF Pedir
  <2>2. Cede(c) /\ "medir" \in PASOS_FIFO \ {"esperar", "enlistar_primero"}
    BY <1>1, <2>1 DEF Cede, PASOS_FIFO, PASOS
  <2>3. QED
    BY <1>1, <1>2, <2>1, <2>2, PasoSoloAcks
<1>4. CASE r # "COMPACTACION" /\ manejador' = manejador
  <2>1. mutex_socket' = mutex_socket
    BY <1>4 DEF Pedir, memoria
  <2>2. QED
    BY <1>1, <1>4, <2>1, AcksIgual DEF Acks
<1>5. CASE r # "COMPACTACION" /\ manejador' # manejador
  <2>1. PICK paso \in {"buscar", "buscar_fin", "reponer"} :
            Seguir(c, [manejador[c] EXCEPT !.paso = paso])
    BY <1>5 DEF Pedir
  <2>2. mutex_socket' = mutex_socket
    BY <1>5 DEF Pedir, memoria
  <2>3. Cede(c) /\ paso \in PASOS_FIFO \ {"esperar", "enlistar_primero"} /\ paso \notin CON_SOCKET
    BY <2>1, <2>2 DEF Cede, PASOS_FIFO, PASOS, CON_SOCKET
  <2>4. QED
    BY <1>1, <1>2, <2>1, <2>3, PasoSoloAcks
<1>6. QED
  BY <1>3, <1>4, <1>5

LEMMA DespostearAcks == ASSUME InvAcks, NEW c \in CPUS, despostear_todas_cpus(c) PROVE Acks'
<1> USE DEF InvAcks, InvLugar
<1>1. PICK paso \in {"medir", "bajar", "desalojar"} : Seguir(c, [manejador[c] EXCEPT !.paso = paso])
  BY DEF despostear_todas_cpus
<1>2. /\ manejador[c].paso \in {"medir", "bajar"} /\ sem'.desalojo = sem.desalojo
      /\ UNCHANGED <<exec_lista, cpu, a_cpu, a_plan, planif, temporizador, vida, mutex_socket>>
  BY DEF despostear_todas_cpus, Paso, memoria, InvReady, TypeOK
<1>3. mutex_socket' = c
  BY <1>2 DEF Acks, Turno, CON_SOCKET
<1>4. /\ manejador[c].paso \notin {"esperar", "enlistar_primero"} \cup FIN /\ Cede(c)
      /\ paso \in PASOS_FIFO \ {"esperar", "enlistar_primero"}
  BY <1>2 DEF FIN, Cede, PASOS_FIFO, PASOS
<1>5. QED
  BY <1>1, <1>2, <1>3, <1>4, PasoSoloAcks

LEMMA ExitosaAcks == ASSUME InvAcks, NEW c \in CPUS, CompactacionExitosa(c) PROVE Acks'
<1> USE DEF InvAcks, InvLugar
<1>1. /\ Seguir(c, [manejador[c] EXCEPT !.paso = "repedir"]) /\ manejador[c].paso = "compactar"
      /\ mutex_socket' = Nadie
      /\ UNCHANGED <<exec_lista, cpu, a_cpu, a_plan, planif, temporizador, vida, sem>>
  BY DEF CompactacionExitosa, Paso
<1>2. mutex_socket = c
  BY <1>1 DEF Acks, Turno, CON_SOCKET
<1>3. /\ manejador[c].paso \notin {"esperar", "enlistar_primero"} \cup FIN /\ Cede(c)
      /\ "repedir" \in PASOS_FIFO \ {"esperar", "enlistar_primero"} /\ "repedir" \notin CON_SOCKET
  BY <1>1, <1>2 DEF FIN, Cede, PASOS_FIFO, PASOS, CON_SOCKET
<1>4. QED
  BY <1>1, <1>3, PasoSoloAcks

LEMMA FinCompactacionAcks == ASSUME InvAcks, NEW c \in CPUS, FinDeCompactacion(c) PROVE Acks'
<1> USE DEF InvAcks, InvLugar
<1>1. PICK r : /\ manejador' = [manejador EXCEPT ![c] = r]
               /\ r.paso \in {"buscar", "reponer", "postear"}
  <2>1. CASE Paso(c, "reponer")
    <3> DEFINE r == [manejador[c] EXCEPT !.paso = "postear"]
    <3>1. manejador' = [manejador EXCEPT ![c] = r] /\ r.paso = "postear"
      BY <2>1 DEF FinDeCompactacion, Seguir, Paso, InvReady, TypeOK, RegManejador
    <3> HIDE DEF r
    <3>2. QED
      BY <3>1
  <2>2. CASE Paso(c, "postear")
    <3> DEFINE t == manejador[c].totales
               resto == SubSeq(t, 1, Len(t) - 1)
               paso == IF resto = <<>> THEN "buscar" ELSE "reponer"
               r == [manejador[c] EXCEPT !.paso = paso, !.totales = resto]
    <3>1. manejador' = [manejador EXCEPT ![c] = r]
      BY <2>2 DEF FinDeCompactacion, Seguir, Paso
    <3>2. paso \in {"buscar", "reponer"}
      OBVIOUS
    <3> HIDE DEF resto, paso
    <3>3. r.paso = paso
      BY DEF InvReady, TypeOK, RegManejador
    <3> HIDE DEF r
    <3>4. QED
      BY <3>1, <3>2, <3>3
  <2>3. QED
    BY <2>1, <2>2 DEF FinDeCompactacion
<1>2. /\ manejador[c].paso \in {"reponer", "postear"} /\ sem'.desalojo = sem.desalojo
      /\ UNCHANGED <<exec_lista, cpu, a_cpu, a_plan, planif, temporizador, vida, mutex_socket>>
  BY DEF FinDeCompactacion, Paso, InvReady, TypeOK
<1>4. /\ manejador[c].paso \notin {"esperar", "enlistar_primero"} /\ manejador[c].paso \notin FIN
      /\ r.paso \in PASOS_FIFO \ {"esperar", "enlistar_primero"} /\ r.paso \notin CON_SOCKET
      /\ Cede(c)
  BY <1>1, <1>2 DEF FIN, Cede, PASOS_FIFO, PASOS, CON_SOCKET
<1>5. Ordenes /\ Lecturas /\ MismosAcks /\ Quedan
  BY <1>2 DEF Ordenes, Lecturas, MismosAcks, Quedan
<1>6. Valen
  BY <1>1, <1>2, <1>4, <1>5, ValenIgual
<1>7. QED
  BY <1>1, <1>2, <1>4, <1>5, <1>6, SigueAcks

\* The wait: a post is taken and one answer less is missing.
LEMMA EsperarAcks == ASSUME InvAcks, NEW c \in CPUS, EsperarDesalojos(c) PROVE Acks'
<1> USE DEF InvAcks, InvLugar
<1>1. /\ manejador[c].paso = "esperar" /\ manejador[c] \in RegManejador
      /\ UNCHANGED <<exec_lista, cpu, a_cpu, a_plan, planif, temporizador, vida, mutex_socket>>
  BY DEF EsperarDesalojos, Paso, memoria, InvReady, TypeOK
<1>2. mutex_socket = c /\ c # Nadie /\ Cede(c)
  BY <1>1, SupuestosDespacho DEF Acks, Turno, CON_SOCKET, Cede
<1>3. Faltan = manejador[c].faltan
  BY <1>1, <1>2 DEF Faltan
<1>f. /\ Cardinality(Adeudan) \in Nat /\ Cardinality(Avisadas) \in Nat
      /\ sem.desalojo \in Nat /\ Faltan \in Nat
  BY AcksFinitos
<1>4. PICK r : /\ manejador' = [manejador EXCEPT ![c] = r]
               /\ r.paso \in {"esperar", "compactar"}
               /\ \/ r.paso = "compactar" /\ Faltan = 0 /\ sem'.desalojo = sem.desalojo
                  \/ /\ r.paso = "esperar" /\ r.faltan = Faltan - 1
                     /\ sem'.desalojo = sem.desalojo - 1
  <2>1. CASE manejador[c].faltan = 0
    <3> DEFINE r == [manejador[c] EXCEPT !.paso = "compactar"]
    <3>1. manejador' = [manejador EXCEPT ![c] = r] /\ sem' = sem
      BY <2>1 DEF EsperarDesalojos, Seguir
    <3>2. r.paso = "compactar"
      BY <1>1 DEF RegManejador
    <3> HIDE DEF r
    <3>3. QED
      BY <1>3, <2>1, <3>1, <3>2
  <2>2. CASE manejador[c].faltan # 0
    <3> DEFINE r == [manejador[c] EXCEPT !.faltan = @ - 1]
    <3>1. manejador' = [manejador EXCEPT ![c] = r] /\ sem' = [sem EXCEPT !.desalojo = @ - 1]
      BY <2>2 DEF EsperarDesalojos, Seguir
    <3>2. r.paso = "esperar" /\ r.faltan = manejador[c].faltan - 1
      BY <1>1 DEF RegManejador
    <3>3. sem'.desalojo = sem.desalojo - 1
      BY <3>1 DEF InvReady, TypeOK
    <3> HIDE DEF r
    <3>4. QED
      BY <1>3, <3>1, <3>2, <3>3
  <2>3. QED
    BY <2>1, <2>2
<1>5. manejador'[c] = r
  BY <1>4 DEF InvReady, TypeOK
<1>6. r.paso \in PASOS_FIFO /\ manejador[c].paso \notin FIN
  BY <1>1, <1>4 DEF PASOS_FIFO, PASOS, FIN
<1>7. Ordenes /\ Lecturas /\ MismosAcks /\ Quedan
  BY <1>1 DEF Ordenes, Lecturas, MismosAcks, Quedan
<1>8. Valen
  BY <1>1, <1>4, <1>6, <1>7, ValenIgual
<1>9. Canales'
  BY <1>7, <1>8, CanalesSiguen DEF Acks
<1>10. Adeudan' = Adeudan /\ Avisadas' = Avisadas
  <2>1. /\ r.paso # "enlistar_primero" => Adeudan' = Adeudan \ {c}
        /\ c \in Adeudan <=> manejador[c].paso = "enlistar_primero"
    BY <1>4, AdeudanCon
  <2>2. QED
    BY <1>1, <1>4, <2>1 DEF Avisadas
<1>11. Faltan' - sem'.desalojo = Faltan - sem.desalojo /\ sem'.desalojo \in Int /\ Faltan' \in Int
  <2>1. Faltan' = IF r.paso = "esperar" THEN r.faltan ELSE 0
    BY <1>1, <1>2, <1>5 DEF Faltan
  <2>2. QED
    BY <1>4, <1>f, <2>1
<1>12. CuentaAcks'
  BY <1>10, <1>11, <1>f DEF Acks, CuentaAcks
<1>13. QED
  BY <1>1, <1>2, <1>4, <1>6, <1>9, <1>12, AcksPor

\* No answer is pending when a compaction asks for them: the CPUs it writes to
\* are those it will wait for.
LEMMA DesalojarAcks == ASSUME InvAcks, NEW c \in CPUS, desalojar_por_compactacion(c) PROVE Acks'
<1> USE DEF InvAcks, InvLugar
<1> DEFINE ocupadas == {d \in Conectadas : cpu[d].pcb # Nadie}
           avisadas == {d \in ocupadas \ {c} : ~cpu[d].control}
           r == [manejador[c] EXCEPT !.paso = "esperar", !.faltan = Cardinality(avisadas),
                                     !.totales = Append(@, Cardinality(ocupadas))]
<1>1. /\ manejador' = [manejador EXCEPT ![c] = r] /\ manejador[c].paso = "desalojar"
      /\ UNCHANGED <<exec_lista, a_plan, planif, temporizador, vida, mutex_socket>>
      /\ sem' = IF c \in ocupadas THEN [sem EXCEPT !.ready = @ + 1] ELSE sem
      /\ cpu' = [d \in CPUS |->
              IF d \in ocupadas /\ d = c
                THEN [cpu[d] EXCEPT !.pcb = Nadie, !.control = FALSE]
              ELSE IF d \in avisadas
                THEN [cpu[d] EXCEPT !.control = TRUE, !.ack = TRUE]
              ELSE cpu[d]]
      /\ a_cpu' = [d \in CPUS |->
              IF d \in avisadas
              THEN Append(a_cpu[d], Msj("COMPACTACION", cpu[d].pcb))
              ELSE a_cpu[d]]
  BY Zenon DEF desalojar_por_compactacion, Seguir, Paso, memoria
<1>2. Conectadas \subseteq CPUS
  BY Finitos
<1>3. avisadas \subseteq CPUS \ {c} /\ avisadas \subseteq Conectadas
      /\ \A d \in avisadas : cpu[d].pcb \in PIDS
  BY <1>2 DEF InvReady, TypeOK, RegCpu, PidONadie
<1>4. r.paso = "esperar" /\ r.faltan = Cardinality(avisadas)
  <2>1. manejador[c] \in RegManejador
    BY DEF InvReady, TypeOK
  <2> HIDE DEF avisadas, ocupadas
  <2>2. QED
    BY <2>1 DEF RegManejador
<1>5. sem'.desalojo = sem.desalojo
  <2> HIDE DEF ocupadas
  <2>1. QED
    BY <1>1 DEF InvReady, TypeOK
<1> HIDE DEF r
<1>6. mutex_socket = c /\ c # Nadie /\ Cede(c)
  BY <1>1, SupuestosDespacho DEF Acks, Turno, CON_SOCKET, Cede
<1>7. Faltan = 0
  BY <1>1, <1>6 DEF Faltan
<1>8. /\ IsFiniteSet(Adeudan) /\ Cardinality(Adeudan) \in Nat
      /\ IsFiniteSet(Avisadas) /\ Cardinality(Avisadas) \in Nat /\ sem.desalojo \in Nat
  BY AcksFinitos
<1>9. sem.desalojo = 0 /\ Cardinality(Adeudan) = 0 /\ Cardinality(Avisadas) = 0
  BY <1>7, <1>8 DEF Acks, CuentaAcks
<1>10. Adeudan = {} /\ Avisadas = {}
  BY <1>8, <1>9, FS_EmptySet
<1>11. \A x \in CPUS : cpu[x].ack = FALSE
  BY <1>10 DEF Avisadas, InvReady, TypeOK, RegCpu
<1>12. \A x \in CPUS : cpu'[x].ack <=> x \in avisadas
  <2>1. ASSUME NEW x \in CPUS PROVE cpu'[x].ack <=> x \in avisadas
    <3>1. cpu[x] \in RegCpu /\ cpu[x].ack = FALSE /\ (x \in avisadas => x # c)
      BY <1>3, <1>11 DEF InvReady, TypeOK
    <3> HIDE DEF avisadas, ocupadas
    <3>2. QED
      BY <1>1, <3>1 DEF RegCpu
  <2>2. QED
    BY <2>1
<1>13. Avisadas' = avisadas
  BY <1>3, <1>12 DEF Avisadas
<1>14. Adeudan' = {}
  BY <1>1, <1>4, <1>10, AdeudanCon
<1>15. Faltan' = Cardinality(avisadas)
  <2>1. manejador'[c] = r
    BY <1>1 DEF InvReady, TypeOK
  <2>2. QED
    BY <1>1, <1>4, <1>6, <2>1 DEF Faltan
<1>16. Cardinality(avisadas) \in Nat
  BY <1>3, FS_Subset, FS_CardinalityType, SupuestosDespacho
<1>17. CuentaAcks'
  <2>1. Cardinality(Adeudan') = 0
    BY <1>14, FS_EmptySet
  <2> HIDE DEF avisadas
  <2>2. QED
    BY <1>5, <1>9, <1>13, <1>15, <1>16, <2>1 DEF CuentaAcks
<1>18. ASSUME NEW x \in CPUS PROVE Canal(a_cpu[x], a_plan[x], cpu[x].ack, Vale(x))'
  <2> DEFINE V == Vale(x)
             W == Vale(x)'
             m == Msj("COMPACTACION", cpu[x].pcb)
  <2>1. /\ a_cpu[x] \in Seq(MsjACpu) /\ Sano(a_cpu[x], FALSE, V) /\ Sano(a_plan[x], FALSE, V)
        /\ a_plan'[x] = a_plan[x]
    BY <1>1, <1>11 DEF Acks, Canales, Canal, InvReady, TypeOK
  <2>2. Avisos(a_cpu[x]) = {} /\ Avisos(a_plan[x]) = {}
    BY <2>1 DEF Sano
  <2>3. CASE x \in avisadas
    <3>1. a_cpu'[x] = Append(a_cpu[x], m)
      BY <1>1, <2>3
    <3>2. m \in MsjACpu /\ m.tipo = "COMPACTACION" /\ m.pid = cpu[x].pcb
      BY <1>3, <2>3 DEF Msj, MsjACpu, INTERRUPCIONES
    <3>3. cpu'[x].pcb = cpu[x].pcb /\ cpu'[x].ack = TRUE
      <4>1. cpu[x] \in RegCpu /\ x # c
        BY <1>3, <2>3 DEF InvReady, TypeOK
      <4> HIDE DEF avisadas, ocupadas
      <4>2. QED
        BY <1>1, <2>3, <4>1 DEF RegCpu
    <3>4. m.pid \in W
      BY <1>3, <2>3, <3>2, <3>3 DEF Vale
    <3> HIDE DEF m, V, W, avisadas
    <3>5. Sano(Append(a_cpu[x], m), TRUE, W)
      BY <2>1, <2>2, <3>2, <3>4, SanoAvisa
    <3>6. Sano(a_plan[x], TRUE, W)
      BY <2>1, <2>2, SanoSinAvisos
    <3>7. Canal(a_cpu'[x], a_plan'[x], cpu'[x].ack, W)
      BY <2>1, <2>2, <3>1, <3>3, <3>5, <3>6 DEF Canal
    <3>8. QED
      BY <3>7 DEF W
  <2>4. CASE x \notin avisadas
    <3>1. a_cpu'[x] = a_cpu[x]
      BY <1>1, <2>4
    <3> HIDE DEF V, W, avisadas
    <3>2. Sano(a_cpu[x], cpu'[x].ack, W) /\ Sano(a_plan[x], cpu'[x].ack, W)
      BY <2>1, <2>2, SanoSinAvisos
    <3>3. Canal(a_cpu'[x], a_plan'[x], cpu'[x].ack, W)
      BY <2>1, <2>2, <3>1, <3>2 DEF Canal
    <3>4. QED
      BY <3>3 DEF W
  <2>5. QED
    BY <2>3, <2>4
<1>19. Canales'
  BY <1>18 DEF Canales
<1>20. r.paso \in PASOS_FIFO
  BY <1>4 DEF PASOS_FIFO, PASOS
<1>21. mutex_socket' = c /\ \A x \in CPUS : cpu'[x].ack => cpu[x].ack \/ x \in Conectadas
  BY <1>1, <1>3, <1>6, <1>12
<1>22. QED
  BY <1>1, <1>6, <1>17, <1>19, <1>20, <1>21, AcksPor

\* Every message a handler may take.
LEMMA RecepcionAcks ==
    ASSUME InvAcks, SinCruces, NEW c \in CPUS, Recepcion(c) PROVE Acks'
<1> USE DEF InvAcks, InvLugar
<1>1. a_plan[c] # <<>> => Head(a_plan[c]).tipo \notin {"FINALIZAR_POR_QUANTUM", "SLEEP"}
  <2>1. SUFFICES ASSUME a_plan[c] # <<>>
                 PROVE  Head(a_plan[c]).tipo \notin {"FINALIZAR_POR_QUANTUM", "SLEEP"}
    OBVIOUS
  <2>2. Head(a_plan[c]) \in MsjAPlan /\ a_plan[c] \in Seq(MsjAPlan)
    BY <2>1, HeadTailProperties DEF InvReady, TypeOK
  <2>3. Sano(a_plan[c], cpu[c].ack, Vale(c))
    BY DEF Acks, Canales, Canal
  <2>4. Head(a_plan[c]).tipo # "FINALIZAR_POR_QUANTUM"
    BY <2>1, <2>2, <2>3, SanoLee
  <2>5. QED
    BY <2>2, <2>4 DEF SinCruces, MsjAPlan, INTERRUPCIONES
<1>2. ~FINALIZAR_POR_QUANTUM(c) /\ ~SLEEP(c)
  <2>1. FINALIZAR_POR_QUANTUM(c) => FALSE
    BY <1>1 DEF FINALIZAR_POR_QUANTUM, SacarDeCpu, Recibir
  <2>2. SLEEP(c) => FALSE
    BY <1>1 DEF SLEEP, BuscarCpu, Recibir
  <2>3. QED
    BY <2>1, <2>2
<1>3. CASE MEM_ALLOC(c)
  <2> DEFINE d == encontrar_cpu_con_pid(Head(a_plan[c]).pid)
             r == IF d = Nadie THEN Ocioso
                  ELSE [Ocioso EXCEPT !.paso = "pedir", !.pid = Head(a_plan[c]).pid, !.cpu = d]
  <2>1. /\ a_plan[c] # <<>> /\ Recibir(c, {"MEM_ALLOC"}, r)
        /\ UNCHANGED <<exec_lista, cpu, a_cpu, planif, temporizador, mutex_socket, vida, sem>>
    BY <1>3 DEF MEM_ALLOC, BuscarCpu, memoria
  <2>2. r.paso \in PASOS_FIFO \ {"esperar", "enlistar_primero"} /\ r.paso \notin CON_SOCKET
    BY DEF Ocioso, PASOS_FIFO, PASOS, CON_SOCKET
  <2> HIDE DEF r
  <2>3. QED
    BY <2>1, <2>2, RecibirAcks
<1>4. CASE MEM_FREE(c) \/ INIT_PROC(c, PIDS)
  <2> DEFINE r == [Ocioso EXCEPT !.paso = "buscar", !.pid = Head(a_plan[c]).pid]
  <2>1. PICK tipos : a_plan[c] # <<>> /\ Recibir(c, tipos, r)
    BY <1>4 DEF MEM_FREE, INIT_PROC
  <2>2. UNCHANGED <<exec_lista, cpu, a_cpu, planif, temporizador, mutex_socket>>
    BY <1>4 DEF MEM_FREE, INIT_PROC, memoria
  <2>3. sem'.desalojo = sem.desalojo
    BY <1>4 DEF MEM_FREE, INIT_PROC, InvReady, TypeOK
  <2>4. \A p \in PIDS : vida[p] = "fin" => vida'[p] = "fin"
    BY <1>4 DEF MEM_FREE, INIT_PROC, InvReady, TypeOK
  <2>5. r.paso \in PASOS_FIFO \ {"esperar", "enlistar_primero"} /\ r.paso \notin CON_SOCKET
    BY DEF Ocioso, PASOS_FIFO, PASOS, CON_SOCKET
  <2> HIDE DEF r
  <2>6. QED
    BY <2>1, <2>2, <2>3, <2>4, <2>5, RecibirAcks
<1>5. QED
  BY <1>2, <1>3, <1>4, ExitAcks, CompactacionAcks DEF Recepcion

\* The other steps of a handler are those of SLEEP and of the quantum.
LEMMA ManejadorAcks ==
    ASSUME InvAcks, SinCruces, NEW c \in CPUS, Manejador(c) PROVE Acks'
<1>1. manejador[c].paso \in PASOS_FIFO
  BY DEF InvAcks, Acks, Puesto
<1>2. ~EncolarReady(c) /\ ~LeerPcb(c) /\ ~bloquear_proceso(c) /\ ~PasarABlock(c)
  BY <1>1 DEF PASOS_FIFO, Paso, EncolarReady, LeerPcb, bloquear_proceso, PasarABlock
<1>3. QED
  BY <1>2, RecepcionAcks, EnlistarAcks, FinAcks, BuscarAcks, SacarSinMemoriaAcks, PedirAcks,
     DespostearAcks, DesalojarAcks, EsperarAcks, ExitosaAcks, FinCompactacionAcks DEF Manejador

\* At the start nobody waits for an answer.
LEMMA InicioAcks == ASSUME Init PROVE Acks
<1>1. /\ \A c \in CPUS : /\ cpu[c] = CpuNueva /\ a_cpu[c] = <<>> /\ a_plan[c] = <<>>
                         /\ manejador[c] = Ocioso /\ temporizador[c] = Nadie
      /\ planif.paso = "esperar_ready" /\ sem.desalojo = 0 /\ mutex_socket = Nadie
  BY DEF Init
<1>2. Ocioso.paso = "recibir" /\ CpuNueva.ack = FALSE
  BY DEF Ocioso, CpuNueva
<1>3. Avisos(<<>>) = {} /\ \A pids : Sano(<<>>, FALSE, pids)
  BY DEF Avisos, Sano
<1>4. \A c \in CPUS : Canal(a_cpu[c], a_plan[c], cpu[c].ack, Vale(c))
  BY <1>1, <1>2, <1>3 DEF Canal
<1>5. Adeudan = {} /\ Avisadas = {} /\ Faltan = 0
  BY <1>1, <1>2 DEF Adeudan, Avisadas, Faltan
<1>6. CuentaAcks
  BY <1>1, <1>5, FS_EmptySet DEF CuentaAcks
<1>7. Turno /\ \A c \in CPUS : Puesto(c)
  BY <1>1, <1>2 DEF Turno, Puesto, CON_SOCKET, PASOS_FIFO, PASOS
<1>8. QED
  BY <1>1, <1>4, <1>6, <1>7 DEF Acks, Canales

\* Every step keeps the invariant.
LEMMA PasoAcks == ASSUME InvAcks, SinCruces, [Next]_vars PROVE InvAcks'
<1>1. InvLugar'
  BY PasoLugar DEF InvAcks
<1>2. CASE planificador
  BY <1>1, <1>2, EsperasAcks, DespacharAcks, SinTimers DEF planificador, InvAcks
<1>3. CASE FINALIZAR_SLEEP
  BY <1>1, <1>3, FinSleepAcks DEF InvAcks
<1>4. ASSUME NEW c \in CPUS,
             \/ ConectarCpu(c)
             \/ Cpu(c)
             \/ Programa(c)
             \/ Manejador(c)
             \/ hilo_timer_quantum(c)
      PROVE  Acks'
  BY <1>4, ConectarAcks, CpuAcks, SyscallAcks, ManejadorAcks, SinTimers
<1>5. CASE UNCHANGED vars
  <2>1. UNCHANGED <<exec_lista, cpu, a_cpu, a_plan, manejador, temporizador, vida, mutex_socket,
                    planif, sem>>
    BY <1>5 DEF vars, memoria
  <2>2. Acks'
    BY <2>1, AcksIgual DEF InvAcks, Acks
  <2>3. QED
    BY <1>1, <2>2 DEF InvAcks
<1>6. QED
  BY <1>1, <1>2, <1>3, <1>4, <1>5 DEF Next, InvAcks

\* With FIFO and without SLEEP, each answer a compaction waits for is posted
\* once, by the handler of the CPU it was asked from.
THEOREM AcksSiempre == ASSUME SinCruces PROVE Spec => []InvAcks
<1>1. Init => InvAcks
  BY InicioLugar, InicioAcks DEF InvAcks
<1>2. InvAcks /\ [Next]_vars => InvAcks'
  BY PasoAcks
<1>3. QED
  BY <1>1, <1>2, PTL DEF Spec

\* When the last answer is taken no CPU is left to answer: Kernel Memory begins
\* to move the segments only after every CPU that was asked to stop has stopped.
THEOREM TodosContestaron == ASSUME SinCruces PROVE Spec => []AcksRecibidos
<1>1. InvAcks => AcksRecibidos
  <2>1. SUFFICES ASSUME InvAcks, NEW c \in CPUS, Paso(c, "compactar"), NEW d \in CPUS
                 PROVE  ~cpu[d].ack
    BY DEF AcksRecibidos
  <2>2. mutex_socket = c /\ Faltan = 0
    BY <2>1 DEF InvAcks, Acks, Turno, CON_SOCKET, Paso, Faltan
  <2>3. IsFiniteSet(Avisadas) /\ Cardinality(Avisadas) \in Nat /\ Cardinality(Adeudan) \in Nat
        /\ sem.desalojo \in Nat
    BY <2>1, AcksFinitos DEF InvAcks, InvLugar
  <2>4. Cardinality(Avisadas) = 0
    BY <2>1, <2>2, <2>3 DEF InvAcks, Acks, CuentaAcks
  <2>5. Avisadas = {}
    BY <2>3, <2>4, FS_EmptySet
  <2>6. QED
    BY <2>5 DEF Avisadas
<1>2. QED
  BY <1>1, AcksSiempre, PTL
=============================================================================
