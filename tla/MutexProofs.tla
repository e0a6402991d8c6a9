---------------------------- MODULE MutexProofs ----------------------------
(***************************************************************************)
(* The properties of MutexUsuario proved for any number of processes,      *)
(* CPUs, mutexes and priorities.  The invariant Inv is inductive as a       *)
(* whole; its parts are                                                    *)
(*                                                                         *)
(*   TypeOK, Hilos     the types, and the step at which each thread is;    *)
(*   Sitios            every live process is in one place;                 *)
(*   Heredero          an owner taken out of its queue does inherit;       *)
(*   Despiertos        whoever is being woken is where it is looked for;   *)
(*   Cuentas, Espera, Tienen, Repartidos                                   *)
(*                     the list of mutexes, who waits, who has, and those  *)
(*                     of a process that ended;                            *)
(*   Prestada          a priority is inherited by owners only.             *)
(*                                                                         *)
(* Each action is first reduced to what it does (the lemmas ...Efecto and   *)
(* ...Paso), so that its definition is opened once.  For the mutexes, a    *)
(* step either leaves them and the programs alone (Sosiego) or is one of   *)
(* the six of Escribe, which write one mutex in one of five ways: Toma,    *)
(* Une, Entrega, Suelta, Agrega.  The same five are what a step does to    *)
(* the lines of Turnos, which MutexUsuario implements.                     *)
(***************************************************************************)
EXTENDS MutexUsuario, ListasProofs

-----------------------------------------------------------------------------
(* The parts of the inductive invariant.                                   *)

\* The steps of MUTEX_LOCK that look for the owner, and lend it a priority.
BUSCANDO == {"en_exec", "en_ready", "en_block", "en_susp_block", "en_susp_ready",
             "heredar", "transitiva"}

\* The steps that take a process out of the blocked ones and make it ready.
DESPERTANDO == {"sacar", "encolar", "de_susp_block", "a_susp_ready",
                "pedir_desuspender", "desuspender"}

\* The steps of each call, of the handler of a CPU and of the other two threads.
PasoDe(h, syscall, paso) ==
    \/ syscall = "ninguna" /\ paso = "recibir"
    \/ /\ h \in CPUS
       /\ \/ syscall = "MUTEX_LOCK" /\ paso \in BUSCANDO \cup {"dejar_cpu", "a_block", "sin_respuesta"}
          \/ syscall = "SLEEP" /\ paso \in {"dejar_cpu", "a_block"}
          \/ syscall = "MUTEX_UNLOCK"
                /\ paso \in DESPERTANDO \cup {"recalcular", "reponer", "sin_respuesta"}
          \/ syscall = "EXIT" /\ paso \in DESPERTANDO \cup {"morir", "muerte"}
          \/ syscall = "DESALOJO" /\ paso = "encolar"
    \/ h = Io /\ syscall = "FINALIZAR_SLEEP" /\ paso \in DESPERTANDO
    \/ h = Escucha /\ syscall = "AVISO" /\ paso = "desuspender"

\* What a thread keeps fits the call it serves, and the handlers that keep the list of mutexes
\* locked have it.
Hilo(h) ==
    LET m == manejador[h] IN
    /\ PasoDe(h, m.syscall, m.paso)
    /\ m.paso \in BUSCANDO \cup DESPERTANDO => m.otro \in PIDS
    /\ m.sacado => m.paso \in {"heredar", "transitiva"}
    /\ m.paso = "recibir" => m = Libre
    /\ m.paso = "reponer" => m.nueva \in PRIORIDADES
    /\ m.paso = "transitiva" => m.i >= 1
    /\ m.paso = "sin_respuesta" => m.pid = Nadie
    /\ m.syscall \in {"DESALOJO", "FINALIZAR_SLEEP", "AVISO"} => m.pid = Nadie
    /\ m.syscall \in {"MUTEX_LOCK", "MUTEX_UNLOCK", "SLEEP"} /\ m.paso # "sin_respuesta" =>
          m.pid \in PIDS /\ (m.paso # "a_block" => cpu[h] = m.pid)
    /\ m.syscall = "EXIT" => m.pid \in PIDS \ vivos
    /\ m.syscall = "MUTEX_LOCK" /\ m.paso # "sin_respuesta" => mutex_lista = h
    /\ m.syscall = "EXIT" /\ m.paso # "morir" => mutex_lista = h

\* Every thread is at a step of the call it serves.
Hilos == \A h \in HILOS : Hilo(h)

\* The counter and the queue of a mutex go together, and no two have the same name.
Cuentas ==
    /\ \A i \in DOMAIN lista_mutex :
          LET m == lista_mutex[i] IN
          /\ m.contador = IF Tomado(m) THEN 0 - Len(m.colaEspera) ELSE 1
          /\ ~Tomado(m) => m.colaEspera = <<>>
          /\ Tomado(m) => m.pid \in PIDS
    /\ \A i, j \in DOMAIN lista_mutex :
          lista_mutex[i].nombre = lista_mutex[j].nombre => i = j

\* The t_pcb that a thread holds out of every list.
Mano(h) ==
    LET m == manejador[h] IN
    IF m.paso \in {"encolar", "a_susp_ready", "desuspender"} \/ m.sacado THEN {m.otro}
    ELSE IF m.paso = "a_block" THEN {m.pid} ELSE {}

\* Those that some thread has in hand, and the one the planner has.
Manos == UNION {Mano(h) : h \in HILOS}
EnPlanif == {planif.pcb} \ {Nadie}

\* The processes of all the places together: running, ready, in hand, in the planner, blocked,
\* suspended blocked and suspended ready.
Vivos(C, R, M, P, b, sb, sr) == C \cup R \cup M \cup P \cup b \cup sb \cup sr

\* No two places share a process.
Disjuntos(C, R, M, P, b, sb, sr) ==
    /\ C \cap (R \cup M \cup P \cup b \cup sb \cup sr) = {}
    /\ R \cap (M \cup P \cup b \cup sb \cup sr) = {}
    /\ M \cap (P \cup b \cup sb \cup sr) = {}
    /\ P \cap (b \cup sb \cup sr) = {}
    /\ b \cap (sb \cup sr) = {}
    /\ sb \cap sr = {}

\* No process is twice in the ready queues.
ColasSueltas(f) ==
    /\ \A k \in PRIORIDADES : IsInjective(f[k])
    /\ \A k, j \in PRIORIDADES : k # j => ToSet(f[k]) \cap ToSet(f[j]) = {}

\* Two CPUs do not run one process, and two threads do not hold one t_pcb.
CpusSueltas == \A c, e \in CPUS : cpu[c] # Nadie /\ cpu[c] = cpu[e] => c = e
ManosSueltas == \A h, g \in HILOS : h # g => Mano(h) \cap Mano(g) = {}

\* A live process is in one place, once.
Sitios ==
    /\ CpusSueltas /\ ManosSueltas /\ ColasSueltas(cola)
    /\ Disjuntos(Ejecutando, EnReady, Manos, EnPlanif, block, susp_block, susp_ready)
    /\ vivos = Vivos(Ejecutando, EnReady, Manos, EnPlanif, block, susp_block, susp_ready)

\* An owner out of its queue will inherit.
Heredero ==
    \A c \in CPUS : manejador[c].paso = "heredar" /\ manejador[c].sacado =>
        prioridad[manejador[c].otro] > prioridad[manejador[c].pid]

\* Who waits for some mutex.
EnEspera == UNION {Esperan(lista_mutex[i]) : i \in DOMAIN lista_mutex}

\* Who a thread looks for to wake it is there, waits for nothing and is nobody else's.
Despiertos ==
    /\ \A h \in HILOS :
          LET m == manejador[h] IN
          /\ m.paso = "sacar" => m.otro \in block \cup susp_block
          /\ m.paso = "de_susp_block" => m.otro \in susp_block
          /\ m.paso = "pedir_desuspender" => m.otro \in susp_ready \cap SIN_MEMORIA
          /\ m.paso \in {"sacar", "de_susp_block"} =>
                m.otro \notin EnEspera \cup ToSet(cola_sleep)
    /\ \A h, g \in HILOS :
          /\ manejador[h].paso \in {"sacar", "de_susp_block", "pedir_desuspender"}
          /\ manejador[g].paso \in {"sacar", "de_susp_block", "pedir_desuspender"}
          /\ manejador[h].otro = manejador[g].otro
          => h = g
    /\ IsInjective(cola_sleep)
    /\ \A p \in ToSet(cola_sleep) : p \in block \cup susp_block /\ pide[p] = Nadie

\* The owner i of a mutex, for a program that asked for it.
Duenio(p, n) ==
    \E i \in DOMAIN lista_mutex :
        /\ lista_mutex[i].nombre = n /\ Tomado(lista_mutex[i]) /\ lista_mutex[i].pid = p

\* Who waits is in the queue of the mutex that it asked for, once, and is blocked or on its way
\* there; who asked for one waits for it or has been given it.
Espera ==
    /\ \A i \in DOMAIN lista_mutex :
          LET m == lista_mutex[i] IN
          /\ IsInjective(m.colaEspera)
          /\ \A p \in Esperan(m) :
                /\ pide[p] = m.nombre /\ p # m.pid
                /\ p \in block \cup susp_block \/ EnLlamada(p, "MUTEX_LOCK")
          /\ Tomado(m) /\ m.pid \in vivos =>
                m.nombre \in tiene[m.pid] \/ pide[m.pid] = m.nombre
    /\ \A p \in PIDS : pide[p] # Nadie =>
          Duenio(p, pide[p]) \/ \E i \in DOMAIN lista_mutex :
                                   lista_mutex[i].nombre = pide[p] /\ p \in Esperan(lista_mutex[i])
    /\ \A p \in PIDS \ vivos : pide[p] = Nadie
    /\ \A c \in CPUS : cpu[c] # Nadie /\ pide[cpu[c]] # Nadie =>
          manejador[c].syscall = "MUTEX_LOCK" /\ manejador[c].pid = cpu[c]
    /\ \A c \in CPUS : manejador[c].syscall = "SLEEP" => pide[manejador[c].pid] = Nadie

\* Whoever has a mutex is alive and its owner.
Tienen == \A p \in PIDS : \A n \in tiene[p] : p \in vivos /\ Duenio(p, n)

\* An EXIT has already passed on the mutexes before place i.
Repartidos ==
    /\ SinHuerfanos
    /\ \A c \in CPUS : manejador[c].syscall = "EXIT" /\ manejador[c].paso # "morir" =>
          \A j \in DOMAIN lista_mutex : j < manejador[c].i /\ Tomado(lista_mutex[j]) =>
              lista_mutex[j].pid # manejador[c].pid

\* p owns some mutex.
DeAlguno(p) == \E i \in DOMAIN lista_mutex : Tomado(lista_mutex[i]) /\ lista_mutex[i].pid = p

\* Only an owner, or who is unlocking, has a priority that is not its own.
Prestada ==
    /\ \A p \in vivos : prioridad[p] = ORIGINAL[p] \/ DeAlguno(p)
                           \/ \E c \in CPUS : /\ manejador[c].syscall = "MUTEX_UNLOCK"
                                              /\ manejador[c].pid = p
    /\ \A c \in CPUS :
          LET m == manejador[c] IN
          /\ m.paso = "reponer" => m.nueva = ORIGINAL[m.pid] \/ DeAlguno(m.pid)
          /\ m.paso \in BUSCANDO => DeAlguno(m.otro)

\* The inductive invariant: the steps of the threads, the list of mutexes, the places, the
\* processes being woken, who waits for what, and the priorities that are lent.
Inv == /\ TypeOK /\ Hilos /\ Cuentas /\ Sitios /\ Heredero /\ Despiertos
       /\ Espera /\ Tienen /\ Repartidos /\ Prestada

-----------------------------------------------------------------------------
\* encolar_pcb_ready uses a queue that there is.
LEMMA ColaHay ==
    ASSUME NEW p \in PIDS, NEW prio \in [PIDS -> PRIORIDADES]
    PROVE  ColaDe(p, prio) \in PRIORIDADES
<1>1. ORIGINAL[p] \in 0 .. CANTIDAD_COLAS - 1 /\ CANTIDAD_COLAS \in Nat
  BY SupuestosMutex
<1>2. 0 \in PRIORIDADES
  BY <1>1 DEF PRIORIDADES
<1>3. QED
  BY <1>2 DEF ColaDe

\* Who is in the queues f.
EnColas(f) == UNION {ToSet(f[k]) : k \in PRIORIDADES}

\* One more process at the end of one queue.
LEMMA AgregarACola ==
    ASSUME NEW f \in [PRIORIDADES -> Seq(PIDS)], NEW p \in PIDS, NEW j \in PRIORIDADES,
           ColasSueltas(f), p \notin EnColas(f)
    PROVE  LET g == [f EXCEPT ![j] = Append(@, p)]
           IN  /\ g \in [PRIORIDADES -> Seq(PIDS)] /\ ColasSueltas(g)
               /\ EnColas(g) = EnColas(f) \cup {p}
<1> DEFINE g == [f EXCEPT ![j] = Append(@, p)]
<1>1. f[j] \in Seq(PIDS) /\ p \notin ToSet(f[j]) /\ IsInjective(f[j])
  BY DEF EnColas, ColasSueltas
<1>2. /\ Append(f[j], p) \in Seq(PIDS) /\ ToSet(Append(f[j], p)) = ToSet(f[j]) \cup {p}
      /\ IsInjective(Append(f[j], p))
  BY <1>1, AlFinal
<1>3. /\ g \in [PRIORIDADES -> Seq(PIDS)] /\ ToSet(g[j]) = ToSet(f[j]) \cup {p}
      /\ IsInjective(g[j]) /\ \A k \in PRIORIDADES : k # j => g[k] = f[k]
  BY <1>2
<1> HIDE DEF g
<1>4. ColasSueltas(g)
  <2>1. \A k \in PRIORIDADES : p \notin ToSet(f[k])
    BY DEF EnColas
  <2>2. \A k \in PRIORIDADES : IsInjective(g[k])
    BY <1>3 DEF ColasSueltas
  <2>3. \A k \in PRIORIDADES : ToSet(g[k]) \subseteq ToSet(f[k]) \cup {p}
    BY <1>3
  <2>4. \A k \in PRIORIDADES : k # j => ToSet(g[k]) = ToSet(f[k])
    BY <1>3
  <2>5. ASSUME NEW k \in PRIORIDADES, NEW l \in PRIORIDADES, k # l, NEW x \in ToSet(g[k]) \cap ToSet(g[l])
        PROVE  FALSE
    <3>1. k # j \/ l # j
      BY <2>5
    <3>2. x \in ToSet(f[k]) \/ x \in ToSet(f[l])
      BY <2>5, <2>4, <3>1
    <3>3. x # p
      BY <2>1, <3>2
    <3>4. x \in ToSet(f[k]) \cap ToSet(f[l])
      BY <2>5, <2>3, <3>3
    <3>5. QED
      BY <2>5, <3>4 DEF ColasSueltas
  <2>6. QED
    BY <2>2, <2>5 DEF ColasSueltas
<1>5. \A x : x \in EnColas(g) <=> x \in EnColas(f) \cup {p}
  BY <1>3 DEF EnColas
<1>6. QED
  BY <1>3, <1>4, <1>5 DEF g

\* list_remove_element on every queue: the process leaves the one it is in.
LEMMA QuitarDeColas ==
    ASSUME NEW f \in [PRIORIDADES -> Seq(PIDS)], NEW p \in PIDS, ColasSueltas(f)
    PROVE  LET g == [k \in PRIORIDADES |-> RemoveFirst(f[k], p)]
           IN  /\ g \in [PRIORIDADES -> Seq(PIDS)] /\ ColasSueltas(g)
               /\ EnColas(g) = EnColas(f) \ {p}
<1> DEFINE g == [k \in PRIORIDADES |-> RemoveFirst(f[k], p)]
<1>1. ASSUME NEW k \in PRIORIDADES
      PROVE  /\ RemoveFirst(f[k], p) \in Seq(PIDS) /\ IsInjective(RemoveFirst(f[k], p))
             /\ ToSet(RemoveFirst(f[k], p)) = ToSet(f[k]) \ {p}
  <2>1. f[k] \in Seq(PIDS) /\ IsInjective(f[k])
    BY DEF ColasSueltas
  <2>2. QED
    BY <2>1, SacarQuita
<1>2. /\ g \in [PRIORIDADES -> Seq(PIDS)]
      /\ \A k \in PRIORIDADES : IsInjective(g[k]) /\ ToSet(g[k]) = ToSet(f[k]) \ {p}
  BY <1>1
<1> HIDE DEF g
<1>3. ColasSueltas(g)
  BY <1>2 DEF ColasSueltas
<1>4. \A x : x \in EnColas(g) <=> x \in EnColas(f) \ {p}
  BY <1>2 DEF EnColas
<1>5. QED
  BY <1>2, <1>3, <1>4 DEF g

\* desencolar_pcb_ready finds a queue that is not empty, when there is one.
LEMMA ElegidaHay ==
    ASSUME cola \in [PRIORIDADES -> Seq(PIDS)], EnReady # {}
    PROVE  colaElegida \in PRIORIDADES /\ cola[colaElegida] # <<>>
<1> DEFINE T == {k \in PRIORIDADES : cola[k] # <<>>}
<1>1. T \in SUBSET Nat
  BY SupuestosMutex DEF PRIORIDADES
<1>2. T # {}
  <2>1. PICK k \in PRIORIDADES : ToSet(cola[k]) # {}
    BY DEF EnReady
  <2>2. cola[k] # <<>>
    BY <2>1 DEF ToSet
  <2>3. QED
    BY <2>2
<1>3. Min(T) \in T /\ \A j \in T : Min(T) <= j
  <2> HIDE DEF T
  <2> QED BY <1>1, <1>2, HayPrimero
<1>4. Min(T) \in PRIORIDADES /\ cola[Min(T)] # <<>>
      /\ \A j \in PRIORIDADES : cola[j] # <<>> => Min(T) <= j
  BY <1>3
<1> HIDE DEF T
<1>5. QED
  BY <1>4 DEF colaElegida

\* What the planner takes leaves its queue.
LEMMA DesencolarDe ==
    ASSUME NEW f \in [PRIORIDADES -> Seq(PIDS)], NEW j \in PRIORIDADES, f[j] # <<>>,
           ColasSueltas(f)
    PROVE  LET g == [f EXCEPT ![j] = Tail(@)]
           IN  /\ Head(f[j]) \in PIDS
               /\ g \in [PRIORIDADES -> Seq(PIDS)] /\ ColasSueltas(g)
               /\ EnColas(f) = EnColas(g) \cup {Head(f[j])} /\ Head(f[j]) \notin EnColas(g)
<1> DEFINE g == [f EXCEPT ![j] = Tail(@)]
<1>1. f[j] \in Seq(PIDS) /\ IsInjective(f[j])
  BY DEF ColasSueltas
<1>2. /\ Head(f[j]) \in PIDS /\ Tail(f[j]) \in Seq(PIDS) /\ IsInjective(Tail(f[j]))
      /\ ToSet(f[j]) = ToSet(Tail(f[j])) \cup {Head(f[j])} /\ Head(f[j]) \notin ToSet(Tail(f[j]))
  BY <1>1, SinElPrimero
<1>3. /\ g \in [PRIORIDADES -> Seq(PIDS)] /\ ToSet(f[j]) = ToSet(g[j]) \cup {Head(f[j])}
      /\ Head(f[j]) \notin ToSet(g[j]) /\ IsInjective(g[j])
      /\ \A k \in PRIORIDADES : k # j => g[k] = f[k]
  BY <1>2
<1> HIDE DEF g
<1>4. ColasSueltas(g) /\ \A k \in PRIORIDADES : k # j => Head(f[j]) \notin ToSet(g[k])
  BY <1>3 DEF ColasSueltas
<1>5. \A x : x \in EnColas(f) <=> x \in EnColas(g) \cup {Head(f[j])}
  BY <1>3 DEF EnColas
<1>6. Head(f[j]) \notin EnColas(g)
  BY <1>3, <1>4 DEF EnColas
<1>7. QED
  BY <1>2, <1>3, <1>4, <1>5, <1>6 DEF g

\* The orders of Init.
LEMMA RepartoEs ==
    ASSUME NEW f \in Repartos
    PROVE  /\ f \in [PRIORIDADES -> Seq(PIDS)] /\ ColasSueltas(f)
           /\ EnColas(f) = PIDS
<1> DEFINE S(k) == {p \in PIDS : ColaDe(p, ORIGINAL) = k}
<1>1. f \in [PRIORIDADES -> UNION {SetToSeqs(R) : R \in SUBSET PIDS}]
      /\ \A k \in PRIORIDADES : f[k] \in SetToSeqs(S(k))
  BY DEF Repartos
<1>2. ASSUME NEW k \in PRIORIDADES
      PROVE  f[k] \in Seq(S(k)) /\ IsInjective(f[k]) /\ ToSet(f[k]) = S(k)
  <2>1. S(k) \in SUBSET PIDS
    OBVIOUS
  <2>2. IsFiniteSet(S(k)) /\ f[k] \in SetToSeqs(S(k))
    BY <1>1, <2>1, FS_Subset, SupuestosMutex
  <2> HIDE DEF S
  <2>3. QED
    BY <2>2, OrdenDe
<1>3. \A k \in PRIORIDADES : f[k] \in Seq(PIDS)
  <2>1. \A k \in PRIORIDADES : \A s \in Seq(S(k)) : s \in Seq(PIDS)
    OBVIOUS
  <2>2. QED
    BY <1>2, <2>1
<1>4. f \in [PRIORIDADES -> Seq(PIDS)]
  <2>1. f = [k \in PRIORIDADES |-> f[k]]
    BY <1>1
  <2>2. QED
    BY <1>3, <2>1
<1>5. ColasSueltas(f)
  BY <1>2 DEF ColasSueltas
<1>6. ORIGINAL \in [PIDS -> PRIORIDADES]
  BY SupuestosMutex DEF PRIORIDADES
<1>7. \A x : x \in EnColas(f) <=> x \in PIDS
  <2>1. \A p \in PIDS : ColaDe(p, ORIGINAL) \in PRIORIDADES
    BY <1>6, ColaHay
  <2>2. \A p \in PIDS : p \in S(ColaDe(p, ORIGINAL))
    OBVIOUS
  <2>3. \A k \in PRIORIDADES : S(k) \subseteq PIDS /\ ToSet(f[k]) = S(k)
    BY <1>2
  <2> HIDE DEF S
  <2>4. QED
    BY <2>1, <2>2, <2>3 DEF EnColas
<1>8. QED
  BY <1>4, <1>5, <1>7

\* buscar_mutex returns the mutex of that name.
LEMMA IndiceHay ==
    ASSUME NEW n, Creado(n)
    PROVE  Indice(n) \in DOMAIN lista_mutex /\ lista_mutex[Indice(n)].nombre = n
BY DEF Creado, Indice

\* A name leads to the mutex that has it: there is only one.
LEMMA IndiceEs ==
    ASSUME Cuentas, NEW i \in DOMAIN lista_mutex
    PROVE  Creado(lista_mutex[i].nombre) /\ Indice(lista_mutex[i].nombre) = i
BY DEF Creado, Indice, Cuentas

\* The best priority is one of those compared.
LEMMA MejorEs ==
    ASSUME prioridad \in [PIDS -> PRIORIDADES], NEW S \in SUBSET PIDS, NEW n \in PRIORIDADES
    PROVE  /\ Mejor(S, n) \in PRIORIDADES
           /\ S = {} => Mejor(S, n) = n
<1> DEFINE T == {prioridad[p] : p \in S} \cup {n}
<1>1. PRIORIDADES \subseteq Nat
  BY SupuestosMutex DEF PRIORIDADES
<1>2. T \in SUBSET PRIORIDADES /\ T # {}
  OBVIOUS
<1>3. S = {} => T = {n}
  OBVIOUS
<1>4. Mejor(S, n) = CHOOSE k \in T : \A j \in T : k <= j
  BY Zenon DEF Mejor
<1> HIDE DEF T
<1>5. Mejor(S, n) \in T
  <2>1. Min(T) \in T /\ \A j \in T : Min(T) <= j
    BY <1>1, <1>2, HayPrimero
  <2>2. QED
    BY <1>4, <2>1
<1>6. QED
  BY <1>2, <1>3, <1>5

\* A taken mutex with a queue passes to the first of it.
LEMMA EntregadoEs ==
    ASSUME NEW m \in Mutexes, m.colaEspera # <<>>
    PROVE  /\ Entregado(m) \in Mutexes
           /\ Entregado(m).nombre = m.nombre /\ Entregado(m).contador = m.contador + 1
           /\ Entregado(m).pid = Head(m.colaEspera)
           /\ Entregado(m).colaEspera = Tail(m.colaEspera)
           /\ Head(m.colaEspera) \in PIDS /\ Esperan(m) \subseteq PIDS
           /\ Len(Tail(m.colaEspera)) = Len(m.colaEspera) - 1 /\ Len(m.colaEspera) \in Nat
           /\ Esperan(m) = Esperan(Entregado(m)) \cup {Head(m.colaEspera)}
           /\ IsInjective(m.colaEspera) => /\ Head(m.colaEspera) \notin Esperan(Entregado(m))
                                           /\ IsInjective(Tail(m.colaEspera))
<1>1. m.colaEspera \in Seq(PIDS) /\ m.contador \in Int
  BY DEF Mutexes
<1>2. /\ Head(m.colaEspera) \in PIDS /\ Tail(m.colaEspera) \in Seq(PIDS)
      /\ Len(Tail(m.colaEspera)) = Len(m.colaEspera) - 1
      /\ ToSet(m.colaEspera) = ToSet(Tail(m.colaEspera)) \cup {Head(m.colaEspera)}
      /\ IsInjective(m.colaEspera) => /\ Head(m.colaEspera) \notin ToSet(Tail(m.colaEspera))
                                      /\ IsInjective(Tail(m.colaEspera))
  BY <1>1, SinElPrimero
<1> DEFINE x == Head(m.colaEspera)
           t == Tail(m.colaEspera)
           k == m.contador + 1
<1>k. k \in Int
  BY <1>1
<1>e. Entregado(m) = [m EXCEPT !.contador = k, !.pid = x, !.colaEspera = t]
  BY DEF Entregado, Mutexes
<1> HIDE DEF x, t, k
<1>3. x \in PIDS \cup {Nadie} /\ t \in Seq(PIDS)
  BY <1>2 DEF x, t
<1> DEFINE e == [m EXCEPT !.contador = k, !.pid = x, !.colaEspera = t]
<1>5. e \in Mutexes /\ e.colaEspera = t /\ e.pid = x /\ e.nombre = m.nombre /\ e.contador = k
  BY <1>3, <1>k DEF Mutexes
<1> HIDE DEF e
<1>6. Len(m.colaEspera) \in Nat /\ ToSet(m.colaEspera) \subseteq PIDS
  BY <1>1 DEF ToSet
<1>7. /\ Entregado(m).colaEspera = t /\ Entregado(m).pid = x /\ Entregado(m).nombre = m.nombre
      /\ Entregado(m).contador = m.contador + 1 /\ Entregado(m) \in Mutexes
  BY <1>5, <1>e DEF e, k
<1>8. QED
  BY <1>2, <1>5, <1>6, <1>7 DEF Esperan, x, t

\* The new owner is the only one whose priority may change.
LEMMA HeredaEs ==
    ASSUME prioridad \in [PIDS -> PRIORIDADES], NEW m \in Mutexes, m.colaEspera # <<>>
    PROVE  /\ HeredaDeLaCola(m) \in [PIDS -> PRIORIDADES]
           /\ \A p \in PIDS : p # Head(m.colaEspera) => HeredaDeLaCola(m)[p] = prioridad[p]
<1> DEFINE x == Head(m.colaEspera)
           t == ToSet(Tail(m.colaEspera))
<1>1. x \in PIDS /\ t \in SUBSET PIDS
  <2>1. m.colaEspera \in Seq(PIDS)
    BY DEF Mutexes
  <2>2. x \in PIDS /\ Tail(m.colaEspera) \in Seq(PIDS)
    BY <2>1, SinElPrimero
  <2>3. QED
    BY <2>2 DEF ToSet
<1>2. HeredaDeLaCola(m) = [prioridad EXCEPT ![x] = Mejor(t, prioridad[x])]
  BY Zenon DEF HeredaDeLaCola
<1> HIDE DEF x, t
<1>3. Mejor(t, prioridad[x]) \in PRIORIDADES
  BY <1>1, MejorEs
<1>4. QED
  BY <1>1, <1>2, <1>3 DEF x

-----------------------------------------------------------------------------
(* What a step does to the thread that makes it.                             *)

\* Thread h goes on with n, the others stay.
Pone(h, n) ==
    /\ n \in Atenciones
    /\ manejador' \in [HILOS -> Atenciones]
    /\ manejador'[h] = n
    /\ \A g \in HILOS : g # h => manejador'[g] = manejador[g]

\* Writing the record of one thread.
LEMMA Poner ==
    ASSUME manejador \in [HILOS -> Atenciones], NEW h \in HILOS, NEW n \in Atenciones,
           manejador' = [manejador EXCEPT ![h] = n]
    PROVE  Pone(h, n)
BY DEF Pone

\* Thread h is in the given call and step, with these processes in hand.
Va(h, syscall, paso, pid, otro) ==
    /\ manejador' \in [HILOS -> Atenciones]
    /\ manejador'[h].syscall = syscall /\ manejador'[h].paso = paso
    /\ manejador'[h].pid = pid /\ manejador'[h].otro = otro
    /\ \A g \in HILOS : g # h => manejador'[g] = manejador[g]

\* The same call, one step further.
LEMMA SigueVa ==
    ASSUME manejador \in [HILOS -> Atenciones], NEW h \in HILOS, NEW x \in PASOS, Sigue(h, x)
    PROVE  /\ Va(h, manejador[h].syscall, x, manejador[h].pid, manejador[h].otro)
           /\ manejador'[h].i = manejador[h].i /\ manejador'[h].sacado = manejador[h].sacado
           /\ manejador'[h].nueva = manejador[h].nueva
<1> DEFINE r == manejador[h]
           n == [r EXCEPT !.paso = x]
<1>1. r \in Atenciones
  OBVIOUS
<1>2. manejador' = [manejador EXCEPT ![h] = n]
  BY DEF Sigue
<1> HIDE DEF r
<1>3. /\ n \in Atenciones /\ n.syscall = r.syscall /\ n.paso = x /\ n.pid = r.pid /\ n.otro = r.otro
      /\ n.i = r.i /\ n.sacado = r.sacado /\ n.nueva = r.nueva
  BY <1>1 DEF Atenciones
<1> HIDE DEF n
<1>4. Pone(h, n)
  BY <1>2, <1>3, Poner
<1>5. QED
  BY <1>3, <1>4 DEF Pone, Va, r

\* The record of a thread that serves no call, and those that begin one, have their type.
LEMMA LibreEs ==
    /\ Libre \in Atenciones
    /\ \A s \in LLAMADAS, x \in PASOS, p, o \in PIDS \cup {Nadie} :
          [Libre EXCEPT !.syscall = s, !.paso = x, !.pid = p, !.otro = o] \in Atenciones
<1>1. Libre \in Atenciones
  BY DEF Libre, Atenciones, LLAMADAS, PASOS
<1>2. ASSUME NEW s \in LLAMADAS, NEW x \in PASOS, NEW p \in PIDS \cup {Nadie},
             NEW o \in PIDS \cup {Nadie}
      PROVE  [Libre EXCEPT !.syscall = s, !.paso = x, !.pid = p, !.otro = o] \in Atenciones
  BY <1>1 DEF Atenciones
<1>3. QED
  BY <1>1, <1>2

\* A call begins.
LEMMA EmpiezaVa ==
    ASSUME manejador \in [HILOS -> Atenciones], NEW h \in HILOS, NEW s \in LLAMADAS, NEW x \in PASOS,
           NEW p \in PIDS \cup {Nadie}, NEW o \in PIDS \cup {Nadie},
           manejador' = [manejador EXCEPT ![h] =
                [Libre EXCEPT !.syscall = s, !.paso = x, !.pid = p, !.otro = o]]
    PROVE  /\ Va(h, s, x, p, o)
           /\ manejador'[h].i = 0 /\ manejador'[h].sacado = FALSE /\ manejador'[h].nueva = 0
<1> DEFINE n == [Libre EXCEPT !.syscall = s, !.paso = x, !.pid = p, !.otro = o]
<1>1. n \in Atenciones
  BY LibreEs
<1>2. /\ n.syscall = s /\ n.paso = x /\ n.pid = p /\ n.otro = o
      /\ n.i = 0 /\ n.sacado = FALSE /\ n.nueva = 0
  BY DEF Libre
<1> HIDE DEF n
<1>3. Pone(h, n)
  BY <1>1, Poner DEF n
<1>4. QED
  BY <1>2, <1>3 DEF Pone, Va

\* A call ends.
LEMMA TerminaVa ==
    ASSUME manejador \in [HILOS -> Atenciones], NEW h \in HILOS,
           manejador' = [manejador EXCEPT ![h] = Libre]
    PROVE  /\ Va(h, "ninguna", "recibir", Nadie, Nadie) /\ manejador'[h] = Libre
           /\ manejador'[h].i = 0 /\ manejador'[h].sacado = FALSE /\ manejador'[h].nueva = 0
<1>1. Pone(h, Libre)
  BY LibreEs, Poner
<1>2. QED
  BY <1>1 DEF Pone, Va, Libre

\* After waking a process: MUTEX_UNLOCK and EXIT go on, the others are over.
LEMMA ProsigueVa ==
    ASSUME manejador \in [HILOS -> Atenciones], NEW h \in HILOS, Prosigue(h)
    PROVE  \/ /\ manejador[h].syscall = "MUTEX_UNLOCK"
              /\ Va(h, "MUTEX_UNLOCK", "recalcular", manejador[h].pid, Nadie)
              /\ manejador'[h].i = manejador[h].i /\ manejador'[h].sacado = manejador[h].sacado
              /\ manejador'[h].nueva = manejador[h].nueva
           \/ /\ manejador[h].syscall = "EXIT"
              /\ Va(h, "EXIT", "muerte", manejador[h].pid, Nadie)
              /\ manejador'[h].i = manejador[h].i /\ manejador'[h].sacado = manejador[h].sacado
              /\ manejador'[h].nueva = manejador[h].nueva
           \/ /\ manejador[h].syscall \notin {"MUTEX_UNLOCK", "EXIT"}
              /\ Va(h, "ninguna", "recibir", Nadie, Nadie) /\ manejador'[h] = Libre
              /\ manejador'[h].i = 0 /\ manejador'[h].sacado = FALSE /\ manejador'[h].nueva = 0
<1> DEFINE r == manejador[h]
           paso == Despues(r.syscall)
           n == [r EXCEPT !.paso = paso, !.otro = Nadie]
<1>1. manejador' = [manejador EXCEPT ![h] = IF paso = "recibir" THEN Libre ELSE n]
  BY Zenon DEF Prosigue
<1>2. r \in Atenciones
  OBVIOUS
<1>3. /\ r.syscall = "MUTEX_UNLOCK" => paso = "recalcular"
      /\ r.syscall = "EXIT" => paso = "muerte"
      /\ r.syscall \notin {"MUTEX_UNLOCK", "EXIT"} => paso = "recibir"
  BY DEF Despues
<1> HIDE DEF paso, r
<1>4. /\ n.syscall = r.syscall /\ n.paso = paso /\ n.pid = r.pid /\ n.otro = Nadie
      /\ n.i = r.i /\ n.sacado = r.sacado /\ n.nueva = r.nueva
      /\ paso \in PASOS => n \in Atenciones
  BY <1>2 DEF Atenciones
<1> HIDE DEF n
<1>5. CASE r.syscall \notin {"MUTEX_UNLOCK", "EXIT"}
  <2>1. manejador' = [manejador EXCEPT ![h] = Libre]
    BY <1>1, <1>3, <1>5
  <2>2. QED
    BY <1>5, <2>1, TerminaVa DEF r
<1>6. CASE r.syscall \in {"MUTEX_UNLOCK", "EXIT"}
  <2>1. n \in Atenciones /\ manejador' = [manejador EXCEPT ![h] = n]
    BY <1>1, <1>3, <1>4, <1>6 DEF PASOS
  <2>2. Pone(h, n)
    BY <2>1, Poner
  <2>3. QED
    BY <1>3, <1>4, <1>6, <2>2 DEF Pone, Va, r
<1>7. QED
  BY <1>5, <1>6

\* The handlers of the CPUs are neither of the other two threads.
CpuHilo == \A c \in CPUS : c \in HILOS /\ c # Io /\ c # Escucha /\ c # Nadie

LEMMA LosHilos == CpuHilo /\ Io # Escucha /\ {Io, Escucha} \subseteq HILOS
BY SupuestosMutex DEF CpuHilo, HILOS, Io, Escucha

\* Only the thread that moves has to be looked at.
LEMMA OtrosHilos ==
    ASSUME Hilos, NEW h \in HILOS, Hilo(h)',
           \A g \in HILOS : g # h => manejador'[g] = manejador[g],
           vivos' \subseteq vivos,
           \A c \in CPUS : c # h /\ cpu[c] # Nadie => cpu'[c] = cpu[c],
           mutex_lista' = mutex_lista \/ mutex_lista \in {Nadie, h}
    PROVE  Hilos'
<1>1. ASSUME NEW g \in HILOS, g # h PROVE Hilo(g)'
  <2>1. Hilo(g) /\ manejador'[g] = manejador[g]
    BY <1>1 DEF Hilos
  <2>2. g \in CPUS \/ g \in {Io, Escucha}
    BY DEF HILOS
  <2>3. Nadie \notin PIDS /\ (g \in CPUS => g # Nadie)
    BY SupuestosMutex
  <2>4. manejador[g].syscall \in {"MUTEX_LOCK", "MUTEX_UNLOCK", "SLEEP", "EXIT"} => g \in CPUS
    BY <2>1, <2>2, LosHilos DEF Hilo, PasoDe, CpuHilo
  <2>5. QED
    BY <1>1, <2>1, <2>3, <2>4 DEF Hilo
<1>2. QED
  BY <1>1 DEF Hilos

\* The search in the ready queues, and the return to them.
LEMMA SacaVa ==
    ASSUME manejador \in [HILOS -> Atenciones], NEW h \in HILOS,
           NEW x \in PASOS, NEW b \in BOOLEAN,
           manejador' = [manejador EXCEPT ![h].paso = x, ![h].sacado = b]
    PROVE  /\ Va(h, manejador[h].syscall, x, manejador[h].pid, manejador[h].otro)
           /\ manejador'[h].i = manejador[h].i /\ manejador'[h].sacado = b
           /\ manejador'[h].nueva = manejador[h].nueva
<1> DEFINE r == manejador[h]
           n == [r EXCEPT !.paso = x, !.sacado = b]
<1>1. r \in Atenciones
  OBVIOUS
<1>2. manejador' = [manejador EXCEPT ![h] = n]
  OBVIOUS
<1> HIDE DEF r
<1>3. /\ n \in Atenciones /\ n.syscall = r.syscall /\ n.paso = x /\ n.pid = r.pid
      /\ n.otro = r.otro /\ n.i = r.i /\ n.sacado = b /\ n.nueva = r.nueva
  BY <1>1 DEF Atenciones
<1> HIDE DEF n
<1>4. Pone(h, n)
  BY <1>2, <1>3, Poner
<1>5. QED
  BY <1>3, <1>4 DEF Pone, Va, r

\* A scan of the list of mutexes begins.
LEMMA PasoIVa ==
    ASSUME manejador \in [HILOS -> Atenciones], NEW h \in HILOS,
           NEW x \in PASOS,
           manejador' = [manejador EXCEPT ![h].paso = x, ![h].i = 1]
    PROVE  /\ Va(h, manejador[h].syscall, x, manejador[h].pid, manejador[h].otro)
           /\ manejador'[h].i = 1 /\ manejador'[h].sacado = manejador[h].sacado
           /\ manejador'[h].nueva = manejador[h].nueva
<1> DEFINE r == manejador[h]
           n == [r EXCEPT !.paso = x, !.i = 1]
<1>1. r \in Atenciones
  OBVIOUS
<1>2. manejador' = [manejador EXCEPT ![h] = n]
  OBVIOUS
<1> HIDE DEF r
<1>3. /\ n \in Atenciones /\ n.syscall = r.syscall /\ n.paso = x /\ n.pid = r.pid
      /\ n.otro = r.otro /\ n.i = 1 /\ n.sacado = r.sacado /\ n.nueva = r.nueva
  BY <1>1 DEF Atenciones
<1> HIDE DEF n
<1>4. Pone(h, n)
  BY <1>2, <1>3, Poner
<1>5. QED
  BY <1>3, <1>4 DEF Pone, Va, r

\* A scan of the list of mutexes goes on.
LEMMA AvanzaVa ==
    ASSUME manejador \in [HILOS -> Atenciones], NEW h \in HILOS,
           NEW k \in Nat,
           manejador' = [manejador EXCEPT ![h].i = k]
    PROVE  /\ Va(h, manejador[h].syscall, manejador[h].paso, manejador[h].pid, manejador[h].otro)
           /\ manejador'[h].i = k /\ manejador'[h].sacado = manejador[h].sacado
           /\ manejador'[h].nueva = manejador[h].nueva
<1> DEFINE r == manejador[h]
           n == [r EXCEPT !.i = k]
<1>1. r \in Atenciones
  OBVIOUS
<1>2. manejador' = [manejador EXCEPT ![h] = n]
  OBVIOUS
<1> HIDE DEF r
<1>3. /\ n \in Atenciones /\ n.syscall = r.syscall /\ n.paso = r.paso /\ n.pid = r.pid
      /\ n.otro = r.otro /\ n.i = k /\ n.sacado = r.sacado /\ n.nueva = r.nueva
  BY <1>1 DEF Atenciones
<1> HIDE DEF n
<1>4. Pone(h, n)
  BY <1>2, <1>3, Poner
<1>5. QED
  BY <1>3, <1>4 DEF Pone, Va, r

\* The priority to go back to is kept for later.
LEMMA RecalculaVa ==
    ASSUME manejador \in [HILOS -> Atenciones], NEW h \in HILOS,
           NEW x \in PASOS, NEW v \in Nat,
           manejador' = [manejador EXCEPT ![h].paso = x, ![h].nueva = v]
    PROVE  /\ Va(h, manejador[h].syscall, x, manejador[h].pid, manejador[h].otro)
           /\ manejador'[h].i = manejador[h].i /\ manejador'[h].sacado = manejador[h].sacado
           /\ manejador'[h].nueva = v
<1> DEFINE r == manejador[h]
           n == [r EXCEPT !.paso = x, !.nueva = v]
<1>1. r \in Atenciones
  OBVIOUS
<1>2. manejador' = [manejador EXCEPT ![h] = n]
  OBVIOUS
<1> HIDE DEF r
<1>3. /\ n \in Atenciones /\ n.syscall = r.syscall /\ n.paso = x /\ n.pid = r.pid
      /\ n.otro = r.otro /\ n.i = r.i /\ n.sacado = r.sacado /\ n.nueva = v
  BY <1>1 DEF Atenciones
<1> HIDE DEF n
<1>4. Pone(h, n)
  BY <1>2, <1>3, Poner
<1>5. QED
  BY <1>3, <1>4 DEF Pone, Va, r

\* A mutex that does not exist.
LEMMA NoExisteVa ==
    ASSUME manejador \in [HILOS -> Atenciones], NEW h \in HILOS,
           NEW s \in LLAMADAS, NEW x \in PASOS,
           manejador' = [manejador EXCEPT ![h].syscall = s, ![h].paso = x]
    PROVE  /\ Va(h, s, x, manejador[h].pid, manejador[h].otro)
           /\ manejador'[h].i = manejador[h].i /\ manejador'[h].sacado = manejador[h].sacado
           /\ manejador'[h].nueva = manejador[h].nueva
<1> DEFINE r == manejador[h]
           n == [r EXCEPT !.syscall = s, !.paso = x]
<1>1. r \in Atenciones
  OBVIOUS
<1>2. manejador' = [manejador EXCEPT ![h] = n]
  OBVIOUS
<1> HIDE DEF r
<1>3. /\ n \in Atenciones /\ n.syscall = s /\ n.paso = x /\ n.pid = r.pid
      /\ n.otro = r.otro /\ n.i = r.i /\ n.sacado = r.sacado /\ n.nueva = r.nueva
  BY <1>1 DEF Atenciones
<1> HIDE DEF n
<1>4. Pone(h, n)
  BY <1>2, <1>3, Poner
<1>5. QED
  BY <1>3, <1>4 DEF Pone, Va, r

\* What the steps of a handler that only looks leave alone.
Fijos == <<cpu, prioridad, sem, planif, listas, lista_mutex, mutex_lista, programa, caida>>

\* The call that a step belongs to.
LEMMA LlamadaDe ==
    ASSUME Hilos, NEW h \in HILOS
    PROVE  /\ manejador[h].paso \in BUSCANDO =>
                 /\ manejador[h].syscall = "MUTEX_LOCK" /\ mutex_lista = h /\ h \in CPUS
                 /\ manejador[h].pid \in PIDS /\ manejador[h].otro \in PIDS
                 /\ cpu[h] = manejador[h].pid
           /\ manejador[h].paso \in DESPERTANDO =>
                 /\ manejador[h].otro \in PIDS /\ ~manejador[h].sacado
                 /\ \/ /\ manejador[h].syscall = "MUTEX_UNLOCK" /\ h \in CPUS
                       /\ manejador[h].pid \in PIDS /\ cpu[h] = manejador[h].pid
                    \/ /\ manejador[h].syscall = "EXIT" /\ mutex_lista = h /\ h \in CPUS
                       /\ manejador[h].pid \in PIDS \ vivos
                    \/ /\ manejador[h].syscall = "DESALOJO" /\ manejador[h].paso = "encolar"
                       /\ h \in CPUS /\ manejador[h].pid = Nadie
                    \/ /\ manejador[h].syscall = "FINALIZAR_SLEEP" /\ h = Io
                       /\ manejador[h].pid = Nadie
                    \/ /\ manejador[h].syscall = "AVISO" /\ h = Escucha
                       /\ manejador[h].paso = "desuspender" /\ manejador[h].pid = Nadie
           /\ manejador[h].paso \in {"recalcular", "reponer"} =>
                 /\ manejador[h].syscall = "MUTEX_UNLOCK" /\ h \in CPUS
                 /\ manejador[h].pid \in PIDS /\ cpu[h] = manejador[h].pid
           /\ manejador[h].paso \in {"dejar_cpu", "a_block"} =>
                 /\ manejador[h].syscall \in {"MUTEX_LOCK", "SLEEP"} /\ h \in CPUS
                 /\ manejador[h].pid \in PIDS
                 /\ manejador[h].syscall = "MUTEX_LOCK" => mutex_lista = h
                 /\ manejador[h].paso = "dejar_cpu" => cpu[h] = manejador[h].pid
           /\ manejador[h].paso \in {"morir", "muerte"} =>
                 /\ manejador[h].syscall = "EXIT" /\ h \in CPUS
                 /\ manejador[h].pid \in PIDS \ vivos
                 /\ manejador[h].paso = "muerte" => mutex_lista = h
           /\ manejador[h].paso \notin {"heredar", "transitiva"} => ~manejador[h].sacado
<1>1. Hilo(h)
  BY DEF Hilos
<1>2. h \in CPUS => h # Io /\ h # Escucha
  BY LosHilos DEF CpuHilo
<1>3. QED
  BY <1>1, <1>2 DEF Hilo, PasoDe, BUSCANDO, DESPERTANDO

\* One list of buscar_pcb_por_pid.
LEMMA BuscaEfecto ==
    ASSUME TypeOK, Hilos, NEW c \in CPUS,
           BuscarEnExec(c) \/ BuscarEnBlock(c) \/ BuscarEnSuspBlock(c) \/ BuscarEnSuspReady(c)
    PROVE  /\ manejador[c].paso \in BUSCANDO \ {"heredar", "transitiva"}
           /\ Va(c, "MUTEX_LOCK", manejador'[c].paso, manejador[c].pid, manejador[c].otro)
           /\ manejador'[c].paso \in (BUSCANDO \ {"transitiva"}) \cup {"dejar_cpu"}
           /\ ~manejador'[c].sacado
           /\ UNCHANGED <<cola, Fijos>>
<1>1. ASSUME NEW paso \in {"en_exec", "en_block", "en_susp_block", "en_susp_ready"}, NEW lista,
             NEW sigue \in {"en_ready", "en_susp_block", "en_susp_ready", "dejar_cpu"},
             BuscarEn(c, paso, lista, sigue)
      PROVE  /\ manejador[c].paso \in BUSCANDO \ {"heredar", "transitiva"}
             /\ Va(c, "MUTEX_LOCK", manejador'[c].paso, manejador[c].pid, manejador[c].otro)
             /\ manejador'[c].paso \in (BUSCANDO \ {"transitiva"}) \cup {"dejar_cpu"}
             /\ ~manejador'[c].sacado
             /\ UNCHANGED <<cola, Fijos>>
  <2> DEFINE x == IF manejador[c].otro \in lista THEN "heredar" ELSE sigue
  <2>1. /\ manejador[c].paso = paso /\ Sigue(c, x) /\ UNCHANGED <<cola, Fijos>>
        /\ x \in (BUSCANDO \ {"transitiva"}) \cup {"dejar_cpu"} /\ x \in PASOS
    BY <1>1 DEF BuscarEn, Fijos, BUSCANDO, PASOS
  <2> HIDE DEF x
  <2>2. c \in HILOS /\ manejador \in [HILOS -> Atenciones]
    BY LosHilos DEF CpuHilo, TypeOK
  <2>3. Va(c, manejador[c].syscall, x, manejador[c].pid, manejador[c].otro)
        /\ manejador'[c].sacado = manejador[c].sacado
    BY <2>1, <2>2, SigueVa
  <2>4. manejador[c].paso \in BUSCANDO \ {"heredar", "transitiva"}
    BY <2>1 DEF BUSCANDO
  <2>5. manejador[c].syscall = "MUTEX_LOCK" /\ ~manejador[c].sacado
    BY <2>2, <2>4, LlamadaDe
  <2>6. manejador'[c].paso = x
    BY <2>3 DEF Va
  <2>7. QED
    BY <2>1, <2>3, <2>4, <2>5, <2>6
<1>2. QED
  BY <1>1 DEF BuscarEnExec, BuscarEnBlock, BuscarEnSuspBlock, BuscarEnSuspReady

\* The search in the ready queues.
LEMMA BuscaReadyEfecto ==
    ASSUME TypeOK, Hilos, NEW c \in CPUS, BuscarEnReady(c)
    PROVE  LET d == manejador[c].otro
               sale == /\ ALGORITMO = "CMN" /\ d \in EnReady
                       /\ prioridad[manejador[c].pid] < prioridad[d]
           IN  /\ manejador[c].paso = "en_ready"
               /\ Va(c, "MUTEX_LOCK", manejador'[c].paso, manejador[c].pid, manejador[c].otro)
               /\ manejador'[c].paso = IF d \in EnReady THEN "heredar" ELSE "en_block"
               /\ manejador'[c].sacado = sale
               /\ cola' = IF sale THEN [k \in PRIORIDADES |-> RemoveFirst(cola[k], d)] ELSE cola
               /\ UNCHANGED Fijos
<1> DEFINE d == manejador[c].otro
           sale == /\ ALGORITMO = "CMN" /\ d \in EnReady
                   /\ prioridad[manejador[c].pid] < prioridad[d]
           x == IF d \in EnReady THEN "heredar" ELSE "en_block"
<1>1. /\ manejador[c].paso = "en_ready" /\ UNCHANGED Fijos
      /\ manejador' = [manejador EXCEPT ![c].paso = x, ![c].sacado = sale]
      /\ cola' = IF sale THEN [k \in PRIORIDADES |-> RemoveFirst(cola[k], d)] ELSE cola
  BY Zenon DEF BuscarEnReady, Fijos
<1>2. x \in PASOS /\ sale \in BOOLEAN
  BY DEF PASOS
<1> HIDE DEF x, sale
<1>3. c \in HILOS /\ manejador \in [HILOS -> Atenciones]
  BY LosHilos DEF CpuHilo, TypeOK
<1>4. /\ Va(c, manejador[c].syscall, x, manejador[c].pid, manejador[c].otro)
      /\ manejador'[c].sacado = sale
  BY <1>1, <1>2, <1>3, SacaVa
<1>5. manejador[c].syscall = "MUTEX_LOCK"
  BY <1>1, <1>3, LlamadaDe DEF BUSCANDO
<1>6. manejador'[c].paso = x
  BY <1>4 DEF Va
<1>7. QED
  BY <1>1, <1>4, <1>5, <1>6 DEF x, sale

\* The first inheritance.
LEMMA HeredarEfecto ==
    ASSUME TypeOK, Hilos, Heredero, NEW c \in CPUS, Heredar(c)
    PROVE  LET p == manejador[c].pid
               d == manejador[c].otro
               hereda == prioridad[d] > prioridad[p]
           IN  /\ manejador[c].paso = "heredar"
               /\ Va(c, "MUTEX_LOCK", manejador'[c].paso, p, d)
               /\ manejador'[c].paso = IF hereda THEN "transitiva" ELSE "dejar_cpu"
               /\ manejador'[c].i = 1
               /\ manejador'[c].sacado = manejador[c].sacado
               /\ manejador'[c].sacado => manejador'[c].paso = "transitiva"
               /\ prioridad' = IF hereda THEN [prioridad EXCEPT ![d] = prioridad[p]] ELSE prioridad
               /\ UNCHANGED <<cpu, cola, sem, planif, listas, lista_mutex, mutex_lista, programa, caida>>
<1> DEFINE p == manejador[c].pid
           d == manejador[c].otro
           hereda == prioridad[d] > prioridad[p]
           x == IF hereda THEN "transitiva" ELSE "dejar_cpu"
<1>1. /\ manejador[c].paso = "heredar"
      /\ UNCHANGED <<cpu, cola, sem, planif, listas, lista_mutex, mutex_lista, programa, caida>>
      /\ manejador' = [manejador EXCEPT ![c].paso = x, ![c].i = 1]
      /\ prioridad' = IF hereda THEN [prioridad EXCEPT ![d] = prioridad[p]] ELSE prioridad
  BY Zenon DEF Heredar
<1>2. x \in PASOS
  BY DEF PASOS
<1>3. manejador[c].sacado => hereda
  BY <1>1 DEF Heredero
<1>4. x = "transitiva" <=> hereda
  OBVIOUS
<1> HIDE DEF x
<1>5. c \in HILOS /\ manejador \in [HILOS -> Atenciones]
  BY LosHilos DEF CpuHilo, TypeOK
<1>6. /\ Va(c, manejador[c].syscall, x, manejador[c].pid, manejador[c].otro)
      /\ manejador'[c].i = 1 /\ manejador'[c].sacado = manejador[c].sacado
  <2>1. manejador' = [manejador EXCEPT ![c].paso = x, ![c].i = 1]
    BY <1>1
  <2>2. QED
    BY <2>1, <1>2, <1>5, PasoIVa
<1>7. manejador[c].syscall = "MUTEX_LOCK"
  BY <1>1, <1>5, LlamadaDe DEF BUSCANDO
<1>8. manejador'[c].paso = x
  BY <1>6 DEF Va
<1>9. QED
  BY <1>1, <1>3, <1>4, <1>6, <1>7, <1>8 DEF x

\* One turn of the loop.
LEMMA TransitivaEfecto ==
    ASSUME TypeOK, Hilos, NEW c \in CPUS, Transitiva(c)
    PROVE  /\ manejador[c].paso = "transitiva" /\ manejador[c].i \in DOMAIN lista_mutex
           /\ Va(c, "MUTEX_LOCK", "transitiva", manejador[c].pid, manejador[c].otro)
           /\ manejador'[c].i = manejador[c].i + 1
           /\ manejador'[c].sacado = manejador[c].sacado
           /\ UNCHANGED <<cpu, sem, planif, listas, lista_mutex, mutex_lista, programa, caida>>
<1> DEFINE k == manejador[c].i + 1
<1>1. c \in HILOS /\ manejador \in [HILOS -> Atenciones] /\ lista_mutex \in Seq(Mutexes)
  BY LosHilos DEF CpuHilo, TypeOK
<1>2. /\ manejador[c].paso = "transitiva" /\ manejador[c].i <= Len(lista_mutex)
      /\ UNCHANGED <<cpu, sem, planif, listas, lista_mutex, mutex_lista, programa, caida>>
      /\ manejador' = [manejador EXCEPT ![c].i = @ + 1]
  BY Zenon DEF Transitiva
<1>3. manejador[c] \in Atenciones
  BY <1>1
<1>4. manejador[c].i \in Nat /\ k \in Nat /\ manejador[c].i >= 1
  <2>1. Hilo(c)
    BY <1>1 DEF Hilos
  <2>2. QED
    BY <1>2, <1>3, <2>1 DEF Atenciones, Hilo
<1>5. manejador' = [manejador EXCEPT ![c].i = k]
  BY <1>1, <1>2
<1> HIDE DEF k
<1>6. /\ Va(c, manejador[c].syscall, manejador[c].paso, manejador[c].pid, manejador[c].otro)
      /\ manejador'[c].i = k /\ manejador'[c].sacado = manejador[c].sacado
  BY <1>1, <1>4, <1>5, AvanzaVa
<1>7. manejador[c].syscall = "MUTEX_LOCK"
  BY <1>1, <1>2, LlamadaDe DEF BUSCANDO
<1>8. manejador[c].i \in DOMAIN lista_mutex
  BY <1>1, <1>2, <1>4
<1>9. QED
  BY <1>2, <1>6, <1>7, <1>8 DEF k

\* The loop ends: the owner goes back to a ready queue if it was taken out of one.
LEMMA FinTransitivaEfecto ==
    ASSUME TypeOK, Hilos, NEW c \in CPUS, FinTransitiva(c)
    PROVE  /\ manejador[c].paso = "transitiva"
           /\ Va(c, "MUTEX_LOCK", "dejar_cpu", manejador[c].pid, manejador[c].otro)
           /\ manejador'[c].sacado = FALSE
           /\ cola' = IF manejador[c].sacado THEN Encolada(manejador[c].otro, prioridad) ELSE cola
           /\ UNCHANGED Fijos
<1>1. c \in HILOS /\ manejador \in [HILOS -> Atenciones]
  BY LosHilos DEF CpuHilo, TypeOK
<1>2. /\ manejador[c].paso = "transitiva"
      /\ UNCHANGED Fijos
      /\ manejador' = [manejador EXCEPT ![c].paso = "dejar_cpu", ![c].sacado = FALSE]
      /\ cola' = IF manejador[c].sacado THEN Encolada(manejador[c].otro, prioridad) ELSE cola
  BY Zenon DEF FinTransitiva, Fijos
<1>3. "dejar_cpu" \in PASOS /\ FALSE \in BOOLEAN
  BY DEF PASOS
<1>4. /\ Va(c, manejador[c].syscall, "dejar_cpu", manejador[c].pid, manejador[c].otro)
      /\ manejador'[c].sacado = FALSE
  BY <1>1, <1>2, <1>3, SacaVa
<1>5. manejador[c].syscall = "MUTEX_LOCK"
  BY <1>1, <1>2, LlamadaDe DEF BUSCANDO
<1>6. QED
  BY <1>2, <1>4, <1>5

\* bloquear_proceso.
LEMMA DejarCpuEfecto ==
    ASSUME TypeOK, Hilos, NEW c \in CPUS, DejarCpu(c)
    PROVE  /\ manejador[c].paso = "dejar_cpu"
           /\ Va(c, manejador[c].syscall, "a_block", manejador[c].pid, manejador[c].otro)
           /\ ~manejador'[c].sacado
           /\ cpu' = [cpu EXCEPT ![c] = Nadie]
           /\ UNCHANGED <<prioridad, cola, sem, planif, listas, lista_mutex, mutex_lista, programa, caida>>
<1>1. c \in HILOS /\ manejador \in [HILOS -> Atenciones]
  BY LosHilos DEF CpuHilo, TypeOK
<1>2. "a_block" \in PASOS
  BY DEF PASOS
<1>3. /\ manejador[c].paso = "dejar_cpu" /\ Sigue(c, "a_block") /\ cpu' = [cpu EXCEPT ![c] = Nadie]
      /\ UNCHANGED <<prioridad, cola, sem, planif, listas, lista_mutex, mutex_lista, programa, caida>>
  BY DEF DejarCpu
<1>4. ~manejador[c].sacado
  BY <1>1, <1>3, LlamadaDe
<1>5. QED
  BY <1>1, <1>2, <1>3, <1>4, SigueVa

\* A call begins with the record n.
LEMMA ComienzaVa ==
    ASSUME manejador \in [HILOS -> Atenciones], NEW h \in HILOS, NEW n \in Atenciones, ~n.sacado,
           manejador' = [manejador EXCEPT ![h] = n]
    PROVE  Va(h, n.syscall, n.paso, n.pid, n.otro) /\ ~manejador'[h].sacado
BY Poner DEF Pone, Va

\* MUTEX_LOCK: the mutex is free, or the process waits for it.
LEMMA LockEfecto ==
    ASSUME TypeOK, Hilos, Cuentas, NEW c \in CPUS, NEW n \in MUTEX, Lock(c, n)
    PROVE  LET i == Indice(n)
               m == lista_mutex[i]
           IN  /\ manejador[c] = Libre /\ cpu[c] \in PIDS /\ mutex_lista = Nadie
               /\ i \in DOMAIN lista_mutex /\ m \in Mutexes /\ m.nombre = n
               /\ n \notin tiene[cpu[c]]
               /\ UNCHANGED <<cpu, prioridad, cola, sem, planif, listas, vivos, caida>>
               /\ \/ /\ m.contador >= 1
                     /\ lista_mutex' = [lista_mutex EXCEPT ![i] =
                             [m EXCEPT !.contador = @ - 1, !.pid = cpu[c]]]
                     /\ tiene' = [tiene EXCEPT ![cpu[c]] = @ \cup {n}]
                     /\ UNCHANGED <<mutex_lista, manejador, pide>>
                  \/ /\ Tomado(m) /\ m.pid \in PIDS
                     /\ lista_mutex' = [lista_mutex EXCEPT ![i] =
                             [m EXCEPT !.contador = @ - 1, !.colaEspera = Append(@, cpu[c])]]
                     /\ mutex_lista' = c
                     /\ pide' = [pide EXCEPT ![cpu[c]] = n]
                     /\ Va(c, "MUTEX_LOCK", "en_exec", cpu[c], m.pid)
                     /\ ~manejador'[c].sacado
                     /\ UNCHANGED tiene
<1> DEFINE i == Indice(n)
           m == lista_mutex[i]
<1>1. /\ manejador[c] = Libre /\ cpu[c] # Nadie /\ mutex_lista = Nadie /\ Creado(n)
      /\ n \notin tiene[cpu[c]]
      /\ UNCHANGED <<cpu, prioridad, cola, sem, planif, listas, vivos, caida>>
      /\ LockLibre(c, n) \/ LockTomado(c, n)
  BY DEF Lock, Llama, LockLibre, LockTomado
<1>2. /\ c \in HILOS /\ manejador \in [HILOS -> Atenciones] /\ lista_mutex \in Seq(Mutexes)
      /\ cpu[c] \in PIDS
  BY <1>1, LosHilos DEF CpuHilo, TypeOK
<1>3. i \in DOMAIN lista_mutex /\ m.nombre = n /\ m \in Mutexes
  BY <1>1, <1>2, IndiceHay
<1>4. CASE LockLibre(c, n)
  <2>1. /\ m.contador >= 1
        /\ lista_mutex' = [lista_mutex EXCEPT ![i].contador = @ - 1, ![i].pid = cpu[c]]
        /\ tiene' = [tiene EXCEPT ![cpu[c]] = @ \cup {n}]
        /\ UNCHANGED <<mutex_lista, manejador, pide>>
    BY <1>4, Zenon DEF LockLibre
  <2>2. lista_mutex' = [lista_mutex EXCEPT ![i] = [m EXCEPT !.contador = @ - 1, !.pid = cpu[c]]]
    BY <1>3, <2>1
  <2>3. QED
    BY <1>1, <1>2, <1>3, <2>1, <2>2
<1>5. CASE LockTomado(c, n)
  <2>1. /\ m.contador < 1
        /\ lista_mutex' = [lista_mutex EXCEPT ![i].contador = @ - 1,
                                              ![i].colaEspera = Append(@, cpu[c])]
        /\ mutex_lista' = c
        /\ pide' = [pide EXCEPT ![cpu[c]] = n]
        /\ manejador' = [manejador EXCEPT ![c] =
               [Libre EXCEPT !.syscall = "MUTEX_LOCK", !.paso = "en_exec",
                             !.pid = cpu[c], !.otro = m.pid]]
        /\ UNCHANGED <<prioridad, tiene>>
    BY <1>5, Zenon DEF LockTomado
  <2>2. lista_mutex' = [lista_mutex EXCEPT ![i] =
                             [m EXCEPT !.contador = @ - 1, !.colaEspera = Append(@, cpu[c])]]
    BY <1>3, <2>1
  <2>3. m.pid \in PIDS /\ Tomado(m)
    BY <1>3, <2>1 DEF Cuentas, Tomado
  <2>4. "MUTEX_LOCK" \in LLAMADAS /\ "en_exec" \in PASOS
    BY DEF LLAMADAS, PASOS
  <2>5. Va(c, "MUTEX_LOCK", "en_exec", cpu[c], m.pid) /\ ~manejador'[c].sacado
    BY <1>2, <2>1, <2>3, <2>4, EmpiezaVa
  <2>6. QED
    BY <1>1, <1>2, <1>3, <2>1, <2>2, <2>3, <2>5
<1>6. QED
  BY <1>1, <1>4, <1>5

\* The calls for a mutex that does not exist.
LEMMA NoExisteEfecto ==
    ASSUME TypeOK, Hilos, NEW c \in CPUS, NEW n, LockNoExiste(c, n) \/ UnlockNoExiste(c, n)
    PROVE  /\ manejador[c] = Libre
           /\ Va(c, manejador'[c].syscall, "sin_respuesta", Nadie, Nadie)
           /\ manejador'[c].syscall \in {"MUTEX_LOCK", "MUTEX_UNLOCK"}
           /\ ~manejador'[c].sacado
           /\ UNCHANGED <<cola, Fijos>>
<1>1. ASSUME NEW s \in {"MUTEX_LOCK", "MUTEX_UNLOCK"}, manejador[c] = Libre, NoExiste(c, s)
      PROVE  /\ Va(c, manejador'[c].syscall, "sin_respuesta", Nadie, Nadie)
             /\ manejador'[c].syscall \in {"MUTEX_LOCK", "MUTEX_UNLOCK"}
             /\ ~manejador'[c].sacado
             /\ UNCHANGED <<cola, Fijos>>
  <2>1. c \in HILOS /\ manejador \in [HILOS -> Atenciones]
    BY LosHilos DEF CpuHilo, TypeOK
  <2>2. s \in LLAMADAS /\ "sin_respuesta" \in PASOS
    BY DEF LLAMADAS, PASOS
  <2>3. /\ manejador' = [manejador EXCEPT ![c].syscall = s, ![c].paso = "sin_respuesta"]
        /\ UNCHANGED <<cola, Fijos>>
    BY <1>1 DEF NoExiste, Fijos
  <2>4. /\ Va(c, s, "sin_respuesta", manejador[c].pid, manejador[c].otro)
        /\ manejador'[c].sacado = manejador[c].sacado
    BY <2>1, <2>2, <2>3, NoExisteVa
  <2>5. manejador'[c].syscall = s
    BY <2>4 DEF Va
  <2>6. manejador[c].pid = Nadie /\ manejador[c].otro = Nadie /\ ~manejador[c].sacado
    BY <1>1 DEF Libre
  <2>7. Va(c, s, "sin_respuesta", Nadie, Nadie)
    BY <2>4, <2>6
  <2>8. QED
    BY <2>3, <2>4, <2>5, <2>6, <2>7
<1>2. manejador[c] = Libre
  BY DEF LockNoExiste, UnlockNoExiste, Llama
<1>3. QED
  BY <1>1, <1>2 DEF LockNoExiste, UnlockNoExiste

\* The process enters block, and the list of sleeping ones if it is SLEEP.
LEMMA EntrarABlockEfecto ==
    ASSUME TypeOK, Hilos, NEW c \in CPUS, EntrarABlock(c)
    PROVE  /\ manejador[c].paso = "a_block" /\ manejador[c].pid \in PIDS
           /\ Va(c, "ninguna", "recibir", Nadie, Nadie) /\ manejador'[c] = Libre
           /\ block' = block \cup {manejador[c].pid}
           /\ cola_sleep' = IF manejador[c].syscall = "SLEEP"
                            THEN Append(cola_sleep, manejador[c].pid) ELSE cola_sleep
           /\ mutex_lista' = IF manejador[c].syscall = "MUTEX_LOCK" THEN Nadie ELSE mutex_lista
           /\ sem' = [sem EXCEPT !.cpu = @ + 1]
           /\ UNCHANGED <<cpu, prioridad, cola, planif, susp_block, susp_ready, lista_mutex,
                          programa, caida>>
<1>1. c \in HILOS /\ manejador \in [HILOS -> Atenciones]
  BY LosHilos DEF CpuHilo, TypeOK
<1>2. /\ manejador[c].paso = "a_block"
      /\ block' = block \cup {manejador[c].pid}
      /\ cola_sleep' = IF manejador[c].syscall = "SLEEP"
                       THEN Append(cola_sleep, manejador[c].pid) ELSE cola_sleep
      /\ mutex_lista' = IF manejador[c].syscall = "MUTEX_LOCK" THEN Nadie ELSE mutex_lista
      /\ sem' = [sem EXCEPT !.cpu = @ + 1]
      /\ manejador' = [manejador EXCEPT ![c] = Libre]
      /\ UNCHANGED <<cpu, prioridad, cola, planif, susp_block, susp_ready, lista_mutex,
                     programa, caida>>
  BY Zenon DEF EntrarABlock
<1>3. manejador[c].pid \in PIDS
  BY <1>1, <1>2, LlamadaDe
<1>4. QED
  BY <1>1, <1>2, <1>3, TerminaVa

\* SLEEP begins.
LEMMA SleepEfecto ==
    ASSUME TypeOK, Hilos, NEW c \in CPUS, Sleep(c)
    PROVE  /\ manejador[c] = Libre /\ cpu[c] \in PIDS
           /\ Va(c, "SLEEP", "dejar_cpu", cpu[c], Nadie) /\ ~manejador'[c].sacado
           /\ UNCHANGED <<cola, Fijos>>
<1>1. c \in HILOS /\ manejador \in [HILOS -> Atenciones]
  BY LosHilos DEF CpuHilo, TypeOK
<1>2. /\ manejador[c] = Libre /\ cpu[c] # Nadie
      /\ manejador' = [manejador EXCEPT ![c] =
             [Libre EXCEPT !.syscall = "SLEEP", !.paso = "dejar_cpu", !.pid = cpu[c]]]
      /\ UNCHANGED <<cola, Fijos>>
  BY DEF Sleep, Llama, Fijos
<1>3. cpu[c] \in PIDS
  BY <1>2 DEF TypeOK
<1>4. "SLEEP" \in LLAMADAS /\ "dejar_cpu" \in PASOS /\ Nadie \in PIDS \cup {Nadie}
  BY DEF LLAMADAS, PASOS
<1> DEFINE n == [Libre EXCEPT !.syscall = "SLEEP", !.paso = "dejar_cpu", !.pid = cpu[c]]
<1>5. n.syscall = "SLEEP" /\ n.paso = "dejar_cpu" /\ n.pid = cpu[c] /\ n.otro = Nadie /\ ~n.sacado
  BY DEF Libre
<1>6. n \in Atenciones
  BY <1>3, <1>4, LibreEs DEF Atenciones
<1>7. manejador' = [manejador EXCEPT ![c] = n]
  BY <1>2
<1> HIDE DEF n
<1>8. Va(c, "SLEEP", "dejar_cpu", cpu[c], Nadie) /\ ~manejador'[c].sacado
  BY <1>1, <1>5, <1>6, <1>7, ComienzaVa
<1>9. QED
  BY <1>1, <1>2, <1>3, <1>8

\* FINALIZAR_POR_QUANTUM.
LEMMA FinDeQuantumEfecto ==
    ASSUME TypeOK, Hilos, NEW c \in CPUS, FinDeQuantum(c)
    PROVE  /\ manejador[c] = Libre /\ cpu[c] \in PIDS
           /\ Va(c, "DESALOJO", "encolar", Nadie, cpu[c]) /\ ~manejador'[c].sacado
           /\ cpu' = [cpu EXCEPT ![c] = Nadie]
           /\ UNCHANGED <<prioridad, cola, sem, planif, listas, lista_mutex, mutex_lista, programa, caida>>
<1>1. c \in HILOS /\ manejador \in [HILOS -> Atenciones]
  BY LosHilos DEF CpuHilo, TypeOK
<1>2. /\ manejador[c] = Libre /\ cpu[c] # Nadie /\ cpu' = [cpu EXCEPT ![c] = Nadie]
      /\ manejador' = [manejador EXCEPT ![c] =
             [Libre EXCEPT !.syscall = "DESALOJO", !.paso = "encolar", !.otro = cpu[c]]]
      /\ UNCHANGED <<prioridad, cola, sem, planif, listas, lista_mutex, mutex_lista, programa, caida>>
  BY DEF FinDeQuantum
<1>3. cpu[c] \in PIDS
  BY <1>2 DEF TypeOK
<1>4. "DESALOJO" \in LLAMADAS /\ "encolar" \in PASOS /\ Nadie \in PIDS \cup {Nadie}
  BY DEF LLAMADAS, PASOS
<1> DEFINE n == [Libre EXCEPT !.syscall = "DESALOJO", !.paso = "encolar", !.otro = cpu[c]]
<1>5. n.syscall = "DESALOJO" /\ n.paso = "encolar" /\ n.pid = Nadie /\ n.otro = cpu[c] /\ ~n.sacado
  BY DEF Libre
<1>6. n \in Atenciones
  BY <1>3, <1>4, LibreEs DEF Atenciones
<1>7. manejador' = [manejador EXCEPT ![c] = n]
  BY <1>2
<1> HIDE DEF n
<1>8. Va(c, "DESALOJO", "encolar", Nadie, cpu[c]) /\ ~manejador'[c].sacado
  BY <1>1, <1>5, <1>6, <1>7, ComienzaVa
<1>9. QED
  BY <1>1, <1>2, <1>3, <1>8

\* EXIT begins.
LEMMA ExitEfecto ==
    ASSUME TypeOK, Hilos, NEW c \in CPUS, Exit(c)
    PROVE  /\ manejador[c] = Libre /\ cpu[c] \in PIDS
           /\ Va(c, "EXIT", "morir", cpu[c], Nadie) /\ ~manejador'[c].sacado
           /\ cpu' = [cpu EXCEPT ![c] = Nadie]
           /\ vivos' = vivos \ {cpu[c]}
           /\ tiene' = [tiene EXCEPT ![cpu[c]] = {}]
           /\ UNCHANGED <<prioridad, cola, sem, planif, listas, lista_mutex, mutex_lista, pide, caida>>
<1>1. c \in HILOS /\ manejador \in [HILOS -> Atenciones]
  BY LosHilos DEF CpuHilo, TypeOK
<1>2. /\ manejador[c] = Libre /\ cpu[c] # Nadie /\ cpu' = [cpu EXCEPT ![c] = Nadie]
      /\ manejador' = [manejador EXCEPT ![c] =
             [Libre EXCEPT !.syscall = "EXIT", !.paso = "morir", !.pid = cpu[c]]]
      /\ vivos' = vivos \ {cpu[c]}
      /\ tiene' = [tiene EXCEPT ![cpu[c]] = {}]
      /\ UNCHANGED <<prioridad, cola, sem, planif, listas, lista_mutex, mutex_lista, pide, caida>>
  BY Zenon DEF Exit, Llama
<1>3. cpu[c] \in PIDS
  BY <1>2 DEF TypeOK
<1>4. "EXIT" \in LLAMADAS /\ "morir" \in PASOS /\ Nadie \in PIDS \cup {Nadie}
  BY DEF LLAMADAS, PASOS
<1> DEFINE n == [Libre EXCEPT !.syscall = "EXIT", !.paso = "morir", !.pid = cpu[c]]
<1>5. n.syscall = "EXIT" /\ n.paso = "morir" /\ n.pid = cpu[c] /\ n.otro = Nadie /\ ~n.sacado
  BY DEF Libre
<1>6. n \in Atenciones
  BY <1>3, <1>4, LibreEs DEF Atenciones
<1>7. manejador' = [manejador EXCEPT ![c] = n]
  BY <1>2
<1> HIDE DEF n
<1>8. Va(c, "EXIT", "morir", cpu[c], Nadie) /\ ~manejador'[c].sacado
  BY <1>1, <1>5, <1>6, <1>7, ComienzaVa
<1>9. QED
  BY <1>1, <1>2, <1>3, <1>8

\* MUTEX_UNLOCK begins: with somebody waiting the mutex changes hands.
LEMMA UnlockEfecto ==
    ASSUME TypeOK, Hilos, Cuentas, NEW c \in CPUS, NEW n \in MUTEX, Unlock(c, n),
           Duenio(cpu[c], n)
    PROVE  LET i == Indice(n)
               m == lista_mutex[i]
           IN  /\ manejador[c] = Libre /\ cpu[c] \in PIDS /\ mutex_lista = Nadie
               /\ i \in DOMAIN lista_mutex /\ m \in Mutexes /\ m.nombre = n
               /\ n \in tiene[cpu[c]] /\ Tomado(m) /\ m.pid = cpu[c]
               /\ m.contador = 0 - Len(m.colaEspera)
               /\ tiene' = [tiene EXCEPT ![cpu[c]] = @ \ {n}]
               /\ UNCHANGED <<cpu, cola, sem, planif, listas, mutex_lista, vivos, pide, caida>>
               /\ ~manejador'[c].sacado
               /\ \/ /\ m.colaEspera # <<>>
                     /\ lista_mutex' = [lista_mutex EXCEPT ![i] = Entregado(m)]
                     /\ prioridad' = HeredaDeLaCola(m)
                     /\ Va(c, "MUTEX_UNLOCK", "sacar", cpu[c], Head(m.colaEspera))
                  \/ /\ m.colaEspera = <<>>
                     /\ lista_mutex' = [lista_mutex EXCEPT ![i] = [m EXCEPT !.contador = @ + 1]]
                     /\ UNCHANGED prioridad
                     /\ Va(c, "MUTEX_UNLOCK", "recalcular", cpu[c], Nadie)
<1> DEFINE i == Indice(n)
           m == lista_mutex[i]
           alguien == m.contador + 1 # 1
           seguir == [Libre EXCEPT !.syscall = "MUTEX_UNLOCK", !.pid = cpu[c]]
<1>1. /\ manejador[c] = Libre /\ cpu[c] # Nadie /\ n \in tiene[cpu[c]] /\ mutex_lista = Nadie
      /\ tiene' = [tiene EXCEPT ![cpu[c]] = @ \ {n}]
      /\ lista_mutex' = [lista_mutex EXCEPT ![i] =
             IF alguien THEN Entregado(m) ELSE [m EXCEPT !.contador = @ + 1]]
      /\ prioridad' = IF alguien THEN HeredaDeLaCola(m) ELSE prioridad
      /\ manejador' = [manejador EXCEPT ![c] =
             IF alguien
             THEN [seguir EXCEPT !.paso = "sacar", !.otro = Head(m.colaEspera)]
             ELSE [seguir EXCEPT !.paso = "recalcular"]]
      /\ UNCHANGED <<cpu, cola, sem, planif, listas, mutex_lista, vivos, pide, caida>>
  BY Zenon DEF Unlock, Llama
<1>2. /\ c \in HILOS /\ manejador \in [HILOS -> Atenciones] /\ lista_mutex \in Seq(Mutexes)
      /\ cpu[c] \in PIDS
  BY <1>1, LosHilos DEF CpuHilo, TypeOK
<1>3. PICK j \in DOMAIN lista_mutex :
          lista_mutex[j].nombre = n /\ Tomado(lista_mutex[j]) /\ lista_mutex[j].pid = cpu[c]
  BY DEF Duenio
<1>4. j = i
  BY <1>3, IndiceEs
<1>5. /\ i \in DOMAIN lista_mutex /\ m \in Mutexes /\ m.nombre = n /\ Tomado(m) /\ m.pid = cpu[c]
      /\ m.contador = 0 - Len(m.colaEspera)
  BY <1>2, <1>3, <1>4 DEF Cuentas
<1>6. /\ m.colaEspera # <<>> => Head(m.colaEspera) \in PIDS /\ Len(m.colaEspera) \in Nat \ {0}
      /\ m.colaEspera = <<>> => Len(m.colaEspera) = 0
  BY <1>5 DEF Mutexes
<1>7. alguien <=> m.colaEspera # <<>>
  BY <1>5, <1>6
<1>8. "MUTEX_UNLOCK" \in LLAMADAS /\ {"sacar", "recalcular"} \subseteq PASOS /\ Nadie \in PIDS \cup {Nadie}
  BY DEF LLAMADAS, PASOS
<1>9. CASE m.colaEspera # <<>>
  <2> DEFINE o == Head(m.colaEspera)
  <2> DEFINE u == [seguir EXCEPT !.paso = "sacar", !.otro = o]
  <2>2. /\ lista_mutex' = [lista_mutex EXCEPT ![i] = Entregado(m)] /\ prioridad' = HeredaDeLaCola(m)
        /\ manejador' = [manejador EXCEPT ![c] = [seguir EXCEPT !.paso = "sacar", !.otro = o]]
    BY <1>1, <1>7, <1>9
  <2>3. o \in PIDS \cup {Nadie}
    BY <1>6, <1>9
  <2>1. seguir \in Atenciones
    BY <1>2, <1>8, LibreEs DEF Atenciones
  <2>a. u \in Atenciones
    BY <1>8, <2>1, <2>3 DEF Atenciones
  <2>b. u.syscall = "MUTEX_UNLOCK" /\ u.paso = "sacar" /\ u.pid = cpu[c] /\ u.otro = o /\ ~u.sacado
    BY DEF Libre
  <2>c. manejador' = [manejador EXCEPT ![c] = u]
    BY <2>2
  <2> HIDE DEF u, o
  <2>4. Va(c, "MUTEX_UNLOCK", "sacar", cpu[c], o) /\ ~manejador'[c].sacado
    BY <1>2, <2>a, <2>b, <2>c, ComienzaVa
  <2>5. QED
    BY <1>1, <1>2, <1>5, <1>9, <2>2, <2>4 DEF o
<1>10. CASE m.colaEspera = <<>>
  <2> DEFINE u == [seguir EXCEPT !.paso = "recalcular"]
  <2>2. /\ lista_mutex' = [lista_mutex EXCEPT ![i] = [m EXCEPT !.contador = @ + 1]]
        /\ UNCHANGED prioridad
        /\ manejador' = [manejador EXCEPT ![c] = [seguir EXCEPT !.paso = "recalcular"]]
    BY <1>1, <1>7, <1>10
  <2>1. seguir \in Atenciones
    BY <1>2, <1>8, LibreEs DEF Atenciones
  <2>a. u \in Atenciones
    BY <1>8, <2>1 DEF Atenciones
  <2>b. u.syscall = "MUTEX_UNLOCK" /\ u.paso = "recalcular" /\ u.pid = cpu[c] /\ u.otro = Nadie /\ ~u.sacado
    BY DEF Libre
  <2>c. manejador' = [manejador EXCEPT ![c] = u]
    BY <2>2
  <2> HIDE DEF u
  <2>4. Va(c, "MUTEX_UNLOCK", "recalcular", cpu[c], Nadie) /\ ~manejador'[c].sacado
    BY <1>2, <2>a, <2>b, <2>c, ComienzaVa
  <2>5. QED
    BY <1>1, <1>2, <1>5, <1>10, <2>2, <2>4
<1>11. QED
  BY <1>9, <1>10

\* A thread that has woken a process goes on with its call.
Prosiguio(h) ==
    /\ ~manejador'[h].sacado
    /\ \/ /\ manejador[h].syscall = "MUTEX_UNLOCK"
          /\ Va(h, "MUTEX_UNLOCK", "recalcular", manejador[h].pid, Nadie)
       \/ /\ manejador[h].syscall = "EXIT"
          /\ Va(h, "EXIT", "muerte", manejador[h].pid, Nadie)
          /\ manejador'[h].i = manejador[h].i
       \/ /\ manejador[h].syscall \notin {"MUTEX_UNLOCK", "EXIT"}
          /\ Va(h, "ninguna", "recibir", Nadie, Nadie) /\ manejador'[h] = Libre

\* It takes one more step to wake it.
Despertando(h, paso) ==
    /\ ~manejador'[h].sacado
    /\ Va(h, manejador[h].syscall, paso, manejador[h].pid, manejador[h].otro)
    /\ manejador'[h].i = manejador[h].i

\* What follows the waking of a process depends on the call only.
LEMMA ProsigueEfecto ==
    ASSUME TypeOK, Hilos, NEW h \in HILOS, manejador[h].paso \in DESPERTANDO, Prosigue(h)
    PROVE  Prosiguio(h)
<1>1. manejador \in [HILOS -> Atenciones] /\ ~manejador[h].sacado
  BY LlamadaDe DEF TypeOK
<1>2. QED
  BY <1>1, ProsigueVa DEF Prosiguio

LEMMA DespiertaEfecto ==
    ASSUME TypeOK, Hilos, NEW h \in HILOS, manejador[h].paso \in DESPERTANDO, NEW x \in DESPERTANDO,
           Sigue(h, x)
    PROVE  Despertando(h, x)
<1>1. manejador \in [HILOS -> Atenciones] /\ ~manejador[h].sacado /\ x \in PASOS
  BY LlamadaDe DEF TypeOK, DESPERTANDO, PASOS
<1>2. QED
  BY <1>1, SigueVa DEF Despertando

\* buscar_y_sacar_de_block.
LEMMA SacarDeBlockEfecto ==
    ASSUME TypeOK, Hilos, NEW h \in HILOS, SacarDeBlock(h)
    PROVE  /\ manejador[h].paso = "sacar"
           /\ block' = block \ {manejador[h].otro}
           /\ Despertando(h, IF manejador[h].otro \in block THEN "encolar" ELSE "de_susp_block")
           /\ UNCHANGED <<cpu, prioridad, cola, sem, planif, susp_block, susp_ready, cola_sleep,
                          lista_mutex, mutex_lista, programa, caida>>
<1> DEFINE x == IF manejador[h].otro \in block THEN "encolar" ELSE "de_susp_block"
<1>1. /\ manejador[h].paso = "sacar" /\ Sigue(h, x) /\ block' = block \ {manejador[h].otro}
      /\ UNCHANGED <<cpu, prioridad, cola, sem, planif, susp_block, susp_ready, cola_sleep,
                     lista_mutex, mutex_lista, programa, caida>>
  BY DEF SacarDeBlock, Haciendo
<1>2. x \in DESPERTANDO /\ manejador[h].paso \in DESPERTANDO
  BY <1>1 DEF DESPERTANDO
<1>3. QED
  BY <1>1, <1>2, DespiertaEfecto

\* encolar_pcb_ready.
LEMMA EncolarEfecto ==
    ASSUME TypeOK, Hilos, NEW h \in HILOS, Encolar(h)
    PROVE  /\ manejador[h].paso = "encolar" /\ Prosiguio(h)
           /\ cola' = Encolada(manejador[h].otro, prioridad)
           /\ sem' = [ready |-> sem.ready + 1,
                      cpu |-> IF manejador[h].syscall = "DESALOJO" THEN sem.cpu + 1 ELSE sem.cpu]
           /\ UNCHANGED <<cpu, prioridad, planif, listas, lista_mutex, mutex_lista, programa, caida>>
<1>1. /\ manejador[h].paso = "encolar" /\ Prosigue(h)
      /\ cola' = Encolada(manejador[h].otro, prioridad)
      /\ sem' = [ready |-> sem.ready + 1,
                 cpu |-> IF manejador[h].syscall = "DESALOJO" THEN sem.cpu + 1 ELSE sem.cpu]
      /\ UNCHANGED <<cpu, prioridad, planif, listas, lista_mutex, mutex_lista, programa, caida>>
  BY DEF Encolar, Haciendo
<1>2. QED
  BY <1>1, ProsigueEfecto DEF DESPERTANDO

\* The second search of buscar_y_sacar_de_block, in the suspended ones.
LEMMA SacarDeSuspBlockEfecto ==
    ASSUME TypeOK, Hilos, NEW h \in HILOS, SacarDeSuspBlock(h)
    PROVE  /\ manejador[h].paso = "de_susp_block" /\ manejador[h].otro \in susp_block
           /\ susp_block' = susp_block \ {manejador[h].otro}
           /\ Despertando(h, "a_susp_ready")
           /\ UNCHANGED <<cpu, prioridad, cola, sem, planif, block, susp_ready, cola_sleep,
                          lista_mutex, mutex_lista, programa, caida>>
<1>1. /\ manejador[h].paso = "de_susp_block" /\ manejador[h].otro \in susp_block
      /\ susp_block' = susp_block \ {manejador[h].otro} /\ Sigue(h, "a_susp_ready")
      /\ UNCHANGED <<cpu, prioridad, cola, sem, planif, block, susp_ready, cola_sleep,
                     lista_mutex, mutex_lista, programa, caida>>
  BY DEF SacarDeSuspBlock, Haciendo
<1>2. "a_susp_ready" \in DESPERTANDO /\ manejador[h].paso \in DESPERTANDO
  BY <1>1 DEF DESPERTANDO
<1>3. QED
  BY <1>1, <1>2, DespiertaEfecto

\* A suspended process becomes suspended ready, and its return is asked for.
LEMMA PonerEnSuspReadyEfecto ==
    ASSUME TypeOK, Hilos, NEW h \in HILOS, PonerEnSuspReady(h)
    PROVE  /\ manejador[h].paso = "a_susp_ready"
           /\ susp_ready' = susp_ready \cup {manejador[h].otro}
           /\ \/ manejador[h].otro \in SIN_MEMORIA /\ Despertando(h, "pedir_desuspender")
              \/ Prosiguio(h)
           /\ UNCHANGED <<cpu, prioridad, cola, sem, planif, block, susp_block, cola_sleep,
                          lista_mutex, mutex_lista, programa, caida>>
<1>1. /\ manejador[h].paso = "a_susp_ready"
      /\ susp_ready' = susp_ready \cup {manejador[h].otro}
      /\ \/ manejador[h].otro \in SIN_MEMORIA /\ Sigue(h, "pedir_desuspender")
         \/ Prosigue(h)
      /\ UNCHANGED <<cpu, prioridad, cola, sem, planif, block, susp_block, cola_sleep,
                     lista_mutex, mutex_lista, programa, caida>>
  BY DEF PonerEnSuspReady, Haciendo
<1>2. "pedir_desuspender" \in DESPERTANDO /\ manejador[h].paso \in DESPERTANDO
  BY <1>1 DEF DESPERTANDO
<1>3. QED
  BY <1>1, <1>2, DespiertaEfecto, ProsigueEfecto

\* desuspender_proceso.
LEMMA SacarDeSuspReadyEfecto ==
    ASSUME TypeOK, Hilos, NEW h \in HILOS, SacarDeSuspReady(h)
    PROVE  /\ manejador[h].paso = "pedir_desuspender"
           /\ susp_ready' = susp_ready \ {manejador[h].otro}
           /\ Despertando(h, "desuspender")
           /\ UNCHANGED <<cpu, prioridad, cola, sem, planif, block, susp_block, cola_sleep,
                          lista_mutex, mutex_lista, programa, caida>>
<1>1. /\ manejador[h].paso = "pedir_desuspender" /\ Sigue(h, "desuspender")
      /\ susp_ready' = susp_ready \ {manejador[h].otro}
      /\ UNCHANGED <<cpu, prioridad, cola, sem, planif, block, susp_block, cola_sleep,
                     lista_mutex, mutex_lista, programa, caida>>
  BY DEF SacarDeSuspReady, Haciendo
<1>2. "desuspender" \in DESPERTANDO /\ manejador[h].paso \in DESPERTANDO
  BY <1>1 DEF DESPERTANDO
<1>3. QED
  BY <1>1, <1>2, DespiertaEfecto

\* The process that comes back to memory goes to its ready queue.
LEMMA DesuspenderEfecto ==
    ASSUME TypeOK, Hilos, NEW h \in HILOS, Desuspender(h)
    PROVE  /\ manejador[h].paso = "desuspender" /\ Prosiguio(h)
           /\ cola' = Encolada(manejador[h].otro, prioridad)
           /\ sem' = [sem EXCEPT !.ready = @ + 1]
           /\ UNCHANGED <<cpu, prioridad, planif, listas, lista_mutex, mutex_lista, programa, caida>>
<1>1. /\ manejador[h].paso = "desuspender" /\ Prosigue(h)
      /\ cola' = Encolada(manejador[h].otro, prioridad)
      /\ sem' = [sem EXCEPT !.ready = @ + 1]
      /\ UNCHANGED <<cpu, prioridad, planif, listas, lista_mutex, mutex_lista, programa, caida>>
  BY DEF Desuspender, Haciendo
<1>2. QED
  BY <1>1, ProsigueEfecto DEF DESPERTANDO

\* NUEVA_MEMORIA_DISPONIBLE.
LEMMA NuevaMemoriaEfecto ==
    ASSUME TypeOK, Hilos, NEW p \in PIDS, NuevaMemoria(p)
    PROVE  /\ manejador[Escucha] = Libre /\ p \in susp_ready \cap AVISADOS
           /\ susp_ready' = susp_ready \ {p}
           /\ Va(Escucha, "AVISO", "desuspender", Nadie, p) /\ ~manejador'[Escucha].sacado
           /\ UNCHANGED <<cpu, prioridad, cola, sem, planif, block, susp_block, cola_sleep,
                          lista_mutex, mutex_lista, programa, caida>>
<1> DEFINE n == [Libre EXCEPT !.syscall = "AVISO", !.paso = "desuspender", !.otro = p]
<1>1. /\ manejador[Escucha].paso = "recibir" /\ p \in susp_ready \cap AVISADOS
      /\ susp_ready' = susp_ready \ {p}
      /\ manejador' = [manejador EXCEPT ![Escucha] = n]
      /\ UNCHANGED <<cpu, prioridad, cola, sem, planif, block, susp_block, cola_sleep,
                     lista_mutex, mutex_lista, programa, caida>>
  BY DEF NuevaMemoria, Haciendo
<1>2. Escucha \in HILOS /\ manejador \in [HILOS -> Atenciones]
  BY LosHilos DEF TypeOK
<1>3. manejador[Escucha] = Libre
  BY <1>1, <1>2 DEF Hilos, Hilo
<1>4. n.syscall = "AVISO" /\ n.paso = "desuspender" /\ n.pid = Nadie /\ n.otro = p /\ ~n.sacado
  BY DEF Libre
<1>5. n \in Atenciones
  <2>1. "AVISO" \in LLAMADAS /\ "desuspender" \in PASOS
    BY DEF LLAMADAS, PASOS
  <2>2. QED
    BY <2>1, LibreEs DEF Atenciones
<1> HIDE DEF n
<1>6. Va(Escucha, "AVISO", "desuspender", Nadie, p) /\ ~manejador'[Escucha].sacado
  BY <1>1, <1>2, <1>4, <1>5, ComienzaVa
<1>7. QED
  BY <1>1, <1>3, <1>6

\* FINALIZAR_SLEEP.
LEMMA FinSleepEfecto ==
    ASSUME TypeOK, Hilos, FinSleep
    PROVE  /\ manejador[Io] = Libre /\ cola_sleep # <<>> /\ Head(cola_sleep) \in PIDS
           /\ cola_sleep' = Tail(cola_sleep)
           /\ Va(Io, "FINALIZAR_SLEEP", "sacar", Nadie, Head(cola_sleep)) /\ ~manejador'[Io].sacado
           /\ UNCHANGED <<cpu, prioridad, cola, sem, planif, block, susp_block, susp_ready,
                          lista_mutex, mutex_lista, programa, caida>>
<1> DEFINE p == Head(cola_sleep)
           n == [Libre EXCEPT !.syscall = "FINALIZAR_SLEEP", !.paso = "sacar", !.otro = p]
<1>1. /\ manejador[Io].paso = "recibir" /\ cola_sleep # <<>> /\ cola_sleep' = Tail(cola_sleep)
      /\ manejador' = [manejador EXCEPT ![Io] = n]
      /\ UNCHANGED <<cpu, prioridad, cola, sem, planif, block, susp_block, susp_ready,
                     lista_mutex, mutex_lista, programa, caida>>
  BY DEF FinSleep, Haciendo
<1>2. Io \in HILOS /\ manejador \in [HILOS -> Atenciones] /\ p \in PIDS
  BY <1>1, LosHilos DEF TypeOK
<1> HIDE DEF p
<1>3. manejador[Io] = Libre
  BY <1>1, <1>2 DEF Hilos, Hilo
<1>4. n.syscall = "FINALIZAR_SLEEP" /\ n.paso = "sacar" /\ n.pid = Nadie /\ n.otro = p /\ ~n.sacado
  BY DEF Libre
<1>5. n \in Atenciones
  <2>1. "FINALIZAR_SLEEP" \in LLAMADAS /\ "sacar" \in PASOS
    BY DEF LLAMADAS, PASOS
  <2>2. QED
    BY <1>2, <2>1, LibreEs DEF Atenciones
<1> HIDE DEF n
<1>6. Va(Io, "FINALIZAR_SLEEP", "sacar", Nadie, p) /\ ~manejador'[Io].sacado
  BY <1>1, <1>2, <1>4, <1>5, ComienzaVa
<1>7. QED
  BY <1>1, <1>2, <1>3, <1>6 DEF p

\* The end of MUTEX_UNLOCK.
LEMMA RecalcularEfecto ==
    ASSUME TypeOK, Hilos, NEW c \in CPUS, Recalcular(c)
    PROVE  /\ manejador[c].paso = "recalcular" /\ mutex_lista = Nadie
           /\ Va(c, "MUTEX_UNLOCK", "reponer", manejador[c].pid, manejador[c].otro)
           /\ ~manejador'[c].sacado
           /\ manejador'[c].nueva = Mejor(EsperanA(manejador[c].pid), ORIGINAL[manejador[c].pid])
           /\ EsperanA(manejador[c].pid) \subseteq PIDS
           /\ manejador'[c].nueva \in PRIORIDADES
           /\ UNCHANGED <<cola, Fijos>>
<1> DEFINE p == manejador[c].pid
           v == Mejor(EsperanA(p), ORIGINAL[p])
<1>1. /\ manejador[c].paso = "recalcular" /\ mutex_lista = Nadie
      /\ manejador' = [manejador EXCEPT ![c].paso = "reponer", ![c].nueva = v]
      /\ UNCHANGED <<cola, Fijos>>
  BY Zenon DEF Recalcular, Haciendo, Fijos
<1>2. /\ c \in HILOS /\ manejador \in [HILOS -> Atenciones] /\ lista_mutex \in Seq(Mutexes)
      /\ prioridad \in [PIDS -> PRIORIDADES]
  BY LosHilos DEF CpuHilo, TypeOK
<1>3. manejador[c].syscall = "MUTEX_UNLOCK" /\ p \in PIDS /\ ~manejador[c].sacado
  BY <1>1, <1>2, LlamadaDe
<1>4. EsperanA(p) \subseteq PIDS
  <2>1. \A i \in DOMAIN lista_mutex : lista_mutex[i].colaEspera \in Seq(PIDS)
    <3>1. \A i \in DOMAIN lista_mutex : lista_mutex[i] \in Mutexes
      BY <1>2
    <3>2. QED
      BY <3>1 DEF Mutexes
  <2>2. \A i \in DOMAIN lista_mutex : Esperan(lista_mutex[i]) \subseteq PIDS
    BY <2>1 DEF Esperan, ToSet
  <2>3. QED
    BY <2>2 DEF EsperanA
<1>5. ORIGINAL[p] \in PRIORIDADES
  BY <1>3, SupuestosMutex DEF PRIORIDADES
<1>6. v \in PRIORIDADES
  BY <1>2, <1>4, <1>5, MejorEs
<1>7. v \in Nat /\ "reponer" \in PASOS
  BY <1>6, SupuestosMutex DEF PRIORIDADES, PASOS
<1> HIDE DEF v
<1>8. /\ Va(c, manejador[c].syscall, "reponer", manejador[c].pid, manejador[c].otro)
      /\ manejador'[c].sacado = manejador[c].sacado /\ manejador'[c].nueva = v
  BY <1>1, <1>2, <1>7, RecalculaVa
<1>9. QED
  BY <1>1, <1>3, <1>4, <1>6, <1>8 DEF v

\* The last step of MUTEX_UNLOCK writes the priority found before.
LEMMA ReponerEfecto ==
    ASSUME TypeOK, Hilos, NEW c \in CPUS, Reponer(c)
    PROVE  /\ manejador[c].paso = "reponer"
           /\ Va(c, "ninguna", "recibir", Nadie, Nadie) /\ manejador'[c] = Libre
           /\ prioridad' = [prioridad EXCEPT ![manejador[c].pid] = manejador[c].nueva]
           /\ manejador[c].nueva \in PRIORIDADES
           /\ UNCHANGED <<cpu, cola, sem, planif, listas, lista_mutex, mutex_lista, programa, caida>>
<1>1. /\ manejador[c].paso = "reponer" /\ manejador' = [manejador EXCEPT ![c] = Libre]
      /\ prioridad' = [prioridad EXCEPT ![manejador[c].pid] = manejador[c].nueva]
      /\ UNCHANGED <<cpu, cola, sem, planif, listas, lista_mutex, mutex_lista, programa, caida>>
  BY DEF Reponer, Haciendo
<1>2. c \in HILOS /\ manejador \in [HILOS -> Atenciones]
  BY LosHilos DEF CpuHilo, TypeOK
<1>3. manejador[c].nueva \in PRIORIDADES
  BY <1>1, <1>2 DEF Hilos, Hilo
<1>4. QED
  BY <1>1, <1>2, <1>3, TerminaVa

\* liberar_de_mutex_por_muerte.
LEMMA EmpezarMuerteEfecto ==
    ASSUME TypeOK, Hilos, NEW c \in CPUS, EmpezarMuerte(c)
    PROVE  /\ manejador[c].paso = "morir" /\ mutex_lista = Nadie /\ mutex_lista' = c
           /\ Va(c, "EXIT", "muerte", manejador[c].pid, manejador[c].otro)
           /\ ~manejador'[c].sacado /\ manejador'[c].i = 1
           /\ UNCHANGED <<cpu, prioridad, cola, sem, planif, listas, lista_mutex, programa, caida>>
<1>1. /\ manejador[c].paso = "morir" /\ mutex_lista = Nadie /\ mutex_lista' = c
      /\ manejador' = [manejador EXCEPT ![c].paso = "muerte", ![c].i = 1]
      /\ UNCHANGED <<cpu, prioridad, cola, sem, planif, listas, lista_mutex, programa, caida>>
  BY DEF EmpezarMuerte, Haciendo
<1>2. c \in HILOS /\ manejador \in [HILOS -> Atenciones] /\ "muerte" \in PASOS
  BY LosHilos DEF CpuHilo, TypeOK, PASOS
<1>3. manejador[c].syscall = "EXIT" /\ ~manejador[c].sacado
  BY <1>1, <1>2, LlamadaDe
<1>4. /\ Va(c, manejador[c].syscall, "muerte", manejador[c].pid, manejador[c].otro)
      /\ manejador'[c].i = 1 /\ manejador'[c].sacado = manejador[c].sacado
  BY ZenonT(60), <1>1, <1>2, PasoIVa
<1>5. QED
  BY <1>1, <1>3, <1>4

\* The next mutex of the dead process is the first of those left.
LEMMA LiberarPorMuerteEfecto ==
    ASSUME TypeOK, Hilos, Cuentas, NEW c \in CPUS, LiberarPorMuerte(c)
    PROVE  /\ manejador[c].paso = "muerte" /\ manejador[c].i \in Nat
           /\ \E i \in DOMAIN lista_mutex :
                 LET m == lista_mutex[i] IN
                 /\ m \in Mutexes /\ i >= manejador[c].i /\ i \in Nat
                 /\ m.pid = manejador[c].pid /\ Tomado(m)
                 /\ m.contador = 0 - Len(m.colaEspera)
                 /\ \A j \in DOMAIN lista_mutex :
                       j >= manejador[c].i /\ j < i /\ Tomado(lista_mutex[j]) =>
                          lista_mutex[j].pid # manejador[c].pid
                 /\ manejador'[c].i = i + 1 /\ ~manejador'[c].sacado
                 /\ \/ /\ m.colaEspera = <<>>
                       /\ lista_mutex' = [lista_mutex EXCEPT ![i] =
                               [m EXCEPT !.contador = @ + 1, !.pid = Nadie]]
                       /\ Va(c, "EXIT", "muerte", manejador[c].pid, manejador[c].otro)
                       /\ UNCHANGED prioridad
                    \/ /\ m.colaEspera # <<>>
                       /\ lista_mutex' = [lista_mutex EXCEPT ![i] = Entregado(m)]
                       /\ Va(c, "EXIT", "sacar", manejador[c].pid, Head(m.colaEspera))
                       /\ prioridad' = HeredaDeLaCola(m)
           /\ UNCHANGED <<cpu, cola, sem, planif, listas, mutex_lista, programa, caida>>
<1> DEFINE suyos == DelMuerto(manejador[c].pid, manejador[c].i)
           i == CHOOSE k \in suyos : \A j \in suyos : k <= j
           m == lista_mutex[i]
<1>1. /\ manejador[c].paso = "muerte" /\ suyos # {}
      /\ UNCHANGED <<cpu, cola, sem, planif, listas, mutex_lista, programa, caida>>
      /\ \/ /\ m.colaEspera = <<>>
            /\ lista_mutex' = [lista_mutex EXCEPT ![i].contador = @ + 1, ![i].pid = Nadie]
            /\ manejador' = [manejador EXCEPT ![c].i = i + 1]
            /\ UNCHANGED prioridad
         \/ /\ m.colaEspera # <<>>
            /\ lista_mutex' = [lista_mutex EXCEPT ![i] = Entregado(m)]
            /\ manejador' = [manejador EXCEPT
                   ![c].paso = "sacar", ![c].i = i + 1, ![c].otro = Head(m.colaEspera)]
            /\ prioridad' = HeredaDeLaCola(m)
  BY Zenon DEF LiberarPorMuerte, Haciendo
<1>2. /\ c \in HILOS /\ manejador \in [HILOS -> Atenciones] /\ lista_mutex \in Seq(Mutexes)
  BY LosHilos DEF CpuHilo, TypeOK
<1>3. i \in suyos /\ \A j \in suyos : i <= j
  <2>1. suyos \in SUBSET Nat
    <3>1. DOMAIN lista_mutex \subseteq Nat
      BY <1>2
    <3>2. QED
      BY <3>1 DEF DelMuerto
  <2> HIDE DEF suyos
  <2>2. Min(suyos) \in suyos /\ \A j \in suyos : Min(suyos) <= j
    BY <1>1, <2>1, HayPrimero
  <2>3. QED
    BY <2>2
<1> HIDE DEF i
<1>4. /\ i \in DOMAIN lista_mutex /\ i >= manejador[c].i /\ m.pid = manejador[c].pid /\ Tomado(m)
      /\ \A j \in DOMAIN lista_mutex :
             j >= manejador[c].i /\ lista_mutex[j].pid = manejador[c].pid /\ Tomado(lista_mutex[j]) =>
                i <= j
  BY <1>3 DEF DelMuerto, Tomado
<1>5. /\ m \in Mutexes /\ i \in Nat /\ m.contador = 0 - Len(m.colaEspera)
      /\ DOMAIN lista_mutex \subseteq Nat
  BY <1>2, <1>4 DEF Cuentas
<1>6. manejador[c].i \in Nat
  BY <1>2 DEF Atenciones
<1>7. \A j \in DOMAIN lista_mutex :
          j >= manejador[c].i /\ j < i /\ Tomado(lista_mutex[j]) =>
             lista_mutex[j].pid # manejador[c].pid
  BY <1>4, <1>5, <1>6
<1>8. manejador[c].syscall = "EXIT" /\ ~manejador[c].sacado
  BY <1>1, <1>2, LlamadaDe
<1> DEFINE k == i + 1
<1>9. k \in Nat
  BY <1>5
<1>10. CASE m.colaEspera = <<>>
  <2>1. /\ lista_mutex' = [lista_mutex EXCEPT ![i].contador = @ + 1, ![i].pid = Nadie]
        /\ manejador' = [manejador EXCEPT ![c].i = k] /\ UNCHANGED prioridad
    BY <1>1, <1>10
  <2>2. lista_mutex' = [lista_mutex EXCEPT ![i] = [m EXCEPT !.contador = @ + 1, !.pid = Nadie]]
    BY <1>4, <2>1
  <2> HIDE DEF k
  <2>3. /\ Va(c, manejador[c].syscall, manejador[c].paso, manejador[c].pid, manejador[c].otro)
        /\ manejador'[c].i = k /\ manejador'[c].sacado = manejador[c].sacado
    BY <1>2, <1>9, <2>1, AvanzaVa
  <2>4. Va(c, "EXIT", "muerte", manejador[c].pid, manejador[c].otro)
    BY <1>1, <1>8, <2>3
  <2>5. QED
    BY <1>1, <1>4, <1>5, <1>6, <1>7, <1>8, <1>10, <2>1, <2>2, <2>3, <2>4 DEF k
<1>11. CASE m.colaEspera # <<>>
  <2> DEFINE o == Head(m.colaEspera)
  <2>1. /\ lista_mutex' = [lista_mutex EXCEPT ![i] = Entregado(m)] /\ prioridad' = HeredaDeLaCola(m)
        /\ manejador' = [manejador EXCEPT ![c].paso = "sacar", ![c].i = k, ![c].otro = o]
    BY <1>1, <1>11
  <2>2. o \in PIDS \cup {Nadie} /\ "sacar" \in PASOS
    BY <1>5, <1>11, EntregadoEs DEF PASOS
  <2> HIDE DEF k, o
  <2>3. /\ Va(c, manejador[c].syscall, "sacar", manejador[c].pid, o)
        /\ manejador'[c].i = k /\ manejador'[c].sacado = manejador[c].sacado
    <3>1. manejador' = [manejador EXCEPT ![c].paso = "sacar", ![c].i = k, ![c].otro = o]
      BY <2>1
    <3>2. k \in Nat
      BY <1>9
    <3> DEFINE n == [manejador[c] EXCEPT !.paso = "sacar", !.i = k, !.otro = o]
    <3>3. manejador[c] \in Atenciones
      BY <1>2
    <3>4. manejador' = [manejador EXCEPT ![c] = n]
      BY <1>2, <3>1
    <3>5. /\ n \in Atenciones /\ n.syscall = manejador[c].syscall /\ n.paso = "sacar"
          /\ n.pid = manejador[c].pid /\ n.otro = o /\ n.i = k /\ n.sacado = manejador[c].sacado
      BY <2>2, <3>2, <3>3 DEF Atenciones
    <3> HIDE DEF n
    <3>6. Pone(c, n)
      BY <1>2, <3>4, <3>5, Poner
    <3>7. QED
      BY <3>5, <3>6 DEF Pone, Va
  <2>4. Va(c, "EXIT", "sacar", manejador[c].pid, o)
    BY <1>8, <2>3
  <2>5. QED
    BY <1>1, <1>4, <1>5, <1>6, <1>7, <1>8, <1>11, <2>1, <2>3, <2>4 DEF k, o
<1>12. QED
  BY <1>10, <1>11

\* The last step of EXIT finds no mutex of the dead process.
LEMMA FinMuerteEfecto ==
    ASSUME TypeOK, Hilos, NEW c \in CPUS, FinMuerte(c)
    PROVE  /\ manejador[c].paso = "muerte" /\ mutex_lista' = Nadie
           /\ DelMuerto(manejador[c].pid, manejador[c].i) = {}
           /\ Va(c, "ninguna", "recibir", Nadie, Nadie) /\ manejador'[c] = Libre
           /\ sem' = [sem EXCEPT !.cpu = @ + 1]
           /\ UNCHANGED <<cpu, prioridad, cola, planif, listas, lista_mutex, programa, caida>>
<1>1. /\ manejador[c].paso = "muerte" /\ mutex_lista' = Nadie
      /\ DelMuerto(manejador[c].pid, manejador[c].i) = {}
      /\ manejador' = [manejador EXCEPT ![c] = Libre]
      /\ sem' = [sem EXCEPT !.cpu = @ + 1]
      /\ UNCHANGED <<cpu, prioridad, cola, planif, listas, lista_mutex, programa, caida>>
  BY DEF FinMuerte, Haciendo
<1>2. c \in HILOS /\ manejador \in [HILOS -> Atenciones]
  BY LosHilos DEF CpuHilo, TypeOK
<1>3. QED
  BY <1>1, <1>2, TerminaVa

\* No thread moves.
LEMMA HilosQuietos ==
    ASSUME Hilos, UNCHANGED manejador, vivos' \subseteq vivos,
           \A c \in CPUS : cpu[c] # Nadie => cpu'[c] = cpu[c],
           mutex_lista' = mutex_lista
    PROVE  Hilos'
<1>1. ASSUME NEW g \in HILOS PROVE Hilo(g)'
  <2>1. Hilo(g) /\ manejador'[g] = manejador[g]
    BY DEF Hilos
  <2>2. g \in CPUS \/ g \in {Io, Escucha}
    BY DEF HILOS
  <2>3. Nadie \notin PIDS
    BY SupuestosMutex
  <2>4. manejador[g].syscall \in {"MUTEX_LOCK", "MUTEX_UNLOCK", "SLEEP", "EXIT"} => g \in CPUS
    BY <2>1, <2>2, LosHilos DEF Hilo, PasoDe, CpuHilo
  <2>5. QED
    BY <2>1, <2>3, <2>4 DEF Hilo
<1>2. QED
  BY <1>1 DEF Hilos

\* The threads of MUTEX_LOCK, while they look for the owner.
LEMMA HilosBuscar ==
    ASSUME TypeOK, Hilos, Heredero, NEW c \in CPUS,
           \/ BuscarEnExec(c) \/ BuscarEnReady(c) \/ BuscarEnBlock(c) \/ BuscarEnSuspBlock(c)
           \/ BuscarEnSuspReady(c) \/ Heredar(c) \/ Transitiva(c) \/ FinTransitiva(c)
    PROVE  Hilos'
<1>1. c \in HILOS
  BY LosHilos DEF CpuHilo
<1>2. /\ manejador[c].paso \in BUSCANDO
      /\ Va(c, "MUTEX_LOCK", manejador'[c].paso, manejador[c].pid, manejador[c].otro)
      /\ manejador'[c].paso \in BUSCANDO \cup {"dejar_cpu"}
      /\ manejador'[c].sacado => manejador'[c].paso \in {"heredar", "transitiva"}
      /\ manejador'[c].paso = "transitiva" => manejador'[c].i >= 1
      /\ UNCHANGED <<cpu, mutex_lista, vivos>>
  <2>1. CASE BuscarEnExec(c) \/ BuscarEnBlock(c) \/ BuscarEnSuspBlock(c) \/ BuscarEnSuspReady(c)
    BY <2>1, BuscaEfecto DEF BUSCANDO, Fijos, programa
  <2>2. CASE BuscarEnReady(c)
    BY <2>2, BuscaReadyEfecto DEF BUSCANDO, Fijos, programa
  <2>3. CASE Heredar(c)
    BY <2>3, HeredarEfecto DEF BUSCANDO, programa
  <2>4. CASE Transitiva(c)
    <3>1. manejador[c].i \in Nat /\ manejador'[c].i = manejador[c].i + 1
      BY <1>1, <2>4, TransitivaEfecto DEF TypeOK, Atenciones
    <3>2. Va(c, "MUTEX_LOCK", "transitiva", manejador[c].pid, manejador[c].otro)
          /\ manejador[c].paso = "transitiva" /\ UNCHANGED <<cpu, mutex_lista, vivos>>
      BY <2>4, TransitivaEfecto DEF programa
    <3>3. manejador'[c].paso = "transitiva"
      BY <3>2 DEF Va
    <3>4. QED
      BY <3>1, <3>2, <3>3 DEF BUSCANDO
  <2>5. CASE FinTransitiva(c)
    <3>1. manejador'[c].paso = "dejar_cpu"
      BY <2>5, FinTransitivaEfecto DEF Va
    <3>2. QED
      BY <2>5, <3>1, FinTransitivaEfecto DEF BUSCANDO, Fijos, programa
  <2>6. QED
    BY <2>1, <2>2, <2>3, <2>4, <2>5
<1>3. Hilo(c)'
  <2>1. /\ mutex_lista = c /\ manejador[c].pid \in PIDS /\ manejador[c].otro \in PIDS
        /\ cpu[c] = manejador[c].pid
    BY <1>1, <1>2, LlamadaDe
  <2>2. QED
    BY <1>2, <2>1 DEF Hilo, Va, PasoDe, BUSCANDO, DESPERTANDO
<1>4. QED
  BY <1>1, <1>2, <1>3, OtrosHilos DEF Va

\* A process leaves its CPU, or gets a new call served.
LEMMA HilosLlamadas ==
    ASSUME TypeOK, Hilos, Cuentas, NEW c \in CPUS,
           \/ DejarCpu(c) \/ EntrarABlock(c) \/ Sleep(c) \/ Exit(c) \/ FinDeQuantum(c)
           \/ \E n : LockNoExiste(c, n) \/ UnlockNoExiste(c, n)
           \/ \E n \in MUTEX : Lock(c, n) \/ (Unlock(c, n) /\ Duenio(cpu[c], n))
    PROVE  Hilos'
<1>1. c \in HILOS
  BY LosHilos DEF CpuHilo
<1>2. CASE DejarCpu(c)
  <2>1. /\ Va(c, manejador[c].syscall, "a_block", manejador[c].pid, manejador[c].otro)
        /\ ~manejador'[c].sacado /\ manejador[c].paso = "dejar_cpu"
        /\ cpu' = [cpu EXCEPT ![c] = Nadie] /\ UNCHANGED <<mutex_lista, vivos>>
    BY <1>2, DejarCpuEfecto DEF programa
  <2>2. /\ manejador[c].syscall \in {"MUTEX_LOCK", "SLEEP"} /\ manejador[c].pid \in PIDS
        /\ manejador[c].syscall = "MUTEX_LOCK" => mutex_lista = c
    BY <1>1, <2>1, LlamadaDe
  <2>3. Hilo(c)'
    BY <2>1, <2>2 DEF Hilo, Va, PasoDe, BUSCANDO, DESPERTANDO
  <2>4. \A e \in CPUS : e # c => cpu'[e] = cpu[e]
    BY <2>1 DEF TypeOK
  <2>5. QED
    BY <1>1, <2>1, <2>3, <2>4, OtrosHilos DEF Va
<1>3. CASE EntrarABlock(c)
  <2>1. /\ Va(c, "ninguna", "recibir", Nadie, Nadie) /\ manejador'[c] = Libre
        /\ manejador[c].paso = "a_block"
        /\ mutex_lista' = IF manejador[c].syscall = "MUTEX_LOCK" THEN Nadie ELSE mutex_lista
        /\ UNCHANGED <<cpu, vivos>>
    BY <1>3, EntrarABlockEfecto DEF programa
  <2>2. manejador[c].syscall = "MUTEX_LOCK" => mutex_lista = c
    BY <1>1, <2>1, LlamadaDe
  <2>3. Hilo(c)'
    BY <2>1 DEF Hilo, PasoDe, BUSCANDO, DESPERTANDO, Libre
  <2>4. QED
    BY <1>1, <2>1, <2>2, <2>3, OtrosHilos DEF Va
<1>4. CASE Sleep(c)
  <2>1. /\ cpu[c] \in PIDS /\ Va(c, "SLEEP", "dejar_cpu", cpu[c], Nadie) /\ ~manejador'[c].sacado
        /\ UNCHANGED <<cpu, mutex_lista, vivos>>
    BY <1>4, SleepEfecto DEF Fijos, programa
  <2>2. Hilo(c)'
    BY <2>1 DEF Hilo, Va, PasoDe, BUSCANDO, DESPERTANDO
  <2>3. QED
    BY <1>1, <2>1, <2>2, OtrosHilos DEF Va
<1>5. CASE Exit(c)
  <2>1. /\ cpu[c] \in PIDS /\ Va(c, "EXIT", "morir", cpu[c], Nadie) /\ ~manejador'[c].sacado
        /\ cpu' = [cpu EXCEPT ![c] = Nadie] /\ vivos' = vivos \ {cpu[c]} /\ UNCHANGED mutex_lista
    BY <1>5, ExitEfecto
  <2>2. Hilo(c)'
    BY <2>1 DEF Hilo, Va, PasoDe, BUSCANDO, DESPERTANDO
  <2>3. \A e \in CPUS : e # c => cpu'[e] = cpu[e]
    BY <2>1 DEF TypeOK
  <2>4. QED
    BY <1>1, <2>1, <2>2, <2>3, OtrosHilos DEF Va
<1>6. CASE FinDeQuantum(c)
  <2>1. /\ cpu[c] \in PIDS /\ Va(c, "DESALOJO", "encolar", Nadie, cpu[c]) /\ ~manejador'[c].sacado
        /\ cpu' = [cpu EXCEPT ![c] = Nadie] /\ UNCHANGED <<mutex_lista, vivos>>
    BY <1>6, FinDeQuantumEfecto DEF programa
  <2>2. Hilo(c)'
    BY <2>1 DEF Hilo, Va, PasoDe, BUSCANDO, DESPERTANDO
  <2>3. \A e \in CPUS : e # c => cpu'[e] = cpu[e]
    BY <2>1 DEF TypeOK
  <2>4. QED
    BY <1>1, <2>1, <2>2, <2>3, OtrosHilos DEF Va
<1>7. ASSUME NEW n, LockNoExiste(c, n) \/ UnlockNoExiste(c, n) PROVE Hilos'
  <2>1. /\ Va(c, manejador'[c].syscall, "sin_respuesta", Nadie, Nadie)
        /\ manejador'[c].syscall \in {"MUTEX_LOCK", "MUTEX_UNLOCK"} /\ ~manejador'[c].sacado
        /\ UNCHANGED <<cpu, mutex_lista, vivos>>
    BY <1>7, NoExisteEfecto DEF Fijos, programa
  <2>2. Hilo(c)'
    BY <2>1 DEF Hilo, Va, PasoDe, BUSCANDO, DESPERTANDO
  <2>3. QED
    BY <1>1, <2>1, <2>2, OtrosHilos DEF Va
<1>8. ASSUME NEW n \in MUTEX, Lock(c, n) PROVE Hilos'
  <2>1. /\ mutex_lista = Nadie /\ cpu[c] \in PIDS /\ UNCHANGED <<cpu, vivos>>
        /\ \/ UNCHANGED <<mutex_lista, manejador>>
           \/ /\ mutex_lista' = c /\ lista_mutex[Indice(n)].pid \in PIDS
              /\ Va(c, "MUTEX_LOCK", "en_exec", cpu[c], lista_mutex[Indice(n)].pid)
              /\ ~manejador'[c].sacado
    BY <1>8, LockEfecto
  <2>2. CASE UNCHANGED <<mutex_lista, manejador>>
    BY <2>1, <2>2, HilosQuietos
  <2>3. CASE /\ mutex_lista' = c /\ lista_mutex[Indice(n)].pid \in PIDS
             /\ Va(c, "MUTEX_LOCK", "en_exec", cpu[c], lista_mutex[Indice(n)].pid)
             /\ ~manejador'[c].sacado
    <3>1. Hilo(c)'
      BY <2>1, <2>3 DEF Hilo, Va, PasoDe, BUSCANDO, DESPERTANDO
    <3>2. QED
      BY <1>1, <2>1, <2>3, <3>1, OtrosHilos DEF Va
  <2>4. QED
    BY SMTT(30), <2>1, <2>2, <2>3
<1>9. ASSUME NEW n \in MUTEX, Unlock(c, n), Duenio(cpu[c], n) PROVE Hilos'
  <2>1. /\ cpu[c] \in PIDS /\ UNCHANGED <<cpu, mutex_lista, vivos>> /\ ~manejador'[c].sacado
        /\ \/ /\ lista_mutex[Indice(n)].colaEspera # <<>> /\ lista_mutex[Indice(n)] \in Mutexes
              /\ Va(c, "MUTEX_UNLOCK", "sacar", cpu[c], Head(lista_mutex[Indice(n)].colaEspera))
           \/ Va(c, "MUTEX_UNLOCK", "recalcular", cpu[c], Nadie)
    BY <1>9, UnlockEfecto
  <2>2. Hilo(c)'
    <3>1. CASE /\ lista_mutex[Indice(n)].colaEspera # <<>> /\ lista_mutex[Indice(n)] \in Mutexes
               /\ Va(c, "MUTEX_UNLOCK", "sacar", cpu[c], Head(lista_mutex[Indice(n)].colaEspera))
      <4>1. Head(lista_mutex[Indice(n)].colaEspera) \in PIDS
        BY <3>1, EntregadoEs
      <4>2. QED
        BY <2>1, <3>1, <4>1 DEF Hilo, Va, PasoDe, BUSCANDO, DESPERTANDO
    <3>2. CASE Va(c, "MUTEX_UNLOCK", "recalcular", cpu[c], Nadie)
      BY <2>1, <3>2 DEF Hilo, Va, PasoDe, BUSCANDO, DESPERTANDO
    <3>3. QED
      BY <2>1, <3>1, <3>2
  <2>3. QED
    BY <1>1, <2>1, <2>2, OtrosHilos DEF Va
<1>10. QED
  BY <1>2, <1>3, <1>4, <1>5, <1>6, <1>7, <1>8, <1>9

\* The threads that wake a process.
LEMMA HilosDespertar ==
    ASSUME TypeOK, Hilos, NEW h \in HILOS, Despertar(h)
    PROVE  Hilos'
<1>1. /\ manejador[h].paso \in DESPERTANDO
      /\ UNCHANGED <<cpu, mutex_lista, vivos>>
      /\ \/ Prosiguio(h)
         \/ \E x \in DESPERTANDO \ {"sacar", "desuspender"} : Despertando(h, x)
         \/ Despertando(h, "desuspender") /\ manejador[h].paso = "pedir_desuspender"
  BY SacarDeBlockEfecto, EncolarEfecto, SacarDeSuspBlockEfecto, PonerEnSuspReadyEfecto,
     SacarDeSuspReadyEfecto, DesuspenderEfecto
     DEF Despertar, DESPERTANDO, programa
<1>2. /\ manejador[h].otro \in PIDS
      /\ \/ /\ manejador[h].syscall = "MUTEX_UNLOCK" /\ h \in CPUS
            /\ manejador[h].pid \in PIDS /\ cpu[h] = manejador[h].pid
         \/ /\ manejador[h].syscall = "EXIT" /\ mutex_lista = h /\ h \in CPUS
            /\ manejador[h].pid \in PIDS \ vivos
         \/ /\ manejador[h].syscall = "DESALOJO" /\ manejador[h].paso = "encolar"
            /\ h \in CPUS /\ manejador[h].pid = Nadie
         \/ /\ manejador[h].syscall = "FINALIZAR_SLEEP" /\ h = Io
            /\ manejador[h].pid = Nadie
         \/ /\ manejador[h].syscall = "AVISO" /\ h = Escucha
            /\ manejador[h].paso = "desuspender" /\ manejador[h].pid = Nadie
  BY <1>1, LlamadaDe
<1>3. manejador[h].paso \in {"encolar", "desuspender"} => Prosiguio(h)
  BY EncolarEfecto, DesuspenderEfecto, SacarDeBlockEfecto, SacarDeSuspBlockEfecto,
     PonerEnSuspReadyEfecto, SacarDeSuspReadyEfecto DEF Despertar
<1>4. Hilo(h)'
  <2>1. CASE Prosiguio(h)
    BY <1>1, <1>2, <2>1 DEF Prosiguio, Hilo, Va, PasoDe, BUSCANDO, DESPERTANDO, Libre
  <2>2. CASE /\ \E x \in DESPERTANDO : Despertando(h, x)
             /\ manejador[h].paso \notin {"encolar", "desuspender"}
    BY <1>1, <1>2, <2>2 DEF Despertando, Hilo, Va, PasoDe, BUSCANDO, DESPERTANDO
  <2>3. QED
    BY <1>1, <1>3, <2>1, <2>2 DEF DESPERTANDO
<1>5. \A g \in HILOS : g # h => manejador'[g] = manejador[g]
  BY <1>1 DEF Prosiguio, Despertando, Va
<1>6. QED
  BY <1>1, <1>4, <1>5, OtrosHilos

\* The other steps of the threads.
LEMMA HilosResto ==
    ASSUME TypeOK, Hilos, Cuentas,
           \/ \E c \in CPUS : \/ Recalcular(c) \/ Reponer(c) \/ EmpezarMuerte(c)
                              \/ LiberarPorMuerte(c) \/ FinMuerte(c)
           \/ FinSleep
           \/ \E p \in PIDS : NuevaMemoria(p)
    PROVE  Hilos'
<1>1. ASSUME NEW c \in CPUS, Recalcular(c) PROVE Hilos'
  <2>1. /\ c \in HILOS /\ manejador[c].paso = "recalcular"
        /\ Va(c, "MUTEX_UNLOCK", "reponer", manejador[c].pid, manejador[c].otro)
        /\ ~manejador'[c].sacado /\ manejador'[c].nueva \in PRIORIDADES
        /\ UNCHANGED <<cpu, mutex_lista, vivos>>
    BY <1>1, LosHilos, RecalcularEfecto DEF CpuHilo, Fijos, programa
  <2>2. manejador[c].pid \in PIDS /\ cpu[c] = manejador[c].pid
    BY <2>1, LlamadaDe
  <2>3. Hilo(c)'
    BY <2>1, <2>2 DEF Hilo, Va, PasoDe, BUSCANDO, DESPERTANDO
  <2>4. QED
    BY <2>1, <2>3, OtrosHilos DEF Va
<1>2. ASSUME NEW c \in CPUS, Reponer(c) PROVE Hilos'
  <2>1. /\ c \in HILOS /\ Va(c, "ninguna", "recibir", Nadie, Nadie) /\ manejador'[c] = Libre
        /\ UNCHANGED <<cpu, mutex_lista, vivos>>
    BY <1>2, LosHilos, ReponerEfecto DEF CpuHilo, programa
  <2>2. Hilo(c)'
    BY <2>1 DEF Hilo, PasoDe, BUSCANDO, DESPERTANDO, Libre
  <2>3. QED
    BY <2>1, <2>2, OtrosHilos DEF Va
<1>3. ASSUME NEW c \in CPUS, EmpezarMuerte(c) PROVE Hilos'
  <2>1. /\ c \in HILOS /\ manejador[c].paso = "morir" /\ mutex_lista = Nadie /\ mutex_lista' = c
        /\ Va(c, "EXIT", "muerte", manejador[c].pid, manejador[c].otro)
        /\ ~manejador'[c].sacado
        /\ UNCHANGED <<cpu, vivos>>
    BY <1>3, LosHilos, EmpezarMuerteEfecto DEF CpuHilo, programa
  <2>2. manejador[c].pid \in PIDS \ vivos
    BY <2>1, LlamadaDe
  <2>3. Hilo(c)'
    BY <2>1, <2>2 DEF Hilo, Va, PasoDe, BUSCANDO, DESPERTANDO
  <2>4. QED
    BY <2>1, <2>3, OtrosHilos DEF Va
<1>4. ASSUME NEW c \in CPUS, LiberarPorMuerte(c) PROVE Hilos'
  <2>1. PICK o \in PIDS \cup {Nadie} :
           /\ manejador[c].paso = "muerte" /\ ~manejador'[c].sacado
           /\ \/ Va(c, "EXIT", "muerte", manejador[c].pid, o)
              \/ Va(c, "EXIT", "sacar", manejador[c].pid, o) /\ o \in PIDS
           /\ UNCHANGED <<cpu, mutex_lista, vivos>>
    <3>1. manejador[c].otro \in PIDS \cup {Nadie}
      BY LosHilos DEF CpuHilo, TypeOK, Atenciones
    <3>2. QED
      BY <1>4, <3>1, LiberarPorMuerteEfecto, EntregadoEs DEF programa
  <2>2. c \in HILOS /\ manejador[c].pid \in PIDS \ vivos /\ mutex_lista = c
    BY <2>1, LosHilos, LlamadaDe DEF CpuHilo
  <2>3. Hilo(c)'
    BY <2>1, <2>2 DEF Hilo, Va, PasoDe, BUSCANDO, DESPERTANDO
  <2>4. QED
    BY SMTT(30), <2>1, <2>2, <2>3, OtrosHilos DEF Va
<1>5. ASSUME NEW c \in CPUS, FinMuerte(c) PROVE Hilos'
  <2>1. /\ c \in HILOS /\ Va(c, "ninguna", "recibir", Nadie, Nadie) /\ manejador'[c] = Libre
        /\ manejador[c].paso = "muerte"
        /\ UNCHANGED <<cpu, vivos>>
    BY <1>5, LosHilos, FinMuerteEfecto DEF CpuHilo, programa
  <2>2. Hilo(c)'
    BY <2>1 DEF Hilo, PasoDe, BUSCANDO, DESPERTANDO, Libre
  <2>3. mutex_lista = c
    BY <2>1, LlamadaDe
  <2>4. QED
    BY <2>1, <2>2, <2>3, OtrosHilos DEF Va
<1>6. CASE FinSleep
  <2>1. /\ Io \in HILOS /\ Head(cola_sleep) \in PIDS
        /\ Va(Io, "FINALIZAR_SLEEP", "sacar", Nadie, Head(cola_sleep)) /\ ~manejador'[Io].sacado
        /\ UNCHANGED <<cpu, mutex_lista, vivos>>
    BY <1>6, LosHilos, FinSleepEfecto DEF programa
  <2>2. Hilo(Io)'
    BY <2>1 DEF Hilo, Va, PasoDe, BUSCANDO, DESPERTANDO
  <2>3. QED
    BY <2>1, <2>2, OtrosHilos DEF Va
<1>7. ASSUME NEW p \in PIDS, NuevaMemoria(p) PROVE Hilos'
  <2>1. /\ Escucha \in HILOS
        /\ Va(Escucha, "AVISO", "desuspender", Nadie, p) /\ ~manejador'[Escucha].sacado
        /\ UNCHANGED <<cpu, mutex_lista, vivos>>
    BY <1>7, LosHilos, NuevaMemoriaEfecto DEF programa
  <2>2. Hilo(Escucha)'
    BY <2>1 DEF Hilo, Va, PasoDe, BUSCANDO, DESPERTANDO
  <2>3. QED
    BY <2>1, <2>2, OtrosHilos DEF Va
<1>8. QED
  BY <1>1, <1>2, <1>3, <1>4, <1>5, <1>6, <1>7

\* A process leaves a CPU that had it.
LEMMA SaleDeCpu ==
    ASSUME cpu \in [CPUS -> PIDS \cup {Nadie}], NEW c \in CPUS, cpu[c] # Nadie,
           CpusSueltas,
           cpu' = [cpu EXCEPT ![c] = Nadie]
    PROVE  /\ cpu' \in [CPUS -> PIDS \cup {Nadie}]
           /\ CpusSueltas'
           /\ Ejecutando' = Ejecutando \ {cpu[c]} /\ cpu[c] \in Ejecutando
<1>1. \A d \in CPUS : cpu'[d] = IF d = c THEN Nadie ELSE cpu[d]
  OBVIOUS
<1>2. \A x : x \in Ejecutando' <=> x \in Ejecutando \ {cpu[c]}
  BY <1>1 DEF Ejecutando, CpusSueltas
<1>3. QED
  BY <1>1, <1>2 DEF Ejecutando, CpusSueltas

\* A process gets a free CPU.
LEMMA EntraEnCpu ==
    ASSUME cpu \in [CPUS -> PIDS \cup {Nadie}], NEW c \in CPUS, cpu[c] = Nadie,
           NEW p \in PIDS, p \notin Ejecutando,
           CpusSueltas,
           cpu' = [cpu EXCEPT ![c] = p]
    PROVE  /\ cpu' \in [CPUS -> PIDS \cup {Nadie}]
           /\ CpusSueltas'
           /\ Ejecutando' = Ejecutando \cup {p}
<1>1. \A d \in CPUS : cpu'[d] = IF d = c THEN p ELSE cpu[d]
  OBVIOUS
<1>2. p # Nadie
  BY SupuestosMutex
<1>3. \A x : x \in Ejecutando' <=> x \in Ejecutando \cup {p}
  BY <1>1, <1>2 DEF Ejecutando
<1>4. QED
  BY <1>1, <1>2, <1>3 DEF Ejecutando, CpusSueltas

\* A thread takes a process in hand, or lets go of it.
LEMMA ManosCambian ==
    ASSUME NEW h \in HILOS, NEW p, ManosSueltas,
           \A g \in HILOS : g # h => manejador'[g] = manejador[g]
    PROVE  /\ Mano(h)' = Mano(h) => Manos' = Manos /\ ManosSueltas'
           /\ Mano(h) = {} /\ Mano(h)' = {p} /\ p \notin Manos =>
                 Manos' = Manos \cup {p} /\ ManosSueltas'
           /\ Mano(h) = {p} /\ Mano(h)' = {} =>
                 Manos' = Manos \ {p} /\ p \in Manos /\ ManosSueltas'
<1>1. \A g \in HILOS : g # h => Mano(g)' = Mano(g)
  BY DEF Mano
<1>2. ASSUME Mano(h)' = Mano(h) PROVE Manos' = Manos /\ ManosSueltas'
  <2>1. \A g \in HILOS : Mano(g)' = Mano(g)
    BY <1>1, <1>2
  <2>2. \A x : x \in Manos' <=> x \in Manos
    BY <2>1, Zenon DEF Manos
  <2>3. ManosSueltas'
    BY <2>1 DEF ManosSueltas
  <2>4. QED
    BY <2>2, <2>3
<1>3. ASSUME Mano(h) = {}, Mano(h)' = {p}, p \notin Manos
      PROVE  Manos' = Manos \cup {p} /\ ManosSueltas'
  <2>1. \A g \in HILOS : p \notin Mano(g)
    BY <1>3 DEF Manos
  <2>2. \A x : x \in Manos' <=> x \in Manos \cup {p}
    BY <1>1, <1>3 DEF Manos
  <2>3. ManosSueltas'
    BY <1>1, <1>3, <2>1 DEF ManosSueltas
  <2>4. QED
    BY <2>2, <2>3
<1>4. ASSUME Mano(h) = {p}, Mano(h)' = {}
      PROVE  Manos' = Manos \ {p} /\ p \in Manos /\ ManosSueltas'
  <2>1. \A g \in HILOS : g # h => p \notin Mano(g)
    BY <1>4 DEF ManosSueltas
  <2>2. \A x : x \in Manos' <=> x \in Manos \ {p}
    BY <1>1, <1>4, <2>1 DEF Manos
  <2>3. ManosSueltas'
    BY <1>1, <1>4 DEF ManosSueltas
  <2>4. p \in Manos
    BY <1>4 DEF Manos
  <2>5. QED
    BY <2>2, <2>3, <2>4
<1>5. QED
  BY <1>2, <1>3, <1>4

\* EnReady is a function of the queues, now and after a step.
LEMMA ReadyEs == EnReady = EnColas(cola) /\ EnReady' = EnColas(cola')
BY DEF EnReady, EnColas

\* What TypeOK says of the places.
TiposSitios ==
    /\ cpu \in [CPUS -> PIDS \cup {Nadie}]
    /\ cola \in [PRIORIDADES -> Seq(PIDS)]
    /\ planif \in [paso : {"esperar", "desencolar", "enviar"}, pcb : PIDS \cup {Nadie}]
    /\ planif.paso = "enviar" <=> planif.pcb # Nadie
    /\ {block, susp_block, susp_ready, vivos} \subseteq SUBSET PIDS

\* Nobody changes place.
LEMMA SitiosQuietos ==
    ASSUME TypeOK, Sitios, UNCHANGED <<cpu, cola, planif, block, susp_block, susp_ready, vivos>>,
           \/ UNCHANGED manejador
           \/ \E h \in HILOS : /\ Mano(h)' = Mano(h)
                               /\ \A g \in HILOS : g # h => manejador'[g] = manejador[g]
    PROVE  Sitios' /\ TiposSitios'
<1>1. TiposSitios'
  BY DEF TypeOK, TiposSitios
<1>2. Manos' = Manos /\ ManosSueltas'
  <2>1. CASE UNCHANGED manejador
    <3>1. \A h \in HILOS : Mano(h)' = Mano(h)
      BY <2>1 DEF Mano
    <3>2. \A x : x \in Manos' <=> x \in Manos
      BY <3>1, Zenon DEF Manos
    <3>3. QED
      BY <3>1, <3>2 DEF Sitios, ManosSueltas
  <2>2. CASE \E h \in HILOS : /\ Mano(h)' = Mano(h)
                              /\ \A g \in HILOS : g # h => manejador'[g] = manejador[g]
    BY <2>2, ManosCambian DEF Sitios
  <2>3. QED
    BY <2>1, <2>2
<1>3. CpusSueltas' /\ ColasSueltas(cola') /\ Ejecutando' = Ejecutando /\ EnReady' = EnReady
      /\ EnPlanif' = EnPlanif
  BY DEF Sitios, CpusSueltas, Ejecutando, EnReady, EnPlanif
<1>4. QED
  BY <1>1, <1>2, <1>3 DEF Sitios

\* A process leaves its queue to inherit.
LEMMA SitiosSacado ==
    ASSUME TypeOK, Sitios, NEW h \in HILOS, NEW p \in PIDS, p \in EnReady,
           cola' = [k \in PRIORIDADES |-> RemoveFirst(cola[k], p)],
           \A g \in HILOS : g # h => manejador'[g] = manejador[g],
           Mano(h) = {}, Mano(h)' = {p},
           UNCHANGED <<cpu, planif, block, susp_block, susp_ready, vivos>>
    PROVE  Sitios' /\ TiposSitios'
<1>1. /\ cola' \in [PRIORIDADES -> Seq(PIDS)] /\ ColasSueltas(cola')
      /\ EnReady' = EnReady \ {p}
  BY ReadyEs, QuitarDeColas DEF TypeOK, Sitios
<1>2. p \notin Manos
  BY DEF Sitios, Disjuntos
<1>3. Manos' = Manos \cup {p} /\ ManosSueltas'
  BY <1>2, ManosCambian DEF Sitios
<1>4. CpusSueltas' /\ Ejecutando' = Ejecutando /\ EnPlanif' = EnPlanif
  BY DEF Sitios, CpusSueltas, Ejecutando, EnPlanif
<1>5. /\ Disjuntos(Ejecutando, EnReady \ {p}, Manos \cup {p}, EnPlanif, block, susp_block, susp_ready)
      /\ vivos = Vivos(Ejecutando, EnReady \ {p}, Manos \cup {p}, EnPlanif, block, susp_block, susp_ready)
  BY DEF Sitios, Disjuntos, Vivos
<1>6. QED
  BY <1>1, <1>3, <1>4, <1>5 DEF Sitios, TypeOK, TiposSitios

\* A thread puts the process it had in hand in a queue.
LEMMA SitiosEncolado ==
    ASSUME TypeOK, Sitios, NEW h \in HILOS, NEW p \in PIDS,
           cola' = Encolada(p, prioridad),
           \A g \in HILOS : g # h => manejador'[g] = manejador[g],
           Mano(h) = {p}, Mano(h)' = {},
           UNCHANGED <<cpu, planif, block, susp_block, susp_ready, vivos>>
    PROVE  Sitios' /\ TiposSitios'
<1>1. Manos' = Manos \ {p} /\ ManosSueltas' /\ p \in Manos
  BY ManosCambian DEF Sitios
<1>2. p \notin EnReady
  BY <1>1 DEF Sitios, Disjuntos
<1>3. ColaDe(p, prioridad) \in PRIORIDADES
  BY ColaHay DEF TypeOK
<1>4. /\ cola' \in [PRIORIDADES -> Seq(PIDS)] /\ ColasSueltas(cola')
      /\ EnReady' = EnReady \cup {p}
  BY <1>2, <1>3, ReadyEs, AgregarACola DEF TypeOK, Sitios, Encolada
<1>5. CpusSueltas' /\ Ejecutando' = Ejecutando /\ EnPlanif' = EnPlanif
  BY DEF Sitios, CpusSueltas, Ejecutando, EnPlanif
<1>6. /\ Disjuntos(Ejecutando, EnReady \cup {p}, Manos \ {p}, EnPlanif, block, susp_block, susp_ready)
      /\ vivos = Vivos(Ejecutando, EnReady \cup {p}, Manos \ {p}, EnPlanif, block, susp_block, susp_ready)
  BY <1>1 DEF Sitios, Disjuntos, Vivos
<1>7. QED
  BY <1>1, <1>4, <1>5, <1>6 DEF Sitios, TypeOK, TiposSitios

\* A process leaves its CPU, in the hand of the handler.
LEMMA SitiosDeCpu ==
    ASSUME TypeOK, Sitios, NEW c \in CPUS, cpu[c] # Nadie,
           cpu' = [cpu EXCEPT ![c] = Nadie],
           \A g \in HILOS : g # c => manejador'[g] = manejador[g],
           Mano(c) = {}, Mano(c)' = {cpu[c]},
           UNCHANGED <<cola, planif, block, susp_block, susp_ready, vivos>>
    PROVE  Sitios' /\ TiposSitios'
<1> DEFINE p == cpu[c]
<1>1. cpu' \in [CPUS -> PIDS \cup {Nadie}] /\ CpusSueltas' /\ Ejecutando' = Ejecutando \ {p}
      /\ p \in Ejecutando
  BY SaleDeCpu DEF TypeOK, Sitios
<1>2. p \notin Manos /\ c \in HILOS
  BY <1>1, LosHilos DEF Sitios, Disjuntos, CpuHilo
<1>3. Manos' = Manos \cup {p} /\ ManosSueltas'
  BY <1>2, ManosCambian DEF Sitios
<1>4. ColasSueltas(cola') /\ EnReady' = EnReady /\ EnPlanif' = EnPlanif
  BY DEF Sitios, EnReady, EnPlanif
<1>5. /\ Disjuntos(Ejecutando \ {p}, EnReady, Manos \cup {p}, EnPlanif, block, susp_block, susp_ready)
      /\ vivos = Vivos(Ejecutando \ {p}, EnReady, Manos \cup {p}, EnPlanif, block, susp_block, susp_ready)
  BY <1>1 DEF Sitios, Disjuntos, Vivos
<1>6. QED
  BY <1>1, <1>3, <1>4, <1>5 DEF Sitios, TypeOK, TiposSitios

\* A process ends.
LEMMA SitiosExit ==
    ASSUME TypeOK, Sitios, NEW c \in CPUS, cpu[c] # Nadie,
           cpu' = [cpu EXCEPT ![c] = Nadie], vivos' = vivos \ {cpu[c]},
           \A g \in HILOS : g # c => manejador'[g] = manejador[g],
           Mano(c)' = Mano(c),
           UNCHANGED <<cola, planif, block, susp_block, susp_ready>>
    PROVE  Sitios' /\ TiposSitios'
<1> DEFINE p == cpu[c]
<1>1. cpu' \in [CPUS -> PIDS \cup {Nadie}] /\ CpusSueltas' /\ Ejecutando' = Ejecutando \ {p}
      /\ p \in Ejecutando
  BY SaleDeCpu DEF TypeOK, Sitios
<1>2. Manos' = Manos /\ ManosSueltas'
  BY LosHilos, ManosCambian DEF Sitios, CpuHilo
<1>3. ColasSueltas(cola') /\ EnReady' = EnReady /\ EnPlanif' = EnPlanif
  BY DEF Sitios, EnReady, EnPlanif
<1>4. /\ Disjuntos(Ejecutando \ {p}, EnReady, Manos, EnPlanif, block, susp_block, susp_ready)
      /\ vivos' = Vivos(Ejecutando \ {p}, EnReady, Manos, EnPlanif, block, susp_block, susp_ready)
  BY <1>1 DEF Sitios, Disjuntos, Vivos
<1>5. QED
  BY ZenonT(60), <1>1, <1>2, <1>3, <1>4 DEF Sitios, TypeOK, TiposSitios

\* The planner takes a process, and sends it.
LEMMA SitiosPlanif ==
    ASSUME TypeOK, Sitios,
           Esperar \/ Desencolar \/ DesencolarNada \/ \E c \in CPUS : Enviar(c)
    PROVE  Sitios' /\ TiposSitios'
<1> UNCHANGED <<block, susp_block, susp_ready, vivos, manejador>>
  BY DEF Esperar, Desencolar, DesencolarNada, Enviar, listas, programa
<1>1. Manos' = Manos /\ ManosSueltas'
  <2>1. \A h \in HILOS : Mano(h)' = Mano(h)
    BY DEF Mano
  <2>2. \A x : x \in Manos' <=> x \in Manos
    BY <2>1, Zenon DEF Manos
  <2>3. QED
    BY <2>1, <2>2 DEF Sitios, ManosSueltas
<1>2. CASE Esperar \/ DesencolarNada
  <2>1. /\ planif.paso = "esperar" \/ UNCHANGED planif
        /\ planif' = [planif EXCEPT !.paso = "desencolar"] \/ UNCHANGED planif
        /\ UNCHANGED <<cpu, cola>>
    BY <1>2 DEF Esperar, DesencolarNada
  <2>2. /\ planif' \in [paso : {"esperar", "desencolar", "enviar"}, pcb : PIDS \cup {Nadie}]
        /\ planif'.pcb = planif.pcb /\ (planif'.paso = "enviar" <=> planif'.pcb # Nadie)
    BY <1>2 DEF TypeOK, Esperar, DesencolarNada
  <2>3. CpusSueltas' /\ ColasSueltas(cola') /\ Ejecutando' = Ejecutando /\ EnReady' = EnReady
        /\ EnPlanif' = EnPlanif
    BY <2>1, <2>2 DEF Sitios, CpusSueltas, Ejecutando, EnReady, EnPlanif
  <2>4. QED
    BY <1>1, <2>1, <2>2, <2>3 DEF Sitios, TypeOK, TiposSitios
<1>3. CASE Desencolar
  <2> DEFINE p == Head(cola[colaElegida])
  <2>1. /\ planif.paso = "desencolar" /\ EnReady # {}
        /\ planif' = [paso |-> "enviar", pcb |-> p]
        /\ cola' = [cola EXCEPT ![colaElegida] = Tail(@)] /\ UNCHANGED cpu
    BY <1>3 DEF Desencolar
  <2>2. colaElegida \in PRIORIDADES /\ cola[colaElegida] # <<>>
    BY <2>1, ElegidaHay DEF TypeOK
  <2>3. /\ p \in PIDS /\ cola' \in [PRIORIDADES -> Seq(PIDS)] /\ ColasSueltas(cola')
        /\ EnReady = EnReady' \cup {p} /\ p \notin EnReady'
    BY <2>1, <2>2, ReadyEs, DesencolarDe DEF TypeOK, Sitios
  <2> HIDE DEF p
  <2>4. EnReady' = EnReady \ {p} /\ p \in EnReady
    BY <2>3
  <2>5. EnPlanif = {} /\ EnPlanif' = EnPlanif \cup {p}
    BY <2>1, <2>3, SupuestosMutex DEF TypeOK, EnPlanif
  <2>6. /\ Disjuntos(Ejecutando, EnReady \ {p}, Manos, EnPlanif \cup {p}, block, susp_block, susp_ready)
        /\ vivos = Vivos(Ejecutando, EnReady \ {p}, Manos, EnPlanif \cup {p}, block, susp_block, susp_ready)
    BY <2>4 DEF Sitios, Disjuntos, Vivos
  <2>7. CpusSueltas' /\ Ejecutando' = Ejecutando
    BY <2>1 DEF Sitios, CpusSueltas, Ejecutando
  <2>8. p # Nadie
    BY <2>3, SupuestosMutex
  <2>9. QED
    BY <1>1, <2>1, <2>3, <2>4, <2>5, <2>6, <2>7, <2>8 DEF Sitios, TypeOK, TiposSitios
<1>4. ASSUME NEW c \in CPUS, Enviar(c) PROVE Sitios' /\ TiposSitios'
  <2> DEFINE p == planif.pcb
  <2>1. /\ planif.paso = "enviar" /\ cpu[c] = Nadie /\ cpu' = [cpu EXCEPT ![c] = p]
        /\ planif' = SinProceso /\ UNCHANGED cola
    BY <1>4 DEF Enviar
  <2>2. p \in PIDS /\ p \in EnPlanif
    BY <2>1 DEF TypeOK, EnPlanif
  <2>3. p \notin Ejecutando
    BY <2>2 DEF Sitios, Disjuntos
  <2>4. cpu' \in [CPUS -> PIDS \cup {Nadie}] /\ CpusSueltas' /\ Ejecutando' = Ejecutando \cup {p}
    BY <2>1, <2>2, <2>3, EntraEnCpu DEF TypeOK, Sitios
  <2>5. EnPlanif' = EnPlanif \ {p}
    BY <2>1 DEF EnPlanif, SinProceso
  <2> HIDE DEF p
  <2>6. /\ Disjuntos(Ejecutando \cup {p}, EnReady, Manos, EnPlanif \ {p}, block, susp_block, susp_ready)
        /\ vivos = Vivos(Ejecutando \cup {p}, EnReady, Manos, EnPlanif \ {p}, block, susp_block, susp_ready)
    BY <2>2 DEF Sitios, Disjuntos, Vivos
  <2>7. ColasSueltas(cola') /\ EnReady' = EnReady
    BY <2>1 DEF Sitios, EnReady
  <2>8. QED
    BY <1>1, <2>1, <2>4, <2>5, <2>6, <2>7 DEF Sitios, TypeOK, TiposSitios, SinProceso
<1>5. QED
  BY <1>2, <1>3, <1>4

\* A process goes into a list, or out of it, by the hand of a thread.
LEMMA SitiosDeLista ==
    ASSUME TypeOK, Sitios, NEW h \in HILOS, NEW p \in PIDS,
           \A g \in HILOS : g # h => manejador'[g] = manejador[g],
           UNCHANGED <<cpu, cola, planif, vivos>>,
           \/ /\ Mano(h) = {} /\ Mano(h)' = {p}
              /\ \/ p \in block /\ block' = block \ {p} /\ UNCHANGED <<susp_block, susp_ready>>
                 \/ p \in susp_block /\ susp_block' = susp_block \ {p} /\ UNCHANGED <<block, susp_ready>>
                 \/ p \in susp_ready /\ susp_ready' = susp_ready \ {p} /\ UNCHANGED <<block, susp_block>>
           \/ /\ Mano(h) = {p} /\ Mano(h)' = {}
              /\ \/ block' = block \cup {p} /\ UNCHANGED <<susp_block, susp_ready>>
                 \/ susp_ready' = susp_ready \cup {p} /\ UNCHANGED <<block, susp_block>>
    PROVE  Sitios' /\ TiposSitios'
<1>1. CpusSueltas' /\ ColasSueltas(cola') /\ Ejecutando' = Ejecutando /\ EnReady' = EnReady
      /\ EnPlanif' = EnPlanif
  BY DEF Sitios, CpusSueltas, Ejecutando, EnReady, EnPlanif
<1>2. TiposSitios'
  BY DEF TypeOK, TiposSitios
<1>3. /\ Disjuntos(Ejecutando, EnReady, Manos', EnPlanif, block', susp_block', susp_ready') /\ ManosSueltas'
      /\ vivos = Vivos(Ejecutando, EnReady, Manos', EnPlanif, block', susp_block', susp_ready')
  <2>1. CASE Mano(h) = {p} /\ Mano(h)' = {}
    <3>1. Manos' = Manos \ {p} /\ p \in Manos /\ ManosSueltas'
      BY <2>1, ManosCambian DEF Sitios
    <3>2. CASE block' = block \cup {p} /\ UNCHANGED <<susp_block, susp_ready>>
      BY <3>1, <3>2 DEF Sitios, Disjuntos, Vivos
    <3>3. CASE susp_ready' = susp_ready \cup {p} /\ UNCHANGED <<block, susp_block>>
      BY <3>1, <3>3 DEF Sitios, Disjuntos, Vivos
    <3>4. QED
      BY <2>1, <3>2, <3>3
  <2>2. CASE Mano(h) = {} /\ Mano(h)' = {p}
    <3>1. p \in block \cup susp_block \cup susp_ready => p \notin Manos
      BY DEF Sitios, Disjuntos
    <3>2. p \in block \cup susp_block \cup susp_ready
      BY <2>2
    <3>3. Manos' = Manos \cup {p} /\ ManosSueltas'
      BY <2>2, <3>1, <3>2, ManosCambian DEF Sitios
    <3>4. CASE p \in block /\ block' = block \ {p} /\ UNCHANGED <<susp_block, susp_ready>>
      BY <3>3, <3>4 DEF Sitios, Disjuntos, Vivos
    <3>5. CASE p \in susp_block /\ susp_block' = susp_block \ {p} /\ UNCHANGED <<block, susp_ready>>
      BY <3>3, <3>5 DEF Sitios, Disjuntos, Vivos
    <3>6. CASE p \in susp_ready /\ susp_ready' = susp_ready \ {p} /\ UNCHANGED <<block, susp_block>>
      BY <3>3, <3>6 DEF Sitios, Disjuntos, Vivos
    <3>7. QED
      BY <2>2, <3>4, <3>5, <3>6
  <2>3. QED
    BY <2>1, <2>2
<1>4. QED
  BY <1>1, <1>2, <1>3 DEF Sitios

\* The timer of a blocked process.
LEMMA SitiosSuspender ==
    ASSUME TypeOK, Sitios, NEW p \in PIDS, Suspender(p)
    PROVE  Sitios' /\ TiposSitios'
<1>1. /\ p \in block /\ block' = block \ {p} /\ susp_block' = susp_block \cup {p}
      /\ UNCHANGED <<cpu, cola, planif, susp_ready, manejador, vivos>>
  BY DEF Suspender, programa
<1>2. Manos' = Manos /\ ManosSueltas'
  <2>1. \A h \in HILOS : Mano(h)' = Mano(h)
    BY <1>1 DEF Mano
  <2>2. \A x : x \in Manos' <=> x \in Manos
    BY <2>1, Zenon DEF Manos
  <2>3. QED
    BY <2>1, <2>2 DEF Sitios, ManosSueltas
<1>3. CpusSueltas' /\ ColasSueltas(cola') /\ Ejecutando' = Ejecutando /\ EnReady' = EnReady
      /\ EnPlanif' = EnPlanif
  BY <1>1 DEF Sitios, CpusSueltas, Ejecutando, EnReady, EnPlanif
<1>4. /\ Disjuntos(Ejecutando, EnReady, Manos, EnPlanif, block', susp_block', susp_ready)
      /\ vivos = Vivos(Ejecutando, EnReady, Manos, EnPlanif, block', susp_block', susp_ready)
  BY <1>1 DEF Sitios, Disjuntos, Vivos
<1>5. QED
  BY <1>1, <1>2, <1>3, <1>4 DEF Sitios, TypeOK, TiposSitios

\* What TypeOK says of the rest.
TiposResto ==
    /\ prioridad \in [PIDS -> PRIORIDADES]
    /\ sem \in [ready : Nat, cpu : Nat]
    /\ cola_sleep \in Seq(PIDS)
    /\ lista_mutex \in Seq(Mutexes)
    /\ mutex_lista \in CPUS \cup {Nadie}
    /\ manejador \in [HILOS -> Atenciones]
    /\ pide \in [PIDS -> MUTEX \cup {Nadie}]
    /\ tiene \in [PIDS -> SUBSET MUTEX]
    /\ caida \in BOOLEAN

\* TypeOK in two halves.
LEMMA TiposPartes == /\ TypeOK <=> TiposSitios /\ TiposResto
                     /\ TypeOK' <=> TiposSitios' /\ TiposResto'
BY Zenon DEF TypeOK, TiposSitios, TiposResto

\* One mutex of the list changes, and keeps its name.
LEMMA CambiaMutex ==
    ASSUME lista_mutex \in Seq(Mutexes), NEW i \in DOMAIN lista_mutex, NEW m \in Mutexes,
           lista_mutex' = [lista_mutex EXCEPT ![i] = m]
    PROVE  /\ lista_mutex' \in Seq(Mutexes) /\ DOMAIN lista_mutex' = DOMAIN lista_mutex
           /\ lista_mutex'[i] = m
           /\ \A j \in DOMAIN lista_mutex : j # i => lista_mutex'[j] = lista_mutex[j]
OBVIOUS

\* The three ways a mutex is written, besides changing hands.
LEMMA MutexEscrito ==
    ASSUME NEW m \in Mutexes, NEW p \in PIDS
    PROVE  /\ [m EXCEPT !.contador = @ - 1, !.pid = p] \in Mutexes
           /\ [m EXCEPT !.contador = @ - 1, !.colaEspera = Append(@, p)] \in Mutexes
           /\ [m EXCEPT !.contador = @ + 1] \in Mutexes
           /\ [m EXCEPT !.contador = @ + 1, !.pid = Nadie] \in Mutexes
<1>1. /\ m.contador \in Int /\ m.contador - 1 \in Int /\ m.contador + 1 \in Int
      /\ m.colaEspera \in Seq(PIDS) /\ Append(m.colaEspera, p) \in Seq(PIDS)
  BY DEF Mutexes
<1>2. [m EXCEPT !.contador = @ - 1, !.pid = p] \in Mutexes
  BY <1>1 DEF Mutexes
<1>3. [m EXCEPT !.contador = @ - 1, !.colaEspera = Append(@, p)] \in Mutexes
  <2> DEFINE k == m.contador - 1
             s == Append(m.colaEspera, p)
  <2>1. k \in Int /\ s \in Seq(PIDS)
    BY <1>1
  <2>2. [m EXCEPT !.contador = @ - 1, !.colaEspera = Append(@, p)]
            = [m EXCEPT !.contador = k, !.colaEspera = s]
    BY DEF Mutexes
  <2> HIDE DEF k, s
  <2>3. [m EXCEPT !.contador = k, !.colaEspera = s] \in Mutexes
    BY <2>1 DEF Mutexes
  <2>4. QED
    BY <2>2, <2>3
<1>4. [m EXCEPT !.contador = @ + 1] \in Mutexes
  BY <1>1 DEF Mutexes
<1>5. [m EXCEPT !.contador = @ + 1, !.pid = Nadie] \in Mutexes
  BY <1>1 DEF Mutexes
<1>6. QED
  BY <1>2, <1>3, <1>4, <1>5

\* The list of mutexes in a step of Lock, Unlock or LiberarPorMuerte.
LEMMA TiposMutex ==
    ASSUME TypeOK, NEW i \in DOMAIN lista_mutex, NEW p \in PIDS,
           LET m == lista_mutex[i] IN
           \/ lista_mutex' = [lista_mutex EXCEPT ![i] = [m EXCEPT !.contador = @ - 1, !.pid = p]]
           \/ lista_mutex' = [lista_mutex EXCEPT ![i] =
                                [m EXCEPT !.contador = @ - 1, !.colaEspera = Append(@, p)]]
           \/ lista_mutex' = [lista_mutex EXCEPT ![i] = [m EXCEPT !.contador = @ + 1]]
           \/ lista_mutex' = [lista_mutex EXCEPT ![i] = [m EXCEPT !.contador = @ + 1, !.pid = Nadie]]
           \/ m.colaEspera # <<>> /\ lista_mutex' = [lista_mutex EXCEPT ![i] = Entregado(m)]
    PROVE  lista_mutex' \in Seq(Mutexes) /\ DOMAIN lista_mutex' = DOMAIN lista_mutex
<1>1. lista_mutex \in Seq(Mutexes) /\ lista_mutex[i] \in Mutexes
  BY DEF TypeOK
<1>2. PICK n \in Mutexes : lista_mutex' = [lista_mutex EXCEPT ![i] = n]
  BY <1>1, MutexEscrito, EntregadoEs
<1>3. QED
  BY <1>1, <1>2, CambiaMutex

-----------------------------------------------------------------------------
(* Types and places, action by action.                                       *)

\* The planner keeps the types and the places.
LEMMA PasoPlanif ==
    ASSUME TypeOK, Sitios, Planificador
    PROVE  TypeOK' /\ Sitios'
<1>1. Sitios' /\ TiposSitios'
  BY SitiosPlanif DEF Planificador
<1>2. TiposResto'
  <2>1. CASE Esperar
    <3>1. /\ sem.ready > 0 /\ sem.cpu > 0 /\ sem \in [ready : Nat, cpu : Nat]
          /\ sem' = [ready |-> sem.ready - 1, cpu |-> sem.cpu - 1]
      BY <2>1 DEF Esperar, TypeOK
    <3>2. sem' \in [ready : Nat, cpu : Nat]
      BY <3>1
    <3>3. QED
      BY <2>1, <3>2 DEF Esperar, TypeOK, TiposResto, listas, programa
  <2>2. CASE Desencolar
    BY <2>2 DEF Desencolar, TypeOK, TiposResto, listas, programa
  <2>3. CASE DesencolarNada
    BY <2>3 DEF DesencolarNada, TypeOK, TiposResto, listas, programa
  <2>4. ASSUME NEW c \in CPUS, Enviar(c) PROVE TiposResto'
    <3>1. /\ planif.pcb \in PIDS
          /\ tiene' = [tiene EXCEPT ![planif.pcb] = @ \cup ({pide[planif.pcb]} \ {Nadie})]
          /\ pide' = [pide EXCEPT ![planif.pcb] = Nadie]
          /\ UNCHANGED <<prioridad, sem, listas, lista_mutex, mutex_lista, manejador, caida>>
      BY <2>4 DEF Enviar, TypeOK
    <3>2. tiene' \in [PIDS -> SUBSET MUTEX] /\ pide' \in [PIDS -> MUTEX \cup {Nadie}]
      BY <3>1 DEF TypeOK
    <3>3. QED
      BY <3>1, <3>2 DEF TypeOK, TiposResto, listas
  <2>5. QED
    BY <2>1, <2>2, <2>3, <2>4 DEF Planificador
<1>3. QED
  BY <1>1, <1>2, TiposPartes

\* The searches for the owner do, which take it out of its ready queue at most.
LEMMA PasoBuscar ==
    ASSUME TypeOK, Hilos, Sitios, NEW c \in CPUS,
           \/ BuscarEnExec(c) \/ BuscarEnReady(c) \/ BuscarEnBlock(c) \/ BuscarEnSuspBlock(c)
           \/ BuscarEnSuspReady(c)
    PROVE  TypeOK' /\ Sitios'
<1>1. c \in HILOS
  BY LosHilos DEF CpuHilo
<1>2. CASE BuscarEnExec(c) \/ BuscarEnBlock(c) \/ BuscarEnSuspBlock(c) \/ BuscarEnSuspReady(c)
  <2>1. /\ manejador[c].paso \in BUSCANDO \ {"heredar", "transitiva"}
        /\ Va(c, "MUTEX_LOCK", manejador'[c].paso, manejador[c].pid, manejador[c].otro)
        /\ manejador'[c].paso \in (BUSCANDO \ {"transitiva"}) \cup {"dejar_cpu"}
        /\ ~manejador'[c].sacado /\ UNCHANGED <<cola, Fijos>>
    BY <1>2, BuscaEfecto
  <2>2. ~manejador[c].sacado
    BY <1>1, <2>1, LlamadaDe
  <2>3. Mano(c)' = Mano(c)
    BY <2>1, <2>2 DEF Mano, BUSCANDO
  <2>4. Sitios' /\ TiposSitios'
    BY <1>1, <2>1, <2>3, SitiosQuietos DEF Va, Fijos, listas, programa
  <2>5. TiposResto'
    BY <2>1 DEF TypeOK, TiposResto, Fijos, listas, programa, Va
  <2>6. QED
    BY <2>4, <2>5, TiposPartes
<1>3. CASE BuscarEnReady(c)
  <2> DEFINE d == manejador[c].otro
  <2>1. /\ manejador[c].paso = "en_ready"
        /\ Va(c, "MUTEX_LOCK", manejador'[c].paso, manejador[c].pid, d)
        /\ manejador'[c].paso \in {"heredar", "en_block"}
        /\ UNCHANGED Fijos
        /\ \/ ~manejador'[c].sacado /\ cola' = cola
           \/ /\ manejador'[c].sacado /\ d \in EnReady
              /\ cola' = [k \in PRIORIDADES |-> RemoveFirst(cola[k], d)]
    BY <1>3, BuscaReadyEfecto
  <2>2. ~manejador[c].sacado /\ d \in PIDS
    BY <1>1, <2>1, LlamadaDe DEF BUSCANDO
  <2>3. Mano(c) = {}
    BY <2>1, <2>2 DEF Mano
  <2>4. Mano(c)' = IF manejador'[c].sacado THEN {d} ELSE {}
    BY <2>1 DEF Mano, Va
  <2>5. Sitios' /\ TiposSitios'
    <3>1. CASE ~manejador'[c].sacado /\ cola' = cola
      BY <1>1, <2>1, <2>3, <2>4, <3>1, SitiosQuietos DEF Va, Fijos, listas, programa
    <3>2. CASE /\ manejador'[c].sacado /\ d \in EnReady
               /\ cola' = [k \in PRIORIDADES |-> RemoveFirst(cola[k], d)]
      <4> HIDE DEF d
      <4>1. QED
        BY <1>1, <2>1, <2>2, <2>3, <2>4, <3>2, SitiosSacado DEF Va, Fijos, listas, programa
    <3>3. QED
      BY <2>1, <3>1, <3>2
  <2>6. TiposResto'
    BY <2>1 DEF TypeOK, TiposResto, Fijos, listas, programa, Va
  <2>7. QED
    BY <2>5, <2>6, TiposPartes
<1>4. QED
  BY <1>2, <1>3

\* The first inheritance does, which may put the owner back in another queue.
LEMMA PasoHeredar ==
    ASSUME TypeOK, Hilos, Sitios, Heredero, NEW c \in CPUS, Heredar(c)
    PROVE  TypeOK' /\ Sitios'
<1> DEFINE p == manejador[c].pid
           d == manejador[c].otro
<1>1. /\ c \in HILOS /\ manejador[c].paso = "heredar"
      /\ Va(c, "MUTEX_LOCK", manejador'[c].paso, p, d)
      /\ manejador'[c].paso \in {"transitiva", "dejar_cpu"}
      /\ manejador'[c].sacado = manejador[c].sacado
      /\ prioridad' \in {[prioridad EXCEPT ![d] = prioridad[p]], prioridad}
      /\ UNCHANGED <<cpu, cola, sem, planif, listas, lista_mutex, mutex_lista, programa, caida>>
  BY LosHilos, HeredarEfecto DEF CpuHilo
<1>2. p \in PIDS /\ d \in PIDS
  BY <1>1, LlamadaDe DEF BUSCANDO
<1>3. Mano(c)' = Mano(c)
  BY <1>1 DEF Mano, Va
<1>4. Sitios' /\ TiposSitios'
  BY <1>1, <1>3, SitiosQuietos DEF Va, listas, programa
<1> HIDE DEF p, d
<1>5. prioridad' \in [PIDS -> PRIORIDADES]
  BY <1>1, <1>2 DEF TypeOK
<1>6. TiposResto'
  BY <1>1, <1>5 DEF TypeOK, TiposResto, listas, programa, Va
<1>7. QED
  BY <1>4, <1>6, TiposPartes

\* The end of the loop of inheritances does.
LEMMA PasoFinTransitiva ==
    ASSUME TypeOK, Hilos, Sitios, NEW c \in CPUS, FinTransitiva(c)
    PROVE  TypeOK' /\ Sitios'
<1> DEFINE d == manejador[c].otro
<1>1. /\ c \in HILOS /\ manejador[c].paso = "transitiva"
      /\ Va(c, "MUTEX_LOCK", "dejar_cpu", manejador[c].pid, d)
      /\ ~manejador'[c].sacado
      /\ cola' = IF manejador[c].sacado THEN Encolada(d, prioridad) ELSE cola
      /\ UNCHANGED Fijos
  BY LosHilos, FinTransitivaEfecto DEF CpuHilo
<1>2. d \in PIDS
  BY <1>1, LlamadaDe DEF BUSCANDO
<1>3. Mano(c)' = {} /\ Mano(c) = IF manejador[c].sacado THEN {d} ELSE {}
  BY <1>1 DEF Mano, Va
<1> HIDE DEF d
<1>4. Sitios' /\ TiposSitios'
  BY <1>1, <1>2, <1>3, SitiosQuietos, SitiosEncolado DEF Va, Fijos, listas, programa
<1>5. TiposResto'
  BY <1>1 DEF TypeOK, TiposResto, Fijos, listas, programa, Va
<1>6. QED
  BY <1>4, <1>5, TiposPartes

\* bloquear_proceso does: from the CPU to the hand, and from the hand to block.
LEMMA PasoBloquear ==
    ASSUME TypeOK, Hilos, Sitios, NEW c \in CPUS, DejarCpu(c) \/ EntrarABlock(c) \/ Sleep(c)
    PROVE  TypeOK' /\ Sitios'
<1>1. c \in HILOS
  BY LosHilos DEF CpuHilo
<1>2. CASE DejarCpu(c)
  <2>1. /\ manejador[c].paso = "dejar_cpu"
        /\ Va(c, manejador[c].syscall, "a_block", manejador[c].pid, manejador[c].otro)
        /\ ~manejador'[c].sacado /\ cpu' = [cpu EXCEPT ![c] = Nadie]
        /\ UNCHANGED <<prioridad, cola, sem, planif, listas, lista_mutex, mutex_lista, programa, caida>>
    BY <1>2, DejarCpuEfecto
  <2>2. manejador[c].pid \in PIDS /\ cpu[c] = manejador[c].pid /\ ~manejador[c].sacado
    BY <1>1, <2>1, LlamadaDe
  <2>3. Mano(c) = {} /\ Mano(c)' = {cpu[c]} /\ cpu[c] # Nadie
    BY <2>1, <2>2, SupuestosMutex DEF Mano, Va
  <2>4. Sitios' /\ TiposSitios'
    BY <2>1, <2>3, SitiosDeCpu DEF Va, listas, programa
  <2>5. TiposResto'
    BY <2>1 DEF TypeOK, TiposResto, listas, programa, Va
  <2>6. QED
    BY <2>4, <2>5, TiposPartes
<1>3. CASE EntrarABlock(c)
  <2> DEFINE p == manejador[c].pid
  <2>1. /\ manejador[c].paso = "a_block" /\ p \in PIDS
        /\ Va(c, "ninguna", "recibir", Nadie, Nadie) /\ manejador'[c] = Libre
        /\ block' = block \cup {p}
        /\ cola_sleep' \in {Append(cola_sleep, p), cola_sleep}
        /\ mutex_lista' \in {Nadie, mutex_lista}
        /\ sem' = [sem EXCEPT !.cpu = @ + 1]
        /\ UNCHANGED <<cpu, prioridad, cola, planif, susp_block, susp_ready, lista_mutex,
                       programa, caida>>
    BY <1>3, EntrarABlockEfecto
  <2>2. ~manejador[c].sacado
    BY <1>1, <2>1, LlamadaDe
  <2>3. Mano(c) = {p} /\ Mano(c)' = {}
    BY <2>1, <2>2 DEF Mano, Libre
  <2> HIDE DEF p
  <2>4. Sitios' /\ TiposSitios'
    BY <1>1, <2>1, <2>3, SitiosDeLista DEF Va, programa
  <2>5. cola_sleep' \in Seq(PIDS) /\ sem' \in [ready : Nat, cpu : Nat]
        /\ mutex_lista' \in CPUS \cup {Nadie}
    <3>1. Append(cola_sleep, p) \in Seq(PIDS)
      BY <2>1 DEF TypeOK
    <3>2. sem \in [ready : Nat, cpu : Nat] /\ sem.cpu + 1 \in Nat
      BY DEF TypeOK
    <3>3. sem' \in [ready : Nat, cpu : Nat]
      BY <2>1, <3>2
    <3>4. QED
      BY <2>1, <3>1, <3>3 DEF TypeOK
  <2>6. TiposResto'
    BY <2>1, <2>5 DEF TypeOK, TiposResto, programa, Va
  <2>7. QED
    BY <2>4, <2>6, TiposPartes
<1>4. CASE Sleep(c)
  <2>1. /\ manejador[c] = Libre /\ Va(c, "SLEEP", "dejar_cpu", cpu[c], Nadie)
        /\ ~manejador'[c].sacado /\ UNCHANGED <<cola, Fijos>>
    BY <1>4, SleepEfecto
  <2>2. Mano(c)' = Mano(c)
    BY <2>1 DEF Mano, Va, Libre
  <2>3. Sitios' /\ TiposSitios'
    BY <1>1, <2>1, <2>2, SitiosQuietos DEF Va, Fijos, listas, programa
  <2>4. TiposResto'
    BY <2>1 DEF TypeOK, TiposResto, Fijos, listas, programa, Va
  <2>5. QED
    BY <2>3, <2>4, TiposPartes
<1>5. QED
  BY <1>2, <1>3, <1>4

\* EXIT and the end of a quantum do.
LEMMA PasoSalir ==
    ASSUME TypeOK, Hilos, Sitios, NEW c \in CPUS, Exit(c) \/ FinDeQuantum(c)
    PROVE  TypeOK' /\ Sitios'
<1>1. CASE Exit(c)
  <2>1. /\ manejador[c] = Libre /\ cpu[c] \in PIDS
        /\ Va(c, "EXIT", "morir", cpu[c], Nadie) /\ ~manejador'[c].sacado
        /\ cpu' = [cpu EXCEPT ![c] = Nadie] /\ vivos' = vivos \ {cpu[c]}
        /\ tiene' = [tiene EXCEPT ![cpu[c]] = {}]
        /\ UNCHANGED <<prioridad, cola, sem, planif, listas, lista_mutex, mutex_lista, pide, caida>>
    BY <1>1, ExitEfecto
  <2>2. Mano(c)' = Mano(c) /\ cpu[c] # Nadie
    BY <2>1, SupuestosMutex DEF Mano, Va, Libre
  <2>3. Sitios' /\ TiposSitios'
    BY <2>1, <2>2, SitiosExit DEF Va, listas
  <2>4. tiene' \in [PIDS -> SUBSET MUTEX]
    BY <2>1 DEF TypeOK
  <2>5. TiposResto'
    BY <2>1, <2>4 DEF TypeOK, TiposResto, listas, Va
  <2>6. QED
    BY <2>3, <2>5, TiposPartes
<1>2. CASE FinDeQuantum(c)
  <2>1. /\ manejador[c] = Libre /\ cpu[c] \in PIDS
        /\ Va(c, "DESALOJO", "encolar", Nadie, cpu[c]) /\ ~manejador'[c].sacado
        /\ cpu' = [cpu EXCEPT ![c] = Nadie]
        /\ UNCHANGED <<prioridad, cola, sem, planif, listas, lista_mutex, mutex_lista, programa, caida>>
    BY <1>2, FinDeQuantumEfecto
  <2>2. Mano(c) = {} /\ Mano(c)' = {cpu[c]} /\ cpu[c] # Nadie
    BY <2>1, SupuestosMutex DEF Mano, Va, Libre
  <2>3. Sitios' /\ TiposSitios'
    BY <2>1, <2>2, SitiosDeCpu DEF Va, listas, programa
  <2>4. TiposResto'
    BY <2>1 DEF TypeOK, TiposResto, listas, programa, Va
  <2>5. QED
    BY <2>3, <2>4, TiposPartes
<1>3. QED
  BY <1>1, <1>2

\* One more sem_post.
LEMMA SemMas ==
    ASSUME sem \in [ready : Nat, cpu : Nat]
    PROVE  /\ [sem EXCEPT !.cpu = @ + 1] \in [ready : Nat, cpu : Nat]
           /\ [sem EXCEPT !.ready = @ + 1] \in [ready : Nat, cpu : Nat]
           /\ \A b \in BOOLEAN : [ready |-> sem.ready + 1, cpu |-> IF b THEN sem.cpu + 1 ELSE sem.cpu]
                                     \in [ready : Nat, cpu : Nat]
<1>1. sem.cpu + 1 \in Nat /\ sem.ready + 1 \in Nat /\ sem.cpu \in Nat
  OBVIOUS
<1>2. QED
  BY <1>1

\* The owner that inherits by turns changes queue, and stays ready.
LEMMA PasoTransitiva ==
    ASSUME TypeOK, Hilos, Sitios, NEW c \in CPUS, Transitiva(c)
    PROVE  TypeOK' /\ Sitios'
<1> DEFINE d == manejador[c].otro
           o == lista_mutex[manejador[c].i].pid
<1>1. /\ c \in HILOS /\ manejador[c].paso = "transitiva" /\ manejador[c].i \in DOMAIN lista_mutex
      /\ Va(c, "MUTEX_LOCK", "transitiva", manejador[c].pid, manejador[c].otro)
      /\ manejador'[c].sacado = manejador[c].sacado
      /\ UNCHANGED <<cpu, sem, planif, listas, lista_mutex, mutex_lista, programa, caida>>
  BY LosHilos, TransitivaEfecto DEF CpuHilo
<1>2. d \in PIDS
  BY <1>1, LlamadaDe DEF BUSCANDO
<1>3. lista_mutex[manejador[c].i] \in Mutexes
  BY <1>1 DEF TypeOK
<1>4. o \in PIDS \cup {Nadie}
  BY SMTT(30), <1>3 DEF Mutexes
<1>5. \E b1, b2 \in BOOLEAN :
         /\ b1 => Ubicado(o)
         /\ b2 => b1 /\ o \in EnReady
         /\ prioridad' = IF b1 THEN [prioridad EXCEPT ![o] = prioridad[d]] ELSE prioridad
         /\ cola' = IF b2 THEN [[k \in PRIORIDADES |-> RemoveFirst(cola[k], o)] EXCEPT
                                  ![prioridad[d]] = Append(@, o)]
                    ELSE cola
  <2> DEFINE m == lista_mutex[manejador[c].i]
             hereda == /\ o # d /\ d \in Esperan(m) /\ Ubicado(o) /\ prioridad[d] < prioridad[o]
             cambia == hereda /\ ALGORITMO = "CMN" /\ o \in EnReady
  <2>1. /\ prioridad' = IF hereda THEN [prioridad EXCEPT ![o] = prioridad[d]] ELSE prioridad
        /\ cola' = IF cambia THEN [[k \in PRIORIDADES |-> RemoveFirst(cola[k], o)] EXCEPT
                                     ![prioridad[d]] = Append(@, o)]
                   ELSE cola
    BY Zenon DEF Transitiva
  <2>2. hereda \in BOOLEAN /\ cambia \in BOOLEAN /\ (hereda => Ubicado(o))
        /\ (cambia => hereda /\ o \in EnReady)
    OBVIOUS
  <2> HIDE DEF hereda, cambia
  <2>3. QED
    BY <2>1, <2>2
<1> HIDE DEF d, o
<1>6. PICK b1, b2 \in BOOLEAN :
         /\ b1 => Ubicado(o)
         /\ b2 => b1 /\ o \in EnReady
         /\ prioridad' = IF b1 THEN [prioridad EXCEPT ![o] = prioridad[d]] ELSE prioridad
         /\ cola' = IF b2 THEN [[k \in PRIORIDADES |-> RemoveFirst(cola[k], o)] EXCEPT
                                  ![prioridad[d]] = Append(@, o)]
                    ELSE cola
  BY <1>5
<1>7. prioridad[d] \in PRIORIDADES /\ prioridad' \in [PIDS -> PRIORIDADES]
  BY <1>2, <1>6 DEF TypeOK
<1>8. Manos' = Manos /\ ManosSueltas'
  <2>1. Mano(c)' = Mano(c)
    BY <1>1 DEF Mano, Va
  <2>2. QED
    BY <1>1, <2>1, ManosCambian DEF Sitios, Va
<1>9. /\ cola' \in [PRIORIDADES -> Seq(PIDS)] /\ ColasSueltas(cola') /\ EnReady' = EnReady
  <2>1. CASE ~b2
    BY <1>6, <2>1 DEF TypeOK, Sitios, EnReady
  <2>2. CASE b2
    <3> DEFINE f == [k \in PRIORIDADES |-> RemoveFirst(cola[k], o)]
               j == prioridad[d]
    <3>1. o \in EnReady /\ cola' = [f EXCEPT ![j] = Append(@, o)]
      BY <1>6, <2>2
    <3>2. o \in PIDS
      <4>1. \A k \in PRIORIDADES : ToSet(cola[k]) \subseteq PIDS
        BY DEF TypeOK, ToSet
      <4>2. QED
        BY <3>1, <4>1 DEF EnReady
    <3>3. f \in [PRIORIDADES -> Seq(PIDS)] /\ ColasSueltas(f) /\ EnColas(f) = EnReady \ {o}
      BY <3>2, QuitarDeColas, ReadyEs DEF TypeOK, Sitios
    <3> HIDE DEF f, j
    <3>4. j \in PRIORIDADES
      BY <1>7 DEF j
    <3>5. /\ cola' \in [PRIORIDADES -> Seq(PIDS)] /\ ColasSueltas(cola')
          /\ EnColas(cola') = EnColas(f) \cup {o}
      BY <3>1, <3>2, <3>3, <3>4, AgregarACola
    <3>6. QED
      BY <3>1, <3>3, <3>5, ReadyEs
  <2>3. QED
    BY <2>1, <2>2
<1>10. CpusSueltas' /\ Ejecutando' = Ejecutando /\ EnPlanif' = EnPlanif
  BY <1>1 DEF Sitios, CpusSueltas, Ejecutando, EnPlanif
<1>11. Sitios'
  BY <1>1, <1>8, <1>9, <1>10 DEF Sitios, listas, programa
<1>12. TypeOK'
  BY <1>1, <1>7, <1>9, Zenon DEF TypeOK, listas, programa, Va
<1>13. QED
  BY <1>11, <1>12

\* The steps that wake a process do.
LEMMA PasoDespertar ==
    ASSUME TypeOK, Hilos, Sitios, Despiertos, NEW h \in HILOS, Despertar(h)
    PROVE  TypeOK' /\ Sitios'
<1> DEFINE p == manejador[h].otro
<1>1. manejador[h].paso \in DESPERTANDO
  BY DEF Despertar, SacarDeBlock, Encolar, SacarDeSuspBlock, PonerEnSuspReady, SacarDeSuspReady,
         Desuspender, Haciendo, DESPERTANDO
<1>2. p \in PIDS /\ ~manejador[h].sacado
  BY <1>1, LlamadaDe
<1>3. Prosiguio(h) => /\ Mano(h)' = {} /\ manejador' \in [HILOS -> Atenciones]
                      /\ \A g \in HILOS : g # h => manejador'[g] = manejador[g]
  BY DEF Prosiguio, Va, Mano
<1>4. \A x : Despertando(h, x) =>
             /\ Mano(h)' = IF x \in {"encolar", "a_susp_ready", "desuspender"} THEN {p}
                           ELSE IF x = "a_block" THEN {manejador[h].pid} ELSE {}
             /\ manejador' \in [HILOS -> Atenciones]
             /\ \A g \in HILOS : g # h => manejador'[g] = manejador[g]
  BY DEF Despertando, Va, Mano
<1>5. Mano(h) = IF manejador[h].paso \in {"encolar", "a_susp_ready", "desuspender"} THEN {p}
                ELSE IF manejador[h].paso = "a_block" THEN {manejador[h].pid} ELSE {}
  BY <1>2 DEF Mano
<1>6. CASE SacarDeBlock(h)
  <2>1. /\ manejador[h].paso = "sacar" /\ block' = block \ {p}
        /\ Despertando(h, IF p \in block THEN "encolar" ELSE "de_susp_block")
        /\ UNCHANGED <<cpu, prioridad, cola, sem, planif, susp_block, susp_ready, cola_sleep,
                       lista_mutex, mutex_lista, programa, caida>>
    BY <1>6, SacarDeBlockEfecto
  <2>2. Sitios' /\ TiposSitios'
    <3>1. CASE p \in block
      <4>1. Mano(h) = {} /\ Mano(h)' = {p}
        BY <1>4, <1>5, <2>1, <3>1
      <4>2. \A g \in HILOS : g # h => manejador'[g] = manejador[g]
        BY <1>4, <2>1
      <4> HIDE DEF p
      <4>3. QED
        BY <1>2, <2>1, <3>1, <4>1, <4>2, SitiosDeLista DEF programa
    <3>2. CASE p \notin block
      <4>1. Mano(h)' = Mano(h) /\ block' = block
        BY <1>4, <1>5, <2>1, <3>2
      <4>2. QED
        BY <1>4, <2>1, <4>1, SitiosQuietos DEF programa
    <3>3. QED
      BY <3>1, <3>2
  <2>3. TiposResto'
    BY <1>4, <2>1 DEF TypeOK, TiposResto, programa
  <2>4. QED
    BY <2>2, <2>3, TiposPartes
<1>7. CASE Encolar(h)
  <2>1. /\ manejador[h].paso = "encolar" /\ Prosiguio(h) /\ cola' = Encolada(p, prioridad)
        /\ sem' = [ready |-> sem.ready + 1,
                   cpu |-> IF manejador[h].syscall = "DESALOJO" THEN sem.cpu + 1 ELSE sem.cpu]
        /\ UNCHANGED <<cpu, prioridad, planif, listas, lista_mutex, mutex_lista, programa, caida>>
    BY <1>7, EncolarEfecto
  <2>2. Mano(h) = {p} /\ Mano(h)' = {}
    BY <1>3, <1>5, <2>1
  <2>3. sem' \in [ready : Nat, cpu : Nat]
    BY <2>1, SemMas DEF TypeOK
  <2>4. TiposResto'
    BY <1>3, <2>1, <2>3 DEF TypeOK, TiposResto, listas, programa
  <2> HIDE DEF p
  <2>5. Sitios' /\ TiposSitios'
    BY <1>2, <1>3, <2>1, <2>2, SitiosEncolado DEF listas, programa
  <2>6. QED
    BY <2>4, <2>5, TiposPartes
<1>8. CASE SacarDeSuspBlock(h)
  <2>1. /\ manejador[h].paso = "de_susp_block" /\ p \in susp_block
        /\ susp_block' = susp_block \ {p} /\ Despertando(h, "a_susp_ready")
        /\ UNCHANGED <<cpu, prioridad, cola, sem, planif, block, susp_ready, cola_sleep,
                       lista_mutex, mutex_lista, programa, caida>>
    BY <1>8, SacarDeSuspBlockEfecto
  <2>2. Mano(h) = {} /\ Mano(h)' = {p}
    BY <1>4, <1>5, <2>1
  <2>3. TiposResto'
    BY <1>4, <2>1 DEF TypeOK, TiposResto, programa
  <2> HIDE DEF p
  <2>4. Sitios' /\ TiposSitios'
    BY <1>2, <1>4, <2>1, <2>2, SitiosDeLista DEF programa
  <2>5. QED
    BY <2>3, <2>4, TiposPartes
<1>9. CASE PonerEnSuspReady(h)
  <2>1. /\ manejador[h].paso = "a_susp_ready" /\ susp_ready' = susp_ready \cup {p}
        /\ Despertando(h, "pedir_desuspender") \/ Prosiguio(h)
        /\ UNCHANGED <<cpu, prioridad, cola, sem, planif, block, susp_block, cola_sleep,
                       lista_mutex, mutex_lista, programa, caida>>
    BY <1>9, PonerEnSuspReadyEfecto
  <2>2. Mano(h) = {p} /\ Mano(h)' = {}
    BY <1>3, <1>4, <1>5, <2>1
  <2>3. TiposResto'
    BY <1>3, <1>4, <2>1 DEF TypeOK, TiposResto, programa
  <2>a. \A g \in HILOS : g # h => manejador'[g] = manejador[g]
    BY <1>3, <1>4, <2>1
  <2> HIDE DEF p
  <2>4. Sitios' /\ TiposSitios'
    BY <1>2, <2>a, <2>1, <2>2, SitiosDeLista DEF programa
  <2>5. QED
    BY <2>3, <2>4, TiposPartes
<1>10. CASE SacarDeSuspReady(h)
  <2>1. /\ manejador[h].paso = "pedir_desuspender"
        /\ susp_ready' = susp_ready \ {p} /\ Despertando(h, "desuspender")
        /\ UNCHANGED <<cpu, prioridad, cola, sem, planif, block, susp_block, cola_sleep,
                       lista_mutex, mutex_lista, programa, caida>>
    BY <1>10, SacarDeSuspReadyEfecto
  <2>2. Mano(h) = {} /\ Mano(h)' = {p} /\ p \in susp_ready
    BY <1>4, <1>5, <2>1 DEF Despiertos
  <2>3. TiposResto'
    BY <1>4, <2>1 DEF TypeOK, TiposResto, programa
  <2> HIDE DEF p
  <2>4. Sitios' /\ TiposSitios'
    BY <1>2, <1>4, <2>1, <2>2, SitiosDeLista DEF programa
  <2>5. QED
    BY <2>3, <2>4, TiposPartes
<1>11. CASE Desuspender(h)
  <2>1. /\ manejador[h].paso = "desuspender" /\ Prosiguio(h) /\ cola' = Encolada(p, prioridad)
        /\ sem' = [sem EXCEPT !.ready = @ + 1]
        /\ UNCHANGED <<cpu, prioridad, planif, listas, lista_mutex, mutex_lista, programa, caida>>
    BY <1>11, DesuspenderEfecto
  <2>2. Mano(h) = {p} /\ Mano(h)' = {}
    BY <1>3, <1>5, <2>1
  <2>3. sem' \in [ready : Nat, cpu : Nat]
    BY <2>1, SemMas DEF TypeOK
  <2>4. TiposResto'
    BY <1>3, <2>1, <2>3 DEF TypeOK, TiposResto, listas, programa
  <2> HIDE DEF p
  <2>5. Sitios' /\ TiposSitios'
    BY <1>2, <1>3, <2>1, <2>2, SitiosEncolado DEF listas, programa
  <2>6. QED
    BY <2>4, <2>5, TiposPartes
<1>12. QED
  BY <1>6, <1>7, <1>8, <1>9, <1>10, <1>11 DEF Despertar

\* The timer, a notice of memory, the end of a SLEEP.
LEMMA PasoAjeno ==
    ASSUME TypeOK, Hilos, Sitios, NEW p \in PIDS, Suspender(p) \/ NuevaMemoria(p) \/ FinSleep
    PROVE  TypeOK' /\ Sitios'
<1>1. CASE Suspender(p)
  <2>1. Sitios' /\ TiposSitios'
    BY <1>1, SitiosSuspender
  <2>2. TiposResto'
    BY <1>1 DEF Suspender, TypeOK, TiposResto, programa
  <2>3. QED
    BY <2>1, <2>2, TiposPartes
<1>2. CASE NuevaMemoria(p)
  <2>1. /\ manejador[Escucha] = Libre /\ p \in susp_ready /\ susp_ready' = susp_ready \ {p}
        /\ Va(Escucha, "AVISO", "desuspender", Nadie, p) /\ ~manejador'[Escucha].sacado
        /\ UNCHANGED <<cpu, prioridad, cola, sem, planif, block, susp_block, cola_sleep,
                       lista_mutex, mutex_lista, programa, caida>>
    BY <1>2, NuevaMemoriaEfecto
  <2>2. Mano(Escucha) = {} /\ Mano(Escucha)' = {p} /\ Escucha \in HILOS
    BY <2>1, LosHilos DEF Mano, Va, Libre
  <2>3. Sitios' /\ TiposSitios'
    BY <2>1, <2>2, SitiosDeLista DEF programa, Va
  <2>4. TiposResto'
    BY <2>1 DEF TypeOK, TiposResto, programa, Va
  <2>5. QED
    BY <2>3, <2>4, TiposPartes
<1>3. CASE FinSleep
  <2>1. /\ manejador[Io] = Libre /\ cola_sleep # <<>> /\ cola_sleep' = Tail(cola_sleep)
        /\ Va(Io, "FINALIZAR_SLEEP", "sacar", Nadie, Head(cola_sleep)) /\ ~manejador'[Io].sacado
        /\ UNCHANGED <<cpu, prioridad, cola, sem, planif, block, susp_block, susp_ready,
                       lista_mutex, mutex_lista, programa, caida>>
    BY <1>3, FinSleepEfecto
  <2>2. Mano(Io)' = Mano(Io) /\ Io \in HILOS
    BY <2>1, LosHilos DEF Mano, Va, Libre
  <2>3. Sitios' /\ TiposSitios'
    BY <2>1, <2>2, SitiosQuietos DEF programa, Va
  <2>4. cola_sleep' \in Seq(PIDS)
    BY <2>1 DEF TypeOK
  <2>5. TiposResto'
    BY <2>1, <2>4 DEF TypeOK, TiposResto, programa, Va
  <2>6. QED
    BY <2>3, <2>5, TiposPartes
<1>4. QED
  BY <1>1, <1>2, <1>3

\* The calls on the list of mutexes leave everybody where they are.
LEMMA PasoLlamada ==
    ASSUME TypeOK, Hilos, Cuentas, Sitios, NEW c \in CPUS,
           \/ \E n : LockNoExiste(c, n) \/ UnlockNoExiste(c, n)
           \/ \E n \in MUTEX : \/ Crear(c, n) \/ Lock(c, n)
                               \/ Unlock(c, n) /\ Duenio(cpu[c], n)
    PROVE  TypeOK' /\ Sitios'
<1>0. c \in HILOS
  BY LosHilos DEF CpuHilo
<1>1. ASSUME NEW n, LockNoExiste(c, n) \/ UnlockNoExiste(c, n) PROVE TypeOK' /\ Sitios'
  <2>1. /\ manejador[c] = Libre /\ Va(c, manejador'[c].syscall, "sin_respuesta", Nadie, Nadie)
        /\ ~manejador'[c].sacado /\ UNCHANGED <<cola, Fijos>>
    BY <1>1, NoExisteEfecto
  <2>2. Mano(c)' = Mano(c)
    BY <2>1 DEF Mano, Va, Libre
  <2>3. Sitios' /\ TiposSitios'
    BY <1>0, <2>1, <2>2, SitiosQuietos DEF Va, Fijos, listas, programa
  <2>4. TiposResto'
    BY <2>1 DEF TypeOK, TiposResto, Fijos, listas, programa, Va
  <2>5. QED
    BY <2>3, <2>4, TiposPartes
<1>2. ASSUME NEW n \in MUTEX, Crear(c, n) PROVE TypeOK' /\ Sitios'
  <2>1. /\ lista_mutex' = Append(lista_mutex, Mutex(n))
        /\ UNCHANGED <<cpu, prioridad, cola, sem, planif, listas, mutex_lista, manejador,
                       programa, caida>>
    BY <1>2 DEF Crear
  <2>2. Sitios' /\ TiposSitios'
    BY <2>1, SitiosQuietos DEF listas, programa
  <2>3. Mutex(n) \in Mutexes
    BY DEF Mutex, Mutexes
  <2>4. lista_mutex' \in Seq(Mutexes)
    BY <2>1, <2>3 DEF TypeOK
  <2>5. TiposResto'
    BY <2>1, <2>4 DEF TypeOK, TiposResto, listas, programa
  <2>6. QED
    BY <2>2, <2>5, TiposPartes
<1>3. ASSUME NEW n \in MUTEX, Lock(c, n) PROVE TypeOK' /\ Sitios'
  <2> DEFINE i == Indice(n)
             m == lista_mutex[i]
             p == cpu[c]
  <2>1. /\ manejador[c] = Libre /\ p \in PIDS /\ i \in DOMAIN lista_mutex
        /\ UNCHANGED <<cpu, prioridad, cola, sem, planif, listas, vivos, caida>>
        /\ \/ /\ m.contador >= 1
              /\ lista_mutex' = [lista_mutex EXCEPT ![i] = [m EXCEPT !.contador = @ - 1, !.pid = p]]
              /\ tiene' = [tiene EXCEPT ![p] = @ \cup {n}]
              /\ UNCHANGED <<mutex_lista, manejador, pide>>
           \/ /\ Tomado(m) /\ m.pid \in PIDS
              /\ lista_mutex' = [lista_mutex EXCEPT ![i] =
                           [m EXCEPT !.contador = @ - 1, !.colaEspera = Append(@, p)]]
              /\ mutex_lista' = c /\ pide' = [pide EXCEPT ![p] = n]
              /\ Va(c, "MUTEX_LOCK", "en_exec", p, m.pid) /\ ~manejador'[c].sacado
              /\ UNCHANGED tiene
    BY ZenonT(60), <1>3, LockEfecto
  <2>2. UNCHANGED manejador \/ /\ Mano(c)' = Mano(c)
                               /\ \A g \in HILOS : g # c => manejador'[g] = manejador[g]
    BY <2>1 DEF Mano, Va, Libre
  <2>3. Sitios' /\ TiposSitios'
    BY <1>0, <2>1, <2>2, SitiosQuietos DEF listas
  <2>4. lista_mutex' \in Seq(Mutexes)
    <3> HIDE DEF i, p
    <3> QED BY <2>1, TiposMutex
  <2>5. /\ tiene' \in [PIDS -> SUBSET MUTEX] /\ pide' \in [PIDS -> MUTEX \cup {Nadie}]
        /\ mutex_lista' \in CPUS \cup {Nadie} /\ manejador' \in [HILOS -> Atenciones]
    <3> HIDE DEF i, m, p
    <3>1. tiene' \in [PIDS -> SUBSET MUTEX]
      <4>1. tiene' = [tiene EXCEPT ![p] = @ \cup {n}] \/ UNCHANGED tiene
        BY <2>1
      <4>2. QED
        BY <4>1 DEF TypeOK
    <3>2. pide' \in [PIDS -> MUTEX \cup {Nadie}]
      BY <2>1 DEF TypeOK
    <3>3. mutex_lista' \in CPUS \cup {Nadie} /\ manejador' \in [HILOS -> Atenciones]
      BY <2>1 DEF TypeOK, Va
    <3>4. QED
      BY <3>1, <3>2, <3>3
  <2>6. TiposResto'
    <3> HIDE DEF i, m, p
    <3> QED BY <2>1, <2>4, <2>5 DEF TypeOK, TiposResto, listas
  <2>7. QED
    BY <2>3, <2>6, TiposPartes
<1>4. ASSUME NEW n \in MUTEX, Unlock(c, n), Duenio(cpu[c], n) PROVE TypeOK' /\ Sitios'
  <2> DEFINE i == Indice(n)
             m == lista_mutex[i]
             p == cpu[c]
  <2>1. /\ manejador[c] = Libre /\ p \in PIDS /\ i \in DOMAIN lista_mutex /\ m \in Mutexes
        /\ tiene' = [tiene EXCEPT ![p] = @ \ {n}]
        /\ UNCHANGED <<cpu, cola, sem, planif, listas, mutex_lista, vivos, pide, caida>>
        /\ ~manejador'[c].sacado
        /\ \/ /\ m.colaEspera # <<>> /\ lista_mutex' = [lista_mutex EXCEPT ![i] = Entregado(m)]
              /\ prioridad' = HeredaDeLaCola(m)
              /\ Va(c, "MUTEX_UNLOCK", "sacar", p, Head(m.colaEspera))
           \/ /\ lista_mutex' = [lista_mutex EXCEPT ![i] = [m EXCEPT !.contador = @ + 1]]
              /\ UNCHANGED prioridad
              /\ Va(c, "MUTEX_UNLOCK", "recalcular", p, Nadie)
    BY <1>4, UnlockEfecto
  <2>2. Mano(c)' = Mano(c) /\ \A g \in HILOS : g # c => manejador'[g] = manejador[g]
    BY <2>1 DEF Mano, Va, Libre
  <2>3. Sitios' /\ TiposSitios'
    BY SMTT(30), <1>0, <2>1, <2>2, SitiosQuietos DEF listas
  <2>4. lista_mutex' \in Seq(Mutexes)
    <3> HIDE DEF i, p
    <3> QED BY <2>1, TiposMutex
  <2>5. prioridad' \in [PIDS -> PRIORIDADES]
    <3> HIDE DEF m
    <3> QED BY <2>1, HeredaEs DEF TypeOK
  <2>6. tiene' \in [PIDS -> SUBSET MUTEX]
    BY <2>1 DEF TypeOK
  <2>7. TiposResto'
    BY <2>1, <2>4, <2>5, <2>6 DEF TypeOK, TiposResto, listas, Va
  <2>8. QED
    BY <2>3, <2>7, TiposPartes
<1>5. QED
  BY <1>1, <1>2, <1>3, <1>4

\* The rest of MUTEX_UNLOCK and of EXIT.
LEMMA PasoResto ==
    ASSUME TypeOK, Hilos, Cuentas, Sitios, NEW c \in CPUS,
           \/ Recalcular(c) \/ Reponer(c) \/ EmpezarMuerte(c) \/ LiberarPorMuerte(c) \/ FinMuerte(c)
    PROVE  TypeOK' /\ Sitios'
<1> DEFINE p == manejador[c].pid
<1>0. c \in HILOS
  BY LosHilos DEF CpuHilo
<1>1. CASE Recalcular(c)
  <2>1. /\ manejador[c].paso = "recalcular"
        /\ Va(c, "MUTEX_UNLOCK", "reponer", manejador[c].pid, manejador[c].otro)
        /\ ~manejador'[c].sacado /\ UNCHANGED <<cola, Fijos>>
    BY <1>1, RecalcularEfecto
  <2>2. ~manejador[c].sacado
    BY <1>0, <2>1, LlamadaDe
  <2>3. Mano(c)' = Mano(c)
    BY <2>1, <2>2 DEF Mano, Va
  <2>4. Sitios' /\ TiposSitios'
    BY <1>0, <2>1, <2>3, SitiosQuietos DEF Va, Fijos, listas, programa
  <2>5. TiposResto'
    BY <2>1 DEF TypeOK, TiposResto, Fijos, listas, programa, Va
  <2>6. QED
    BY <2>4, <2>5, TiposPartes
<1>2. CASE Reponer(c)
  <2>1. /\ manejador[c].paso = "reponer"
        /\ Va(c, "ninguna", "recibir", Nadie, Nadie) /\ manejador'[c] = Libre
        /\ prioridad' = [prioridad EXCEPT ![p] = manejador[c].nueva]
        /\ manejador[c].nueva \in PRIORIDADES
        /\ UNCHANGED <<cpu, cola, sem, planif, listas, lista_mutex, mutex_lista, programa, caida>>
    BY <1>2, ReponerEfecto
  <2>2. ~manejador[c].sacado /\ p \in PIDS
    BY <1>0, <2>1, LlamadaDe
  <2>3. Mano(c)' = Mano(c)
    BY <2>1, <2>2 DEF Mano, Va, Libre
  <2>4. Sitios' /\ TiposSitios'
    BY <1>0, <2>1, <2>3, SitiosQuietos DEF Va, listas, programa
  <2> HIDE DEF p
  <2>5. prioridad' \in [PIDS -> PRIORIDADES]
    BY <2>1, <2>2 DEF TypeOK
  <2>6. TiposResto'
    BY <2>1, <2>5 DEF TypeOK, TiposResto, listas, programa, Va
  <2>7. QED
    BY <2>4, <2>6, TiposPartes
<1>3. CASE EmpezarMuerte(c)
  <2>1. /\ manejador[c].paso = "morir" /\ mutex_lista' = c
        /\ Va(c, "EXIT", "muerte", manejador[c].pid, manejador[c].otro)
        /\ ~manejador'[c].sacado
        /\ UNCHANGED <<cpu, prioridad, cola, sem, planif, listas, lista_mutex, programa, caida>>
    BY <1>3, EmpezarMuerteEfecto
  <2>2. ~manejador[c].sacado
    BY <1>0, <2>1, LlamadaDe
  <2>3. Mano(c)' = Mano(c)
    BY <2>1, <2>2 DEF Mano, Va
  <2>4. Sitios' /\ TiposSitios'
    BY <1>0, <2>1, <2>3, SitiosQuietos DEF Va, listas, programa
  <2>5. TiposResto'
    BY <2>1 DEF TypeOK, TiposResto, listas, programa, Va
  <2>6. QED
    BY <2>4, <2>5, TiposPartes
<1>4. CASE LiberarPorMuerte(c)
  <2>1. PICK i \in DOMAIN lista_mutex :
           LET m == lista_mutex[i] IN
           /\ m \in Mutexes /\ ~manejador'[c].sacado
           /\ \/ /\ lista_mutex' = [lista_mutex EXCEPT ![i] =
                          [m EXCEPT !.contador = @ + 1, !.pid = Nadie]]
                 /\ Va(c, "EXIT", "muerte", manejador[c].pid, manejador[c].otro)
                 /\ UNCHANGED prioridad
              \/ /\ m.colaEspera # <<>>
                 /\ lista_mutex' = [lista_mutex EXCEPT ![i] = Entregado(m)]
                 /\ Va(c, "EXIT", "sacar", manejador[c].pid, Head(m.colaEspera))
                 /\ prioridad' = HeredaDeLaCola(m)
    BY <1>4, LiberarPorMuerteEfecto
  <2>2. /\ manejador[c].paso = "muerte"
        /\ UNCHANGED <<cpu, cola, sem, planif, listas, mutex_lista, programa, caida>>
    BY <1>4, LiberarPorMuerteEfecto
  <2>3. ~manejador[c].sacado /\ p \in PIDS
    BY <1>0, <2>2, LlamadaDe
  <2>4. Mano(c)' = Mano(c) /\ \A g \in HILOS : g # c => manejador'[g] = manejador[g]
    BY <2>1, <2>2, <2>3 DEF Mano, Va
  <2>5. Sitios' /\ TiposSitios'
    BY SMTT(30), <1>0, <2>2, <2>4, SitiosQuietos DEF listas, programa
  <2> HIDE DEF p
  <2>6. lista_mutex' \in Seq(Mutexes)
    BY <2>1, <2>3, TiposMutex
  <2>7. prioridad' \in [PIDS -> PRIORIDADES]
    BY <2>1, HeredaEs DEF TypeOK
  <2>8. TiposResto'
    BY <2>1, <2>2, <2>6, <2>7 DEF TypeOK, TiposResto, listas, programa, Va
  <2>9. QED
    BY SMTT(30), <2>5, <2>8, TiposPartes
<1>5. CASE FinMuerte(c)
  <2>1. /\ manejador[c].paso = "muerte" /\ mutex_lista' = Nadie
        /\ Va(c, "ninguna", "recibir", Nadie, Nadie) /\ manejador'[c] = Libre
        /\ sem' = [sem EXCEPT !.cpu = @ + 1]
        /\ UNCHANGED <<cpu, prioridad, cola, planif, listas, lista_mutex, programa, caida>>
    BY <1>5, FinMuerteEfecto
  <2>2. ~manejador[c].sacado
    BY <1>0, <2>1, LlamadaDe
  <2>3. Mano(c)' = Mano(c)
    BY <2>1, <2>2 DEF Mano, Va, Libre
  <2>4. Sitios' /\ TiposSitios'
    BY <1>0, <2>1, <2>3, SitiosQuietos DEF Va, listas, programa
  <2>5. sem' \in [ready : Nat, cpu : Nat]
    BY <2>1, SemMas DEF TypeOK
  <2>6. TiposResto'
    BY <2>1, <2>5 DEF TypeOK, TiposResto, listas, programa, Va
  <2>7. QED
    BY <2>4, <2>6, TiposPartes
<1>6. QED
  BY <1>1, <1>2, <1>3, <1>4, <1>5

-----------------------------------------------------------------------------
(* The ways the list of mutexes changes.                                     *)

\* Only the mutex i is written, and keeps its name.
Cambia(i) ==
    /\ i \in DOMAIN lista_mutex /\ DOMAIN lista_mutex' = DOMAIN lista_mutex
    /\ \A j \in DOMAIN lista_mutex : j # i => lista_mutex'[j] = lista_mutex[j]
    /\ lista_mutex'[i].nombre = lista_mutex[i].nombre

\* A free mutex is taken by p.
Toma(i, p) ==
    /\ Cambia(i) /\ ~Tomado(lista_mutex[i]) /\ lista_mutex[i].colaEspera = <<>>
    /\ Tomado(lista_mutex'[i]) /\ lista_mutex'[i].pid = p /\ lista_mutex'[i].colaEspera = <<>>

\* p joins the queue of one that is taken.
Une(i, p) ==
    /\ Cambia(i) /\ Tomado(lista_mutex[i]) /\ Tomado(lista_mutex'[i])
    /\ lista_mutex'[i].pid = lista_mutex[i].pid
    /\ lista_mutex'[i].colaEspera = Append(lista_mutex[i].colaEspera, p)

\* It goes from its owner to the first of its queue.
Entrega(i) ==
    /\ Cambia(i) /\ Tomado(lista_mutex[i]) /\ Tomado(lista_mutex'[i])
    /\ lista_mutex[i].colaEspera # <<>>
    /\ lista_mutex'[i].pid = Head(lista_mutex[i].colaEspera)
    /\ lista_mutex'[i].colaEspera = Tail(lista_mutex[i].colaEspera)

\* It is left free.
Suelta(i) ==
    /\ Cambia(i) /\ Tomado(lista_mutex[i]) /\ ~Tomado(lista_mutex'[i])
    /\ lista_mutex[i].colaEspera = <<>> /\ lista_mutex'[i].colaEspera = <<>>

\* One more mutex, free.
Agrega(n) ==
    /\ DOMAIN lista_mutex \subseteq DOMAIN lista_mutex'
    /\ \A j \in DOMAIN lista_mutex : lista_mutex'[j] = lista_mutex[j] /\ lista_mutex[j].nombre # n
    /\ \A j \in DOMAIN lista_mutex' \ DOMAIN lista_mutex :
           /\ lista_mutex'[j] = Mutex(n)
           /\ \A k \in DOMAIN lista_mutex : k < j
           /\ \A k \in DOMAIN lista_mutex' \ DOMAIN lista_mutex : k = j

\* What Cuentas says of each.
Cuenta(m) ==
    /\ m.contador = IF Tomado(m) THEN 0 - Len(m.colaEspera) ELSE 1
    /\ ~Tomado(m) => m.colaEspera = <<>>
    /\ Tomado(m) => m.pid \in PIDS

\* Cuentas speaks of each mutex, and of each two.
LEMMA CuentasPartes ==
    Cuentas <=> /\ \A i \in DOMAIN lista_mutex : Cuenta(lista_mutex[i])
                /\ \A i, j \in DOMAIN lista_mutex :
                      lista_mutex[i].nombre = lista_mutex[j].nombre => i = j
BY DEF Cuentas, Cuenta

\* Writing one mutex well keeps Cuentas.
LEMMA CuentasCambia ==
    ASSUME Cuentas, NEW i, Cambia(i), Cuenta(lista_mutex'[i])
    PROVE  Cuentas'
<1>1. \A j \in DOMAIN lista_mutex' : lista_mutex'[j].nombre = lista_mutex[j].nombre
  BY DEF Cambia
<1>2. \A j \in DOMAIN lista_mutex' : Cuenta(lista_mutex'[j])
  BY CuentasPartes DEF Cambia
<1>3. \A k, j \in DOMAIN lista_mutex' : lista_mutex'[k].nombre = lista_mutex'[j].nombre => k = j
  BY <1>1, CuentasPartes DEF Cambia
<1>4. QED
  BY <1>2, <1>3 DEF Cuentas, Cuenta

\* lista_mutex as MUTEX_LOCK leaves it when the mutex was free.
LEMMA SeToma ==
    ASSUME TypeOK, Cuentas, NEW i \in DOMAIN lista_mutex, NEW p \in PIDS,
           lista_mutex[i].contador >= 1,
           lista_mutex' = [lista_mutex EXCEPT ![i] =
                [lista_mutex[i] EXCEPT !.contador = @ - 1, !.pid = p]]
    PROVE  Toma(i, p) /\ Cuentas'
<1> DEFINE m == lista_mutex[i]
           k == m.contador - 1
           n == [m EXCEPT !.contador = k, !.pid = p]
<1>1. lista_mutex \in Seq(Mutexes) /\ m \in Mutexes /\ Cuenta(m)
  BY CuentasPartes DEF TypeOK
<1>2. m.contador = 1 /\ ~Tomado(m) /\ m.colaEspera = <<>> /\ k = 0
  BY <1>1 DEF Cuenta, Tomado, Mutexes
<1> HIDE DEF k
<1>3. lista_mutex' = [lista_mutex EXCEPT ![i] = n]
  BY <1>1 DEF k, Mutexes
<1> HIDE DEF m
<1>4. n \in Mutexes /\ n.pid = p /\ n.contador = 0 /\ n.colaEspera = <<>> /\ n.nombre = m.nombre
  <2>1. k \in Int
    BY <1>2
  <2>2. /\ n \in Mutexes /\ n.pid = p /\ n.contador = k /\ n.colaEspera = m.colaEspera
        /\ n.nombre = m.nombre
    BY <1>1, <2>1 DEF Mutexes
  <2> HIDE DEF n
  <2>3. QED
    BY <1>2, <2>2 DEF m
<1> HIDE DEF n
<1>5. /\ DOMAIN lista_mutex' = DOMAIN lista_mutex /\ lista_mutex'[i] = n
      /\ \A j \in DOMAIN lista_mutex : j # i => lista_mutex'[j] = lista_mutex[j]
  BY <1>1, <1>3, <1>4, CambiaMutex
<1>6. Toma(i, p) /\ Cuenta(lista_mutex'[i])
  BY <1>2, <1>4, <1>5 DEF Toma, Cambia, Cuenta, Tomado, m
<1>7. QED
  BY <1>6, CuentasCambia DEF Toma

\* lista_mutex as MUTEX_LOCK leaves it when it was not.
LEMMA SeUne ==
    ASSUME TypeOK, Cuentas, NEW i \in DOMAIN lista_mutex, NEW p \in PIDS,
           Tomado(lista_mutex[i]),
           lista_mutex' = [lista_mutex EXCEPT ![i] =
                [lista_mutex[i] EXCEPT !.contador = @ - 1, !.colaEspera = Append(@, p)]]
    PROVE  Une(i, p) /\ Cuentas'
<1> DEFINE m == lista_mutex[i]
           k == m.contador - 1
           s == Append(m.colaEspera, p)
           n == [m EXCEPT !.contador = k, !.colaEspera = s]
<1>1. lista_mutex \in Seq(Mutexes) /\ m \in Mutexes /\ Cuenta(m)
  BY CuentasPartes DEF TypeOK
<1>2. /\ m.contador = 0 - Len(m.colaEspera) /\ m.colaEspera \in Seq(PIDS) /\ m.pid \in PIDS
      /\ s \in Seq(PIDS) /\ Len(s) = Len(m.colaEspera) + 1 /\ Len(m.colaEspera) \in Nat
  BY <1>1 DEF Cuenta, Mutexes
<1>3. k = 0 - Len(s) /\ k \in Int /\ k < 1
  BY <1>2
<1>4. lista_mutex' = [lista_mutex EXCEPT ![i] = n]
  BY <1>1 DEF Mutexes
<1> HIDE DEF k, s
<1> HIDE DEF m
<1>5. n \in Mutexes /\ n.pid = m.pid /\ n.contador = k /\ n.colaEspera = s /\ n.nombre = m.nombre
  BY <1>1, <1>2, <1>3 DEF Mutexes
<1> HIDE DEF n
<1>6. /\ DOMAIN lista_mutex' = DOMAIN lista_mutex /\ lista_mutex'[i] = n
      /\ \A j \in DOMAIN lista_mutex : j # i => lista_mutex'[j] = lista_mutex[j]
  BY <1>1, <1>4, <1>5, CambiaMutex
<1>7. Cambia(i)
  BY <1>5, <1>6 DEF Cambia, m
<1>8. Tomado(lista_mutex'[i]) /\ Cuenta(lista_mutex'[i])
  BY <1>2, <1>3, <1>5, <1>6 DEF Cuenta, Tomado
<1>9. Une(i, p)
  BY <1>5, <1>6, <1>7, <1>8 DEF Une, m, s
<1>10. QED
  BY <1>7, <1>8, <1>9, CuentasCambia

\* lista_mutex as MUTEX_UNLOCK, or the death of the owner, leaves it with somebody in the queue.
LEMMA SeEntrega ==
    ASSUME TypeOK, Cuentas, NEW i \in DOMAIN lista_mutex,
           Tomado(lista_mutex[i]), lista_mutex[i].colaEspera # <<>>,
           lista_mutex' = [lista_mutex EXCEPT ![i] = Entregado(lista_mutex[i])]
    PROVE  Entrega(i) /\ Cuentas'
<1> DEFINE m == lista_mutex[i]
           n == Entregado(m)
<1>1. lista_mutex \in Seq(Mutexes) /\ m \in Mutexes /\ Cuenta(m)
  BY CuentasPartes DEF TypeOK
<1> HIDE DEF m
<1>2. /\ n \in Mutexes
      /\ n.nombre = m.nombre /\ n.contador = m.contador + 1
      /\ n.pid = Head(m.colaEspera)
      /\ n.colaEspera = Tail(m.colaEspera)
      /\ Head(m.colaEspera) \in PIDS
      /\ Len(Tail(m.colaEspera)) = Len(m.colaEspera) - 1 /\ Len(m.colaEspera) \in Nat
  BY <1>1, EntregadoEs DEF m
<1>3. m.contador = 0 - Len(m.colaEspera) /\ Len(Tail(m.colaEspera)) \in Nat
  BY <1>1 DEF Cuenta, m, Mutexes
<1> HIDE DEF n
<1>4. n.contador = 0 - Len(n.colaEspera) /\ n.contador < 1
  BY <1>2, <1>3
<1>5. /\ DOMAIN lista_mutex' = DOMAIN lista_mutex /\ lista_mutex'[i] = n
      /\ \A j \in DOMAIN lista_mutex : j # i => lista_mutex'[j] = lista_mutex[j]
  BY <1>1, <1>2, CambiaMutex DEF m, n
<1>6. Cambia(i)
  BY <1>2, <1>5 DEF Cambia, m
<1>7. Tomado(lista_mutex'[i]) /\ Cuenta(lista_mutex'[i])
  BY <1>2, <1>4, <1>5 DEF Cuenta, Tomado
<1>8. Entrega(i)
  BY <1>2, <1>5, <1>6, <1>7 DEF Entrega, m
<1>9. QED
  BY <1>6, <1>7, <1>8, CuentasCambia

\* lista_mutex as they leave it with nobody.
LEMMA SeSuelta ==
    ASSUME TypeOK, Cuentas, NEW i \in DOMAIN lista_mutex,
           Tomado(lista_mutex[i]), lista_mutex[i].colaEspera = <<>>,
           \/ lista_mutex' = [lista_mutex EXCEPT ![i] = [lista_mutex[i] EXCEPT !.contador = @ + 1]]
           \/ lista_mutex' = [lista_mutex EXCEPT ![i] =
                                [lista_mutex[i] EXCEPT !.contador = @ + 1, !.pid = Nadie]]
    PROVE  Suelta(i) /\ Cuentas'
<1> DEFINE m == lista_mutex[i]
           k == m.contador + 1
           n1 == [m EXCEPT !.contador = k]
           n2 == [m EXCEPT !.contador = k, !.pid = Nadie]
<1>1. lista_mutex \in Seq(Mutexes) /\ m \in Mutexes /\ Cuenta(m)
  BY CuentasPartes DEF TypeOK
<1>2. k = 1
  BY <1>1 DEF Cuenta
<1>3. \/ lista_mutex' = [lista_mutex EXCEPT ![i] = n1]
      \/ lista_mutex' = [lista_mutex EXCEPT ![i] = n2]
  BY <1>1 DEF Mutexes
<1> HIDE DEF m, k
<1>4. \A n \in {n1, n2} : n \in Mutexes /\ n.contador = 1 /\ n.colaEspera = <<>> /\ n.nombre = m.nombre
  <2>1. k \in Int
    BY <1>2
  <2>2. /\ n1 \in Mutexes /\ n1.contador = k /\ n1.colaEspera = m.colaEspera
        /\ n1.nombre = m.nombre
    BY <1>1, <2>1 DEF Mutexes
  <2>3. /\ n2 \in Mutexes /\ n2.contador = k /\ n2.colaEspera = m.colaEspera
        /\ n2.nombre = m.nombre
    BY <1>1, <2>1 DEF Mutexes
  <2>4. m.colaEspera = <<>>
    BY DEF m
  <2> HIDE DEF n1, n2
  <2>5. QED
    BY <1>2, <2>2, <2>3, <2>4
<1> HIDE DEF n1, n2
<1>5. PICK n \in {n1, n2} : lista_mutex' = [lista_mutex EXCEPT ![i] = n]
  BY <1>3
<1>6. /\ DOMAIN lista_mutex' = DOMAIN lista_mutex /\ lista_mutex'[i] = n
      /\ \A j \in DOMAIN lista_mutex : j # i => lista_mutex'[j] = lista_mutex[j]
  BY <1>1, <1>4, <1>5, CambiaMutex
<1>7. Cambia(i)
  BY <1>4, <1>6 DEF Cambia, m
<1>8. ~Tomado(lista_mutex'[i]) /\ Cuenta(lista_mutex'[i]) /\ lista_mutex'[i].colaEspera = <<>>
  BY <1>4, <1>6 DEF Cuenta, Tomado
<1>9. Suelta(i)
  BY <1>7, <1>8 DEF Suelta
<1>10. QED
  BY <1>7, <1>8, <1>9, CuentasCambia

\* lista_mutex as MUTEX_CREATE leaves it.
LEMMA SeAgrega ==
    ASSUME TypeOK, Cuentas, NEW n \in MUTEX, ~Creado(n),
           lista_mutex' = Append(lista_mutex, Mutex(n))
    PROVE  Agrega(n) /\ Cuentas'
<1>1. lista_mutex \in Seq(Mutexes) /\ Mutex(n) \in Mutexes
  BY DEF TypeOK, Mutex, Mutexes
<1>2. /\ DOMAIN lista_mutex = 1 .. Len(lista_mutex) /\ Len(lista_mutex) \in Nat
      /\ DOMAIN lista_mutex' = 1 .. (Len(lista_mutex) + 1)
      /\ \A j \in DOMAIN lista_mutex : lista_mutex'[j] = lista_mutex[j]
      /\ lista_mutex'[Len(lista_mutex) + 1] = Mutex(n)
  BY <1>1
<1>3. \A j \in DOMAIN lista_mutex' \ DOMAIN lista_mutex : j = Len(lista_mutex) + 1
  BY <1>2
<1>4. \A k \in DOMAIN lista_mutex : k < Len(lista_mutex) + 1
  BY <1>2
<1>5. DOMAIN lista_mutex \subseteq DOMAIN lista_mutex'
  BY <1>2
<1>6. Agrega(n)
  BY <1>2, <1>3, <1>4, <1>5 DEF Agrega, Creado
<1>7. Cuenta(Mutex(n)) /\ Mutex(n).nombre = n
  BY DEF Cuenta, Mutex, Tomado
<1>8. \A j \in DOMAIN lista_mutex' : Cuenta(lista_mutex'[j])
  BY <1>6, <1>7, CuentasPartes DEF Agrega
<1>9. \A k, j \in DOMAIN lista_mutex' : lista_mutex'[k].nombre = lista_mutex'[j].nombre => k = j
  BY <1>6, <1>7, CuentasPartes DEF Agrega
<1>10. QED
  BY <1>6, <1>8, <1>9 DEF Cuentas, Cuenta

\* The calls that write the list of mutexes.
LEMMA CrearPaso ==
    ASSUME TypeOK, Cuentas, NEW c \in CPUS, NEW n \in MUTEX, Crear(c, n)
    PROVE  /\ Agrega(n) /\ Cuentas' /\ mutex_lista = Nadie
           /\ UNCHANGED <<cpu, prioridad, cola, sem, planif, listas, mutex_lista, manejador,
                          programa, caida>>
BY SeAgrega DEF Crear

\* MUTEX_LOCK, said of the list of mutexes and of what the handler goes on with.
LEMMA LockPaso ==
    ASSUME TypeOK, Hilos, Cuentas, NEW c \in CPUS, NEW n \in MUTEX, Lock(c, n)
    PROVE  LET i == Indice(n)
           IN  /\ manejador[c] = Libre /\ cpu[c] \in PIDS /\ mutex_lista = Nadie /\ Cuentas'
               /\ lista_mutex[i].nombre = n /\ n \notin tiene[cpu[c]]
               /\ UNCHANGED <<cpu, prioridad, cola, sem, planif, listas, vivos, caida>>
               /\ \/ /\ Toma(i, cpu[c])
                     /\ tiene' = [tiene EXCEPT ![cpu[c]] = @ \cup {n}]
                     /\ UNCHANGED <<mutex_lista, manejador, pide>>
                  \/ /\ Une(i, cpu[c]) /\ mutex_lista' = c
                     /\ pide' = [pide EXCEPT ![cpu[c]] = n]
                     /\ lista_mutex[i].pid \in PIDS
                     /\ Va(c, "MUTEX_LOCK", "en_exec", cpu[c], lista_mutex[i].pid)
                     /\ ~manejador'[c].sacado
                     /\ UNCHANGED tiene
<1> DEFINE i == Indice(n)
           p == cpu[c]
<1>1. LET m == lista_mutex[i]
      IN  /\ manejador[c] = Libre /\ p \in PIDS /\ mutex_lista = Nadie
          /\ i \in DOMAIN lista_mutex /\ m \in Mutexes /\ m.nombre = n
          /\ n \notin tiene[p]
          /\ UNCHANGED <<cpu, prioridad, cola, sem, planif, listas, vivos, caida>>
          /\ \/ /\ m.contador >= 1
                /\ lista_mutex' = [lista_mutex EXCEPT ![i] =
                        [m EXCEPT !.contador = @ - 1, !.pid = p]]
                /\ tiene' = [tiene EXCEPT ![p] = @ \cup {n}]
                /\ UNCHANGED <<mutex_lista, manejador, pide>>
             \/ /\ Tomado(m) /\ m.pid \in PIDS
                /\ lista_mutex' = [lista_mutex EXCEPT ![i] =
                        [m EXCEPT !.contador = @ - 1, !.colaEspera = Append(@, p)]]
                /\ mutex_lista' = c
                /\ pide' = [pide EXCEPT ![p] = n]
                /\ Va(c, "MUTEX_LOCK", "en_exec", p, m.pid)
                /\ ~manejador'[c].sacado
                /\ UNCHANGED tiene
  BY LockEfecto, Zenon
<1> HIDE DEF i, p
<1>2. CASE /\ lista_mutex[i].contador >= 1
           /\ lista_mutex' = [lista_mutex EXCEPT ![i] =
                   [lista_mutex[i] EXCEPT !.contador = @ - 1, !.pid = p]]
           /\ tiene' = [tiene EXCEPT ![p] = @ \cup {n}]
           /\ UNCHANGED <<mutex_lista, manejador, pide>>
  <2>1. Toma(i, p) /\ Cuentas'
    BY <1>1, <1>2, SeToma
  <2>2. QED
    BY <1>1, <1>2, <2>1 DEF i, p
<1>3. CASE /\ Tomado(lista_mutex[i]) /\ lista_mutex[i].pid \in PIDS
           /\ lista_mutex' = [lista_mutex EXCEPT ![i] =
                   [lista_mutex[i] EXCEPT !.contador = @ - 1, !.colaEspera = Append(@, p)]]
           /\ mutex_lista' = c
           /\ pide' = [pide EXCEPT ![p] = n]
           /\ Va(c, "MUTEX_LOCK", "en_exec", p, lista_mutex[i].pid)
           /\ ~manejador'[c].sacado
           /\ UNCHANGED tiene
  <2>1. Une(i, p) /\ Cuentas'
    BY <1>1, <1>3, SeUne
  <2>2. QED
    BY <1>1, <1>3, <2>1 DEF i, p
<1>4. QED
  BY <1>1, <1>2, <1>3, Zenon

\* Only an owner unlocks.
LEMMA UnlockSuyo ==
    ASSUME TypeOK, Tienen, NEW c \in CPUS, NEW n \in MUTEX, Unlock(c, n)
    PROVE  Duenio(cpu[c], n)
<1>1. cpu[c] # Nadie /\ n \in tiene[cpu[c]]
  BY DEF Unlock, Llama
<1>2. QED
  BY <1>1 DEF TypeOK, Tienen

\* MUTEX_UNLOCK, likewise: the mutex was its own.
LEMMA UnlockPaso ==
    ASSUME TypeOK, Hilos, Cuentas, Tienen, NEW c \in CPUS, NEW n \in MUTEX, Unlock(c, n)
    PROVE  LET i == Indice(n)
               m == lista_mutex[i]
           IN  /\ manejador[c] = Libre /\ cpu[c] \in PIDS /\ mutex_lista = Nadie /\ Cuentas'
               /\ m.nombre = n /\ m \in Mutexes /\ n \in tiene[cpu[c]] /\ m.pid = cpu[c]
               /\ tiene' = [tiene EXCEPT ![cpu[c]] = @ \ {n}]
               /\ UNCHANGED <<cpu, cola, sem, planif, listas, mutex_lista, vivos, pide, caida>>
               /\ ~manejador'[c].sacado
               /\ \/ /\ Entrega(i) /\ prioridad' = HeredaDeLaCola(m)
                     /\ Va(c, "MUTEX_UNLOCK", "sacar", cpu[c], Head(m.colaEspera))
                  \/ /\ Suelta(i) /\ UNCHANGED prioridad
                     /\ Va(c, "MUTEX_UNLOCK", "recalcular", cpu[c], Nadie)
<1> DEFINE i == Indice(n)
           p == cpu[c]
<1>1. LET m == lista_mutex[i]
      IN  /\ manejador[c] = Libre /\ p \in PIDS /\ mutex_lista = Nadie
          /\ i \in DOMAIN lista_mutex /\ m \in Mutexes /\ m.nombre = n
          /\ n \in tiene[p] /\ Tomado(m) /\ m.pid = p
          /\ m.contador = 0 - Len(m.colaEspera)
          /\ tiene' = [tiene EXCEPT ![p] = @ \ {n}]
          /\ UNCHANGED <<cpu, cola, sem, planif, listas, mutex_lista, vivos, pide, caida>>
          /\ ~manejador'[c].sacado
          /\ \/ /\ m.colaEspera # <<>>
                /\ lista_mutex' = [lista_mutex EXCEPT ![i] = Entregado(m)]
                /\ prioridad' = HeredaDeLaCola(m)
                /\ Va(c, "MUTEX_UNLOCK", "sacar", p, Head(m.colaEspera))
             \/ /\ m.colaEspera = <<>>
                /\ lista_mutex' = [lista_mutex EXCEPT ![i] = [m EXCEPT !.contador = @ + 1]]
                /\ UNCHANGED prioridad
                /\ Va(c, "MUTEX_UNLOCK", "recalcular", p, Nadie)
  BY UnlockSuyo, UnlockEfecto, Zenon
<1> HIDE DEF i, p
<1>2. CASE /\ lista_mutex[i].colaEspera # <<>>
           /\ lista_mutex' = [lista_mutex EXCEPT ![i] = Entregado(lista_mutex[i])]
           /\ prioridad' = HeredaDeLaCola(lista_mutex[i])
           /\ Va(c, "MUTEX_UNLOCK", "sacar", p, Head(lista_mutex[i].colaEspera))
  <2>1. Entrega(i) /\ Cuentas'
    BY <1>1, <1>2, SeEntrega
  <2>2. QED
    BY <1>1, <1>2, <2>1 DEF i, p
<1>3. CASE /\ lista_mutex[i].colaEspera = <<>>
           /\ lista_mutex' = [lista_mutex EXCEPT ![i] = [lista_mutex[i] EXCEPT !.contador = @ + 1]]
           /\ UNCHANGED prioridad
           /\ Va(c, "MUTEX_UNLOCK", "recalcular", p, Nadie)
  <2>1. Suelta(i) /\ Cuentas'
    BY <1>1, <1>3, SeSuelta
  <2>2. QED
    BY <1>1, <1>3, <2>1 DEF i, p
<1>4. QED
  BY <1>1, <1>2, <1>3, Zenon

\* What liberar_de_mutex_por_muerte does to the mutex i, and leaves for later.
Libera(c, i) ==
    LET m == lista_mutex[i] IN
    /\ i \in DOMAIN lista_mutex /\ m \in Mutexes /\ i >= manejador[c].i /\ i \in Nat
    /\ m.pid = manejador[c].pid
    /\ \A j \in DOMAIN lista_mutex :
          j >= manejador[c].i /\ j < i /\ Tomado(lista_mutex[j]) =>
             lista_mutex[j].pid # manejador[c].pid
    /\ manejador'[c].i = i + 1 /\ ~manejador'[c].sacado
    /\ \/ /\ Suelta(i) /\ UNCHANGED prioridad
          /\ Va(c, "EXIT", "muerte", manejador[c].pid, manejador[c].otro)
       \/ /\ Entrega(i) /\ prioridad' = HeredaDeLaCola(m)
          /\ Va(c, "EXIT", "sacar", manejador[c].pid, Head(m.colaEspera))

\* EXIT frees the mutexes of the dead process one by one.
LEMMA MuertePaso ==
    ASSUME TypeOK, Hilos, Cuentas, NEW c \in CPUS, LiberarPorMuerte(c)
    PROVE  /\ manejador[c].paso = "muerte" /\ manejador[c].i \in Nat /\ Cuentas'
           /\ \E i \in DOMAIN lista_mutex : Libera(c, i)
           /\ UNCHANGED <<cpu, cola, sem, planif, listas, mutex_lista, programa, caida>>
<1>1. PICK i \in DOMAIN lista_mutex :
         LET m == lista_mutex[i] IN
         /\ m \in Mutexes /\ i >= manejador[c].i /\ i \in Nat
         /\ m.pid = manejador[c].pid /\ Tomado(m)
         /\ m.contador = 0 - Len(m.colaEspera)
         /\ \A j \in DOMAIN lista_mutex :
               j >= manejador[c].i /\ j < i /\ Tomado(lista_mutex[j]) =>
                  lista_mutex[j].pid # manejador[c].pid
         /\ manejador'[c].i = i + 1 /\ ~manejador'[c].sacado
         /\ \/ /\ m.colaEspera = <<>>
               /\ lista_mutex' = [lista_mutex EXCEPT ![i] =
                       [m EXCEPT !.contador = @ + 1, !.pid = Nadie]]
               /\ Va(c, "EXIT", "muerte", manejador[c].pid, manejador[c].otro)
               /\ UNCHANGED prioridad
            \/ /\ m.colaEspera # <<>>
               /\ lista_mutex' = [lista_mutex EXCEPT ![i] = Entregado(m)]
               /\ Va(c, "EXIT", "sacar", manejador[c].pid, Head(m.colaEspera))
               /\ prioridad' = HeredaDeLaCola(m)
  BY LiberarPorMuerteEfecto, Zenon
<1>2. /\ manejador[c].paso = "muerte" /\ manejador[c].i \in Nat
      /\ UNCHANGED <<cpu, cola, sem, planif, listas, mutex_lista, programa, caida>>
  BY LiberarPorMuerteEfecto
<1>3. CASE /\ lista_mutex[i].colaEspera = <<>>
           /\ lista_mutex' = [lista_mutex EXCEPT ![i] =
                   [lista_mutex[i] EXCEPT !.contador = @ + 1, !.pid = Nadie]]
           /\ Va(c, "EXIT", "muerte", manejador[c].pid, manejador[c].otro)
           /\ UNCHANGED prioridad
  <2>1. Suelta(i) /\ Cuentas'
    BY <1>1, <1>3, SeSuelta
  <2>2. Libera(c, i)
    BY <1>1, <1>3, <2>1 DEF Libera
  <2>3. QED
    BY <1>2, <2>1, <2>2
<1>4. CASE /\ lista_mutex[i].colaEspera # <<>>
           /\ lista_mutex' = [lista_mutex EXCEPT ![i] = Entregado(lista_mutex[i])]
           /\ Va(c, "EXIT", "sacar", manejador[c].pid, Head(lista_mutex[i].colaEspera))
           /\ prioridad' = HeredaDeLaCola(lista_mutex[i])
  <2>1. Entrega(i) /\ Cuentas'
    BY <1>1, <1>4, SeEntrega
  <2>2. Libera(c, i)
    BY <1>1, <1>4, <2>1 DEF Libera
  <2>3. QED
    BY <1>2, <2>1, <2>2
<1>5. QED
  BY <1>1, <1>3, <1>4, Zenon

-----------------------------------------------------------------------------
(* The steps that write neither the list of mutexes nor the programs.       *)

\* What such a step leaves to those who wait and to the calls being served.
Sosiego ==
    /\ UNCHANGED <<lista_mutex, programa>>
    /\ \A p \in block \cup susp_block : p \in block' \cup susp_block' \/ p \notin EnEspera
    /\ \A c \in CPUS : cpu'[c] \in {cpu[c], Nadie}
    /\ \A c \in CPUS : manejador[c].syscall = "MUTEX_LOCK" /\ manejador[c].pid \in PIDS =>
          \/ manejador'[c].syscall = "MUTEX_LOCK" /\ manejador'[c].pid = manejador[c].pid
          \/ manejador[c].pid \in block' /\ cpu[c] # manejador[c].pid
    /\ \A c \in CPUS : manejador'[c].syscall = "SLEEP" => pide[manejador'[c].pid] = Nadie
    /\ \A c \in CPUS : manejador[c].syscall = "EXIT" =>
          \/ manejador'[c].syscall = "EXIT" /\ manejador'[c].pid = manejador[c].pid
          \/ \A j \in DOMAIN lista_mutex :
                Tomado(lista_mutex[j]) => lista_mutex[j].pid # manejador[c].pid
    /\ \A c \in CPUS : manejador'[c].syscall = "EXIT" /\ manejador'[c].paso # "morir" =>
          \/ manejador'[c].i = 1
          \/ /\ manejador[c].syscall = "EXIT" /\ manejador[c].paso # "morir"
             /\ manejador'[c].i = manejador[c].i /\ manejador'[c].pid = manejador[c].pid

\* Only the thread that moves has to be looked at.
LEMMA SosiegoDe ==
    ASSUME Espera, NEW h \in HILOS,
           \A g \in HILOS : g # h => manejador'[g] = manejador[g],
           UNCHANGED <<lista_mutex, programa>>,
           \A p \in block \cup susp_block : p \in block' \cup susp_block' \/ p \notin EnEspera,
           \A c \in CPUS : cpu'[c] \in {cpu[c], Nadie},
           h \in CPUS =>
               /\ manejador[h].syscall = "MUTEX_LOCK" /\ manejador[h].pid \in PIDS =>
                     \/ manejador'[h].syscall = "MUTEX_LOCK" /\ manejador'[h].pid = manejador[h].pid
                     \/ manejador[h].pid \in block' /\ cpu[h] # manejador[h].pid
               /\ manejador'[h].syscall = "SLEEP" => pide[manejador'[h].pid] = Nadie
               /\ manejador[h].syscall = "EXIT" =>
                     \/ manejador'[h].syscall = "EXIT" /\ manejador'[h].pid = manejador[h].pid
                     \/ \A j \in DOMAIN lista_mutex :
                           Tomado(lista_mutex[j]) => lista_mutex[j].pid # manejador[h].pid
               /\ manejador'[h].syscall = "EXIT" /\ manejador'[h].paso # "morir" =>
                     \/ manejador'[h].i = 1
                     \/ /\ manejador[h].syscall = "EXIT" /\ manejador[h].paso # "morir"
                        /\ manejador'[h].i = manejador[h].i /\ manejador'[h].pid = manejador[h].pid
    PROVE  Sosiego
<1>1. \A c \in CPUS : c \in HILOS
  BY DEF HILOS
<1>2. \A c \in CPUS : manejador[c].syscall = "SLEEP" => pide[manejador[c].pid] = Nadie
  BY DEF Espera
<1>3. QED
  BY <1>1, <1>2 DEF Sosiego

\* The owner of a mutex is looked for, and inherits.
LEMMA SosiegoBuscar ==
    ASSUME TypeOK, Hilos, Heredero, Espera, NEW c \in CPUS,
           \/ BuscarEnExec(c) \/ BuscarEnReady(c) \/ BuscarEnBlock(c) \/ BuscarEnSuspBlock(c)
           \/ BuscarEnSuspReady(c) \/ Heredar(c) \/ Transitiva(c) \/ FinTransitiva(c)
    PROVE  Sosiego
<1>1. c \in HILOS
  BY DEF HILOS
<1>2. /\ manejador[c].paso \in BUSCANDO
      /\ \E x \in PASOS : Va(c, "MUTEX_LOCK", x, manejador[c].pid, manejador[c].otro)
      /\ UNCHANGED <<cpu, listas, lista_mutex, programa>>
  <2>1. CASE BuscarEnExec(c) \/ BuscarEnBlock(c) \/ BuscarEnSuspBlock(c) \/ BuscarEnSuspReady(c)
    BY <2>1, BuscaEfecto DEF Fijos, BUSCANDO, PASOS
  <2>2. CASE BuscarEnReady(c)
    BY <2>2, BuscaReadyEfecto DEF Fijos, BUSCANDO, PASOS
  <2>3. CASE Heredar(c)
    BY <2>3, HeredarEfecto DEF BUSCANDO, PASOS
  <2>4. CASE Transitiva(c)
    BY <2>4, TransitivaEfecto DEF BUSCANDO, PASOS
  <2>5. CASE FinTransitiva(c)
    BY <2>5, FinTransitivaEfecto DEF Fijos, BUSCANDO, PASOS
  <2>6. QED
    BY <2>1, <2>2, <2>3, <2>4, <2>5
<1>3. manejador[c].syscall = "MUTEX_LOCK"
  BY <1>1, <1>2, LlamadaDe
<1>4. QED
  BY <1>1, <1>2, <1>3, SosiegoDe DEF Va, listas

\* Who has something in hand does not run.
LEMMA NoCorre ==
    ASSUME Sitios, NEW h \in HILOS, NEW p \in Mano(h)
    PROVE  /\ p \notin Ejecutando \cup EnPlanif \cup block \cup susp_block \cup susp_ready
           /\ p \notin EnReady /\ p \in vivos
<1>1. p \in Manos
  BY DEF Manos
<1>2. QED
  BY <1>1 DEF Sitios, Disjuntos, Vivos

\* The steps of bloquear_proceso, SLEEP and the calls for a mutex that there is not are such.
LEMMA SosiegoBloquear ==
    ASSUME TypeOK, Hilos, Sitios, Espera, NEW c \in CPUS,
           \/ DejarCpu(c) \/ EntrarABlock(c) \/ Sleep(c) \/ FinDeQuantum(c)
           \/ \E n : LockNoExiste(c, n) \/ UnlockNoExiste(c, n)
    PROVE  Sosiego
<1>1. c \in HILOS /\ Nadie \notin PIDS
  BY SupuestosMutex DEF HILOS
<1>2. CASE DejarCpu(c)
  <2>1. /\ manejador[c].paso = "dejar_cpu"
        /\ Va(c, manejador[c].syscall, "a_block", manejador[c].pid, manejador[c].otro)
        /\ cpu' = [cpu EXCEPT ![c] = Nadie]
        /\ UNCHANGED <<listas, lista_mutex, programa>>
    BY <1>2, DejarCpuEfecto
  <2>2. manejador[c].syscall \in {"MUTEX_LOCK", "SLEEP"}
    BY <1>1, <2>1, LlamadaDe
  <2>3. \A e \in CPUS : cpu'[e] \in {cpu[e], Nadie}
    BY <2>1 DEF TypeOK
  <2>4. manejador[c].syscall = "SLEEP" => pide[manejador[c].pid] = Nadie
    BY DEF Espera
  <2>5. QED
    BY <1>1, <2>1, <2>2, <2>3, <2>4, SosiegoDe DEF Va, listas
<1>3. CASE EntrarABlock(c)
  <2>1. /\ manejador[c].paso = "a_block" /\ manejador[c].pid \in PIDS
        /\ Va(c, "ninguna", "recibir", Nadie, Nadie)
        /\ block' = block \cup {manejador[c].pid}
        /\ UNCHANGED <<cpu, susp_block, lista_mutex, programa>>
    BY <1>3, EntrarABlockEfecto
  <2>2. manejador[c].syscall \in {"MUTEX_LOCK", "SLEEP"} /\ ~manejador[c].sacado
    BY <1>1, <2>1, LlamadaDe
  <2>3. manejador[c].pid \in Mano(c)
    BY <2>1, <2>2 DEF Mano
  <2>4. manejador[c].pid # cpu[c]
    BY <1>1, <2>1, <2>3, NoCorre DEF Ejecutando
  <2>5. QED
    BY <1>1, <2>1, <2>2, <2>4, SosiegoDe DEF Va
<1>4. CASE Sleep(c)
  <2>1. /\ manejador[c] = Libre /\ cpu[c] \in PIDS
        /\ Va(c, "SLEEP", "dejar_cpu", cpu[c], Nadie)
        /\ UNCHANGED <<cpu, listas, lista_mutex, programa>>
    BY <1>4, SleepEfecto DEF Fijos
  <2>2. pide[cpu[c]] = Nadie
    BY <1>1, <2>1 DEF Espera, Libre
  <2>3. QED
    BY <1>1, <2>1, <2>2, SosiegoDe DEF Va, listas, Libre
<1>5. CASE FinDeQuantum(c)
  <2>1. /\ manejador[c] = Libre
        /\ Va(c, "DESALOJO", "encolar", Nadie, cpu[c])
        /\ cpu' = [cpu EXCEPT ![c] = Nadie]
        /\ UNCHANGED <<listas, lista_mutex, programa>>
    BY <1>5, FinDeQuantumEfecto
  <2>2. \A e \in CPUS : cpu'[e] \in {cpu[e], Nadie}
    BY <2>1 DEF TypeOK
  <2>3. QED
    BY <1>1, <2>1, <2>2, SosiegoDe DEF Va, listas, Libre
<1>6. ASSUME NEW n, LockNoExiste(c, n) \/ UnlockNoExiste(c, n) PROVE Sosiego
  <2>1. /\ manejador[c] = Libre
        /\ Va(c, manejador'[c].syscall, "sin_respuesta", Nadie, Nadie)
        /\ manejador'[c].syscall \in {"MUTEX_LOCK", "MUTEX_UNLOCK"}
        /\ UNCHANGED <<cpu, listas, lista_mutex, programa>>
    BY <1>6, NoExisteEfecto DEF Fijos
  <2>2. QED
    BY <1>1, <2>1, SosiegoDe DEF Va, listas, Libre
<1>7. QED
  BY <1>2, <1>3, <1>4, <1>5, <1>6

\* So are those that wake a process, since it waits for no mutex.
LEMMA SosiegoDespertar ==
    ASSUME TypeOK, Hilos, Sitios, Despiertos, Espera, NEW h \in HILOS, Despertar(h)
    PROVE  Sosiego
<1>1. /\ manejador[h].paso \in DESPERTANDO
      /\ Prosiguio(h) \/ \E x \in DESPERTANDO : Despertando(h, x)
      /\ UNCHANGED <<cpu, lista_mutex, programa>>
      /\ \A p \in block \cup susp_block : p \in block' \cup susp_block' \/ p \notin EnEspera
  <2>1. CASE SacarDeBlock(h)
    <3>1. /\ manejador[h].paso = "sacar"
          /\ block' = block \ {manejador[h].otro}
          /\ Despertando(h, IF manejador[h].otro \in block THEN "encolar" ELSE "de_susp_block")
          /\ UNCHANGED <<cpu, susp_block, lista_mutex, programa>>
      BY <2>1, SacarDeBlockEfecto
    <3>2. manejador[h].otro \notin EnEspera
      BY <3>1 DEF Despiertos
    <3>3. QED
      BY <3>1, <3>2 DEF DESPERTANDO
  <2>2. CASE Encolar(h)
    BY <2>2, EncolarEfecto DEF DESPERTANDO, listas
  <2>3. CASE SacarDeSuspBlock(h)
    <3>1. /\ manejador[h].paso = "de_susp_block"
          /\ susp_block' = susp_block \ {manejador[h].otro}
          /\ Despertando(h, "a_susp_ready")
          /\ UNCHANGED <<cpu, block, lista_mutex, programa>>
      BY <2>3, SacarDeSuspBlockEfecto
    <3>2. manejador[h].otro \notin EnEspera
      BY <3>1 DEF Despiertos
    <3>3. QED
      BY <3>1, <3>2 DEF DESPERTANDO
  <2>4. CASE PonerEnSuspReady(h)
    BY <2>4, PonerEnSuspReadyEfecto DEF DESPERTANDO
  <2>5. CASE SacarDeSuspReady(h)
    BY <2>5, SacarDeSuspReadyEfecto DEF DESPERTANDO
  <2>6. CASE Desuspender(h)
    BY <2>6, DesuspenderEfecto DEF DESPERTANDO, listas
  <2>7. QED
    BY <2>1, <2>2, <2>3, <2>4, <2>5, <2>6 DEF Despertar
<1>2. \/ h \notin CPUS
      \/ manejador[h].syscall \in {"MUTEX_UNLOCK", "EXIT", "DESALOJO"}
  BY <1>1, LlamadaDe, LosHilos DEF CpuHilo
<1>3. manejador[h].paso # "morir"
  BY <1>1 DEF DESPERTANDO
<1>4. CASE Prosiguio(h)
  BY <1>1, <1>2, <1>3, <1>4, SosiegoDe DEF Prosiguio, Va
<1>5. CASE \E x \in DESPERTANDO : Despertando(h, x)
  BY <1>1, <1>2, <1>3, <1>5, SosiegoDe DEF Despertando, Va
<1>6. QED
  BY <1>1, <1>4, <1>5

\* So are the timer, the notices, the end of a SLEEP, and the planner while it sends nothing.
LEMMA SosiegoAjeno ==
    ASSUME TypeOK, Hilos, Espera,
           \/ \E p \in PIDS : Suspender(p) \/ NuevaMemoria(p)
           \/ FinSleep \/ Esperar \/ Desencolar \/ DesencolarNada
    PROVE  Sosiego
<1>1. Escucha \in HILOS \ CPUS /\ Io \in HILOS \ CPUS
  BY LosHilos DEF CpuHilo
<1>2. CASE \E p \in PIDS : NuevaMemoria(p)
  BY <1>1, <1>2, NuevaMemoriaEfecto, SosiegoDe DEF Va
<1>3. CASE FinSleep
  BY <1>1, <1>3, FinSleepEfecto, SosiegoDe DEF Va
<1>4. CASE (\E p \in PIDS : Suspender(p)) \/ Esperar \/ Desencolar \/ DesencolarNada
  <2>1. /\ UNCHANGED <<cpu, manejador, lista_mutex, programa>>
        /\ block' \cup susp_block' = block \cup susp_block
    BY <1>4 DEF Suspender, Esperar, Desencolar, DesencolarNada, listas
  <2>2. QED
    BY <1>1, <2>1, SosiegoDe
<1>5. QED
  BY <1>2, <1>3, <1>4

\* So are the rest of MUTEX_UNLOCK and of EXIT.
LEMMA SosiegoResto ==
    ASSUME TypeOK, Hilos, Cuentas, Espera, Repartidos, NEW c \in CPUS,
           Recalcular(c) \/ Reponer(c) \/ EmpezarMuerte(c) \/ FinMuerte(c)
    PROVE  Sosiego
<1>1. c \in HILOS
  BY DEF HILOS
<1>2. CASE Recalcular(c)
  <2>1. /\ manejador[c].paso = "recalcular"
        /\ Va(c, "MUTEX_UNLOCK", "reponer", manejador[c].pid, manejador[c].otro)
        /\ UNCHANGED <<cpu, listas, lista_mutex, programa>>
    BY <1>2, RecalcularEfecto DEF Fijos
  <2>2. manejador[c].syscall = "MUTEX_UNLOCK"
    BY <1>1, <2>1, LlamadaDe
  <2>3. QED
    BY <1>1, <2>1, <2>2, SosiegoDe DEF Va, listas
<1>3. CASE Reponer(c)
  <2>1. /\ manejador[c].paso = "reponer"
        /\ Va(c, "ninguna", "recibir", Nadie, Nadie)
        /\ UNCHANGED <<cpu, listas, lista_mutex, programa>>
    BY <1>3, ReponerEfecto
  <2>2. manejador[c].syscall = "MUTEX_UNLOCK"
    BY <1>1, <2>1, LlamadaDe
  <2>3. QED
    BY <1>1, <2>1, <2>2, SosiegoDe DEF Va, listas
<1>4. CASE EmpezarMuerte(c)
  <2>1. /\ manejador[c].paso = "morir" /\ manejador'[c].i = 1
        /\ Va(c, "EXIT", "muerte", manejador[c].pid, manejador[c].otro)
        /\ UNCHANGED <<cpu, listas, lista_mutex, programa>>
    BY <1>4, EmpezarMuerteEfecto
  <2>2. manejador[c].syscall = "EXIT"
    BY <1>1, <2>1, LlamadaDe
  <2>3. QED
    BY <1>1, <2>1, <2>2, SosiegoDe DEF Va, listas
<1>5. CASE FinMuerte(c)
  <2>1. /\ manejador[c].paso = "muerte"
        /\ DelMuerto(manejador[c].pid, manejador[c].i) = {}
        /\ Va(c, "ninguna", "recibir", Nadie, Nadie)
        /\ UNCHANGED <<cpu, listas, lista_mutex, programa>>
    BY <1>5, FinMuerteEfecto
  <2>2. manejador[c].syscall = "EXIT"
    BY <1>1, <2>1, LlamadaDe
  <2>3. manejador[c].i \in Nat /\ \A j \in DOMAIN lista_mutex : j \in Nat
    BY <1>1 DEF TypeOK, Atenciones
  <2>4. ASSUME NEW j \in DOMAIN lista_mutex, Tomado(lista_mutex[j])
        PROVE  lista_mutex[j].pid # manejador[c].pid
    <3>1. CASE j < manejador[c].i
      BY <2>1, <2>2, <2>4, <3>1 DEF Repartidos
    <3>2. CASE ~(j < manejador[c].i)
      <4>1. j >= manejador[c].i
        BY <2>3, <3>2
      <4>2. QED
        BY <2>1, <2>4, <4>1 DEF DelMuerto, Tomado
    <3>3. QED
      BY <3>1, <3>2
  <2>5. QED
    BY <1>1, <2>1, <2>2, <2>4, SosiegoDe DEF Va, listas
<1>6. QED
  BY <1>2, <1>3, <1>4, <1>5

-----------------------------------------------------------------------------
(* Who waits, who has and who is owner, when nobody touches the mutexes.     *)

\* Esperan, Duenio and DeAlguno depend on the list of mutexes only.
LEMMA MismosDuenios ==
    ASSUME UNCHANGED lista_mutex
    PROVE  /\ \A i : Esperan(lista_mutex'[i]) = Esperan(lista_mutex[i])
           /\ \A p, n : Duenio(p, n)' <=> Duenio(p, n)
           /\ EnEspera' = EnEspera
           /\ Cuentas => Cuentas'
BY DEF Esperan, Duenio, EnEspera, Cuentas, Tomado

\* Who waits is named by a handler only in MUTEX_LOCK.
LEMMA LlamaQuien ==
    ASSUME Hilos, NEW c \in CPUS, manejador[c].syscall = "MUTEX_LOCK", manejador[c].pid # Nadie
    PROVE  /\ manejador[c].pid \in PIDS /\ mutex_lista = c
           /\ ~manejador[c].sacado \/ manejador[c].paso # "a_block"
           /\ cpu[c] = manejador[c].pid \/ manejador[c].paso = "a_block"
<1>1. Hilo(c)
  BY DEF Hilos, HILOS
<1>2. QED
  BY <1>1 DEF Hilo

\* They leave everybody waiting as they were,
LEMMA EsperaSosiego ==
    ASSUME TypeOK, Espera, Sosiego
    PROVE  Espera'
<1>1. UNCHANGED <<lista_mutex, vivos, pide, tiene>>
  BY DEF Sosiego, programa
<1>2. /\ \A i : Esperan(lista_mutex'[i]) = Esperan(lista_mutex[i])
      /\ \A p, n : Duenio(p, n)' <=> Duenio(p, n)
  BY <1>1, MismosDuenios
<1>3. \A i \in DOMAIN lista_mutex : Esperan(lista_mutex[i]) \subseteq PIDS \cap EnEspera
  <2>1. ASSUME NEW i \in DOMAIN lista_mutex
        PROVE  Esperan(lista_mutex[i]) \subseteq PIDS
    <3>1. lista_mutex[i] \in Mutexes
      BY DEF TypeOK
    <3>2. lista_mutex[i].colaEspera \in Seq(PIDS)
      BY <3>1 DEF Mutexes
    <3>3. QED
      BY <3>2 DEF Esperan, ToSet
  <2>2. QED
    BY <2>1 DEF EnEspera
<1>4. ASSUME NEW i \in DOMAIN lista_mutex, NEW p \in Esperan(lista_mutex[i])
      PROVE  p \in block' \cup susp_block' \/ EnLlamada(p, "MUTEX_LOCK")'
  <2>1. p \in PIDS /\ p \in EnEspera
    BY <1>3
  <2>2. p \in block \cup susp_block \/ EnLlamada(p, "MUTEX_LOCK")
    BY DEF Espera
  <2>3. CASE p \in block \cup susp_block
    BY <2>1, <2>3 DEF Sosiego
  <2>4. CASE EnLlamada(p, "MUTEX_LOCK")
    <3>1. PICK c \in CPUS : manejador[c].syscall = "MUTEX_LOCK" /\ manejador[c].pid = p
      BY <2>4 DEF EnLlamada
    <3>2. QED
      BY <2>1, <3>1 DEF EnLlamada, Sosiego
  <2>5. QED
    BY <2>2, <2>3, <2>4
<1>5. ASSUME NEW c \in CPUS, cpu'[c] # Nadie, pide[cpu'[c]] # Nadie
      PROVE  manejador'[c].syscall = "MUTEX_LOCK" /\ manejador'[c].pid = cpu'[c]
  <2>1. cpu'[c] = cpu[c] /\ cpu[c] \in PIDS
    BY <1>5 DEF Sosiego, TypeOK
  <2>2. manejador[c].syscall = "MUTEX_LOCK" /\ manejador[c].pid = cpu[c]
    BY <1>5, <2>1 DEF Espera
  <2>3. QED
    BY <2>1, <2>2 DEF Sosiego
<1>6. \A c \in CPUS : manejador'[c].syscall = "SLEEP" => pide[manejador'[c].pid] = Nadie
  BY DEF Sosiego
<1>7. ASSUME NEW i \in DOMAIN lista_mutex
      PROVE  LET m == lista_mutex[i] IN
             /\ IsInjective(m.colaEspera)
             /\ \A p \in Esperan(m) : pide[p] = m.nombre /\ p # m.pid
             /\ Tomado(m) /\ m.pid \in vivos => m.nombre \in tiene[m.pid] \/ pide[m.pid] = m.nombre
  BY DEF Espera
<1>8. ASSUME NEW p \in PIDS, pide[p] # Nadie
      PROVE  Duenio(p, pide[p]) \/ \E i \in DOMAIN lista_mutex :
                                   lista_mutex[i].nombre = pide[p] /\ p \in Esperan(lista_mutex[i])
  BY <1>8 DEF Espera
<1>9. \A p \in PIDS \ vivos : pide[p] = Nadie
  BY DEF Espera
<1>10. /\ \A i \in DOMAIN lista_mutex' :
          LET m == lista_mutex'[i] IN
          /\ IsInjective(m.colaEspera)
          /\ \A p \in Esperan(lista_mutex'[i]) :
                /\ pide'[p] = m.nombre /\ p # m.pid
                /\ p \in block' \cup susp_block' \/ EnLlamada(p, "MUTEX_LOCK")'
          /\ Tomado(m) /\ m.pid \in vivos' =>
                m.nombre \in tiene'[m.pid] \/ pide'[m.pid] = m.nombre
  BY <1>1, <1>2, <1>4, <1>7
<1>11. \A p \in PIDS : pide'[p] # Nadie =>
          Duenio(p, pide[p])' \/ \E i \in DOMAIN lista_mutex' :
                                   lista_mutex'[i].nombre = pide'[p] /\ p \in Esperan(lista_mutex'[i])
  BY <1>1, <1>2, <1>8
<1>12. QED
  BY <1>1, <1>5, <1>6, <1>9, <1>10, <1>11 DEF Espera

\* with the mutexes that they had.
LEMMA RestoSosiego ==
    ASSUME TypeOK, Tienen, Repartidos, Sosiego
    PROVE  Tienen' /\ Repartidos'
<1>1. UNCHANGED <<lista_mutex, vivos, pide, tiene>>
  BY DEF Sosiego, programa
<1>2. Tienen'
  BY <1>1, MismosDuenios DEF Tienen
<1>3. ASSUME NEW i \in DOMAIN lista_mutex, Tomado(lista_mutex[i]), lista_mutex[i].pid \notin vivos
      PROVE  EnLlamada(lista_mutex[i].pid, "EXIT")'
  <2>1. PICK c \in CPUS : manejador[c].syscall = "EXIT" /\ manejador[c].pid = lista_mutex[i].pid
    BY <1>3 DEF Repartidos, SinHuerfanos, EnLlamada
  <2>2. QED
    BY <1>3, <2>1 DEF EnLlamada, Sosiego
<1>4. SinHuerfanos'
  BY <1>1, <1>3 DEF SinHuerfanos
<1>5. \A j \in DOMAIN lista_mutex : j \in Nat /\ j >= 1
  BY DEF TypeOK
<1>6. ASSUME NEW c \in CPUS, manejador'[c].syscall = "EXIT", manejador'[c].paso # "morir",
             NEW j \in DOMAIN lista_mutex, j < manejador'[c].i, Tomado(lista_mutex[j])
      PROVE  lista_mutex[j].pid # manejador'[c].pid
  <2>1. CASE manejador'[c].i = 1
    BY <1>5, <1>6, <2>1
  <2>2. CASE /\ manejador[c].syscall = "EXIT" /\ manejador[c].paso # "morir"
             /\ manejador'[c].i = manejador[c].i /\ manejador'[c].pid = manejador[c].pid
    BY <1>6, <2>2 DEF Repartidos
  <2>3. QED
    BY <1>6, <2>1, <2>2 DEF Sosiego
<1>7. QED
  BY <1>1, <1>2, <1>4, <1>6 DEF Repartidos

-----------------------------------------------------------------------------
(* The parts of Espera.                                                      *)

\* Who waits for the mutex i, and its owner.
Fila(i) ==
    LET m == lista_mutex[i] IN
    /\ IsInjective(m.colaEspera)
    /\ \A p \in Esperan(m) :
          /\ pide[p] = m.nombre /\ p # m.pid
          /\ p \in block \cup susp_block \/ EnLlamada(p, "MUTEX_LOCK")
    /\ Tomado(m) /\ m.pid \in vivos => m.nombre \in tiene[m.pid] \/ pide[m.pid] = m.nombre

\* A program that called MUTEX_LOCK waits, or has been given the mutex.
Atendido(p) ==
    pide[p] # Nadie =>
        Duenio(p, pide[p]) \/ \E i \in DOMAIN lista_mutex :
                                 lista_mutex[i].nombre = pide[p] /\ p \in Esperan(lista_mutex[i])

\* Of those that run, only who is being served MUTEX_LOCK waits.
Pidiendo(c) ==
    /\ cpu[c] # Nadie /\ pide[cpu[c]] # Nadie =>
          manejador[c].syscall = "MUTEX_LOCK" /\ manejador[c].pid = cpu[c]
    /\ manejador[c].syscall = "SLEEP" => pide[manejador[c].pid] = Nadie

\* Espera in its parts.
LEMMA EsperaPartes ==
    Espera <=> /\ \A i \in DOMAIN lista_mutex : Fila(i)
               /\ \A p \in PIDS : Atendido(p)
               /\ \A p \in PIDS \ vivos : pide[p] = Nadie
               /\ \A c \in CPUS : Pidiendo(c)
BY DEF Espera, Fila, Atendido, Pidiendo

LEMMA EsperaPartesDespues ==
    ASSUME \A i \in DOMAIN lista_mutex' : Fila(i)',
           \A p \in PIDS : Atendido(p)',
           \A p \in PIDS \ vivos' : pide'[p] = Nadie,
           \A c \in CPUS : Pidiendo(c)'
    PROVE  Espera'
BY DEF Espera, Fila, Atendido, Pidiendo

\* The types of a mutex of the list.
LEMMA UnMutex ==
    ASSUME TypeOK, NEW i \in DOMAIN lista_mutex
    PROVE  /\ lista_mutex[i] \in Mutexes /\ lista_mutex[i].colaEspera \in Seq(PIDS)
           /\ lista_mutex[i].nombre \in MUTEX /\ lista_mutex[i].nombre # Nadie
           /\ lista_mutex[i].pid \in PIDS \cup {Nadie}
<1>1. lista_mutex[i] \in Mutexes
  BY DEF TypeOK
<1>2. QED
  BY <1>1, SupuestosMutex DEF Mutexes

\* Who waits is alive, and waits in one queue, of a mutex that is taken.
LEMMA QuienEspera ==
    ASSUME TypeOK, Cuentas, Espera, NEW i \in DOMAIN lista_mutex, NEW p \in Esperan(lista_mutex[i])
    PROVE  /\ p \in PIDS /\ p \in vivos /\ pide[p] = lista_mutex[i].nombre /\ pide[p] # Nadie
           /\ Tomado(lista_mutex[i]) /\ p # lista_mutex[i].pid /\ p \in EnEspera
           /\ \A j \in DOMAIN lista_mutex : p \in Esperan(lista_mutex[j]) => j = i
           /\ p \in block \cup susp_block \/ EnLlamada(p, "MUTEX_LOCK")
<1>1. lista_mutex[i] \in Mutexes /\ lista_mutex[i].colaEspera \in Seq(PIDS)
  BY UnMutex
<1>2. p \in PIDS /\ lista_mutex[i].colaEspera # <<>>
  BY <1>1 DEF Esperan, ToSet
<1>3. lista_mutex[i].nombre # Nadie
  BY UnMutex
<1>4. pide[p] = lista_mutex[i].nombre /\ p # lista_mutex[i].pid
  BY DEF Espera
<1>5. \A j \in DOMAIN lista_mutex : p \in Esperan(lista_mutex[j]) => j = i
  BY <1>4 DEF Espera, Cuentas
<1>6. QED
  BY <1>2, <1>3, <1>4, <1>5 DEF Espera, EnEspera, Cuentas

\* The handlers that move are not in MUTEX_LOCK nor in SLEEP.
Ajenos == \A c \in CPUS :
    \/ manejador'[c] = manejador[c]
    \/ /\ manejador[c].syscall \notin {"MUTEX_LOCK", "SLEEP"}
       /\ manejador'[c].syscall \notin {"MUTEX_LOCK", "SLEEP"}

\* Such handlers take nobody into MUTEX_LOCK, nor out of it.
LEMMA AjenosLlaman ==
    ASSUME Ajenos, NEW p
    PROVE  EnLlamada(p, "MUTEX_LOCK")' <=> EnLlamada(p, "MUTEX_LOCK")
BY DEF Ajenos, EnLlamada

\* A mutex passes on, or is left free.
LEMMA EsperaCede ==
    ASSUME TypeOK, Cuentas, Espera, NEW i \in DOMAIN lista_mutex, Entrega(i) \/ Suelta(i),
           Ajenos, UNCHANGED <<block, susp_block, cpu, vivos, pide>>,
           pide[lista_mutex[i].pid] = Nadie,
           \A q \in PIDS : \A n \in tiene[q] :
               n \in tiene'[q] \/ (q = lista_mutex[i].pid /\ n = lista_mutex[i].nombre)
    PROVE  Espera'
<1> DEFINE m == lista_mutex[i]
<1>1. /\ Cambia(i) /\ m \in Mutexes /\ m.colaEspera \in Seq(PIDS) /\ IsInjective(m.colaEspera)
      /\ m.nombre # Nadie
  BY UnMutex DEF Entrega, Suelta, Espera
<1>2. \A j \in DOMAIN lista_mutex : j # i => lista_mutex[j].nombre # m.nombre
  BY DEF Cuentas
<1>3. \/ lista_mutex'[i].colaEspera = m.colaEspera
      \/ /\ m.colaEspera # <<>> /\ lista_mutex'[i].colaEspera = Tail(m.colaEspera)
         /\ lista_mutex'[i].pid = Head(m.colaEspera) /\ Tomado(lista_mutex'[i])
  BY DEF Entrega, Suelta
<1>4. /\ IsInjective(lista_mutex'[i].colaEspera)
      /\ Esperan(lista_mutex'[i]) \subseteq Esperan(m)
      /\ lista_mutex'[i].pid \notin Esperan(lista_mutex'[i])
      /\ \A p \in Esperan(m) : p \in Esperan(lista_mutex'[i])
                                 \/ (lista_mutex'[i].pid = p /\ Tomado(lista_mutex'[i]))
      /\ Tomado(lista_mutex'[i]) => lista_mutex'[i].pid \in Esperan(m)
  <2>1. CASE Suelta(i)
    <3>1. m.colaEspera = <<>> /\ lista_mutex'[i].colaEspera = <<>> /\ ~Tomado(lista_mutex'[i])
      BY <2>1 DEF Suelta
    <3>2. Esperan(m) = {} /\ Esperan(lista_mutex'[i]) = {}
      BY <3>1 DEF Esperan, ToSet
    <3>3. QED
      BY <1>1, <3>1, <3>2
  <2>2. CASE Entrega(i)
    <3> DEFINE s == m.colaEspera
    <3>1. /\ s # <<>> /\ lista_mutex'[i].colaEspera = Tail(s)
          /\ lista_mutex'[i].pid = Head(s) /\ Tomado(lista_mutex'[i])
      BY <2>2 DEF Entrega
    <3>2. s \in Seq(PIDS) /\ IsInjective(s)
      BY <1>1
    <3> HIDE DEF s
    <3>3. /\ IsInjective(Tail(s)) /\ ToSet(Tail(s)) = ToSet(s) \ {Head(s)} /\ Head(s) \in ToSet(s)
      BY <3>1, <3>2, SinElPrimero
    <3>4. QED
      BY <3>1, <3>3 DEF Esperan, s
  <2>3. QED
    BY <2>1, <2>2
<1>5. ASSUME NEW j \in DOMAIN lista_mutex' PROVE Fila(j)'
  <2>1. j \in DOMAIN lista_mutex /\ Fila(j)
    BY <1>1, EsperaPartes DEF Cambia
  <2>2. CASE j # i
    <3>1. lista_mutex'[j] = lista_mutex[j] /\ lista_mutex[j] \in Mutexes
      BY <1>1, <2>1, <2>2 DEF Cambia, TypeOK
    <3>2. \A p : p \in vivos /\ lista_mutex[j].nombre \in tiene[p] => lista_mutex[j].nombre \in tiene'[p]
      BY <1>2, <2>1, <2>2 DEF TypeOK
    <3>3. QED
      BY <2>1, <3>1, <3>2, AjenosLlaman DEF Fila
  <2>3. CASE j = i
    <3>1. lista_mutex'[i].nombre = m.nombre
      BY <1>1 DEF Cambia
    <3>2. \A p \in Esperan(m) : pide[p] = m.nombre
      BY <2>1, <2>3 DEF Fila
    <3>3. Tomado(lista_mutex'[i]) => pide[lista_mutex'[i].pid] = m.nombre
      BY <1>4, <3>2
    <3>4. QED
      BY <1>4, <2>1, <2>3, <3>1, <3>3, AjenosLlaman DEF Fila
  <2>4. QED
    BY <2>2, <2>3
<1>6. ASSUME NEW p \in PIDS PROVE Atendido(p)'
  <2>1. Atendido(p)
    BY EsperaPartes
  <2>2. CASE pide[p] = Nadie
    BY <2>2 DEF Atendido
  <2>3. CASE Duenio(p, pide[p]) /\ pide[p] # Nadie
    <3>1. PICK j \in DOMAIN lista_mutex :
             /\ lista_mutex[j].nombre = pide[p] /\ Tomado(lista_mutex[j]) /\ lista_mutex[j].pid = p
      BY <2>3 DEF Duenio
    <3>2. j # i
      BY <2>3, <3>1
    <3>3. j \in DOMAIN lista_mutex' /\ lista_mutex'[j] = lista_mutex[j]
      BY <1>1, <3>2 DEF Cambia
    <3>4. Duenio(p, pide[p])'
      BY <3>1, <3>3 DEF Duenio
    <3>5. QED
      BY <3>4 DEF Atendido
  <2>4. ASSUME NEW j \in DOMAIN lista_mutex, lista_mutex[j].nombre = pide[p], p \in Esperan(lista_mutex[j])
        PROVE  Atendido(p)'
    <3>1. j \in DOMAIN lista_mutex' /\ lista_mutex'[j].nombre = lista_mutex[j].nombre
      BY <1>1 DEF Cambia
    <3>2. p \in Esperan(lista_mutex'[j]) \/ (j = i /\ Tomado(lista_mutex'[i]) /\ lista_mutex'[i].pid = p)
      BY <1>1, <1>4, <2>4 DEF Cambia
    <3>3. QED
      BY <2>4, <3>1, <3>2 DEF Atendido, Duenio
  <2>5. QED
    BY <2>1, <2>2, <2>3, <2>4 DEF Atendido
<1>7. \A c \in CPUS : Pidiendo(c)'
  BY EsperaPartes DEF Pidiendo, Ajenos
<1>8. \A p \in PIDS \ vivos' : pide'[p] = Nadie
  BY EsperaPartes
<1>9. QED
  BY <1>5, <1>6, <1>7, <1>8, EsperaPartesDespues

\* A free mutex is taken.
LEMMA EsperaToma ==
    ASSUME TypeOK, Cuentas, Espera, NEW i \in DOMAIN lista_mutex, NEW p \in PIDS, Toma(i, p),
           tiene' = [tiene EXCEPT ![p] = @ \cup {lista_mutex[i].nombre}],
           UNCHANGED <<block, susp_block, cpu, vivos, pide, manejador>>
    PROVE  Espera'
<1>1. \A q \in PIDS : tiene[q] \subseteq tiene'[q]
  BY DEF TypeOK
<1>2. Cambia(i) /\ lista_mutex[i].nombre \in tiene'[p]
  BY DEF Toma, TypeOK
<1>3. Esperan(lista_mutex[i]) = {} /\ Esperan(lista_mutex'[i]) = {} /\ IsInjective(lista_mutex'[i].colaEspera)
  BY DEF Toma, Esperan, ToSet, IsInjective
<1>4. \A q : EnLlamada(q, "MUTEX_LOCK")' <=> EnLlamada(q, "MUTEX_LOCK")
  BY DEF EnLlamada
<1>5. ASSUME NEW j \in DOMAIN lista_mutex' PROVE Fila(j)'
  <2>1. j \in DOMAIN lista_mutex /\ Fila(j)
    BY <1>2, EsperaPartes DEF Cambia
  <2>2. CASE j # i
    <3>1. lista_mutex'[j] = lista_mutex[j] /\ vivos \subseteq PIDS
      BY <1>2, <2>1, <2>2 DEF Cambia, TypeOK
    <3>2. QED
      BY <1>1, <1>4, <2>1, <3>1 DEF Fila
  <2>3. CASE j = i
    BY <1>2, <1>3, <2>3 DEF Fila, Cambia, Toma
  <2>4. QED
    BY <2>2, <2>3
<1>6. ASSUME NEW q \in PIDS PROVE Atendido(q)'
  <2>1. Atendido(q)
    BY EsperaPartes
  <2>2. \A j \in DOMAIN lista_mutex : Tomado(lista_mutex[j]) \/ Esperan(lista_mutex[j]) # {} =>
           j \in DOMAIN lista_mutex' /\ lista_mutex'[j] = lista_mutex[j]
    BY <1>2, <1>3 DEF Cambia, Toma
  <2>3. QED
    BY <2>1, <2>2 DEF Atendido, Duenio
<1>7. \A c \in CPUS : Pidiendo(c)'
  BY EsperaPartes DEF Pidiendo
<1>8. \A q \in PIDS \ vivos' : pide'[q] = Nadie
  BY EsperaPartes
<1>9. QED
  BY <1>5, <1>6, <1>7, <1>8, EsperaPartesDespues

\* MUTEX_CREATE: nobody waits for the new mutex.
LEMMA EsperaAgrega ==
    ASSUME TypeOK, Espera, NEW n \in MUTEX, Agrega(n),
           UNCHANGED <<block, susp_block, cpu, programa, manejador>>
    PROVE  Espera'
<1>1. \A q : EnLlamada(q, "MUTEX_LOCK")' <=> EnLlamada(q, "MUTEX_LOCK")
  BY DEF EnLlamada
<1>2. UNCHANGED <<vivos, pide, tiene>>
  BY DEF programa
<1>3. ASSUME NEW j \in DOMAIN lista_mutex' PROVE Fila(j)'
  <2>1. CASE j \in DOMAIN lista_mutex
    <3>1. lista_mutex'[j] = lista_mutex[j] /\ Fila(j)
      BY <2>1, EsperaPartes DEF Agrega
    <3>2. QED
      BY <1>1, <1>2, <3>1 DEF Fila
  <2>2. CASE j \notin DOMAIN lista_mutex
    <3>1. lista_mutex'[j] = Mutex(n)
      BY <1>3, <2>2 DEF Agrega
    <3>2. lista_mutex'[j].colaEspera = <<>> /\ ~Tomado(lista_mutex'[j])
      BY <3>1 DEF Mutex, Tomado
    <3>3. Esperan(lista_mutex'[j]) = {} /\ IsInjective(lista_mutex'[j].colaEspera)
      BY <3>2 DEF Esperan, ToSet, IsInjective
    <3>4. QED
      BY <3>2, <3>3 DEF Fila
  <2>3. QED
    BY <2>1, <2>2
<1>4. ASSUME NEW q \in PIDS PROVE Atendido(q)'
  <2>1. Atendido(q)
    BY EsperaPartes
  <2>2. \A j \in DOMAIN lista_mutex : j \in DOMAIN lista_mutex' /\ lista_mutex'[j] = lista_mutex[j]
    BY DEF Agrega
  <2>3. QED
    BY <1>2, <2>1, <2>2 DEF Atendido, Duenio
<1>5. \A c \in CPUS : Pidiendo(c)'
  BY <1>2, EsperaPartes DEF Pidiendo
<1>6. \A q \in PIDS \ vivos' : pide'[q] = Nadie
  BY <1>2, EsperaPartes
<1>7. QED
  BY <1>3, <1>4, <1>5, <1>6, EsperaPartesDespues

\* Who runs a program that is not in a call waits for nothing.
LEMMA CorreSinPedir ==
    ASSUME TypeOK, Espera, NEW c \in CPUS, manejador[c] = Libre, cpu[c] \in PIDS
    PROVE  pide[cpu[c]] = Nadie
<1>1. cpu[c] # Nadie /\ manejador[c].syscall = "ninguna"
  BY SupuestosMutex DEF Libre
<1>2. QED
  BY <1>1 DEF Espera

\* A process joins the queue of a mutex.
LEMMA EsperaUne ==
    ASSUME TypeOK, Hilos, Cuentas, Sitios, Espera, NEW c \in CPUS, NEW i \in DOMAIN lista_mutex,
           manejador[c] = Libre, cpu[c] \in PIDS, Une(i, cpu[c]),
           lista_mutex[i].nombre \notin tiene[cpu[c]],
           pide' = [pide EXCEPT ![cpu[c]] = lista_mutex[i].nombre],
           manejador'[c].syscall = "MUTEX_LOCK", manejador'[c].pid = cpu[c],
           \A g \in HILOS : g # c => manejador'[g] = manejador[g],
           UNCHANGED <<block, susp_block, cpu, vivos, tiene>>
    PROVE  Espera'
<1> DEFINE p == cpu[c]
           m == lista_mutex[i]
<1>1. p \in Ejecutando /\ p \in vivos /\ p \in PIDS /\ Nadie \notin PIDS
  BY SupuestosMutex DEF Ejecutando, Sitios, Vivos
<1>2. pide[p] = Nadie
  BY CorreSinPedir
<1>3. /\ Cambia(i) /\ m.colaEspera \in Seq(PIDS) /\ IsInjective(m.colaEspera) /\ m.nombre # Nadie
      /\ lista_mutex'[i].nombre = m.nombre
  BY UnMutex, EsperaPartes DEF Une, Fila, Cambia
<1>4. \A j \in DOMAIN lista_mutex : p \notin Esperan(lista_mutex[j])
  BY <1>2, QuienEspera
<1>5. m.pid # p
  <2>1. SUFFICES ASSUME m.pid = p PROVE FALSE
    OBVIOUS
  <2>2. Fila(i) /\ Tomado(m)
    BY EsperaPartes DEF Une
  <2>3. QED
    BY <1>1, <1>2, <1>3, <2>1, <2>2 DEF Fila
<1>6. /\ \A q \in PIDS : q # p => pide'[q] = pide[q]
      /\ pide'[p] = m.nombre
  BY DEF TypeOK
<1>7. /\ IsInjective(lista_mutex'[i].colaEspera)
      /\ Esperan(lista_mutex'[i]) = Esperan(m) \cup {p}
      /\ lista_mutex'[i].pid = m.pid /\ Tomado(lista_mutex'[i])
  <2> DEFINE s == m.colaEspera
  <2>1. lista_mutex'[i].colaEspera = Append(s, p) /\ s \in Seq(PIDS) /\ IsInjective(s)
    BY <1>3 DEF Une
  <2>2. p \notin ToSet(s)
    BY <1>4 DEF Esperan
  <2> HIDE DEF s, p
  <2>3. IsInjective(Append(s, p)) /\ ToSet(Append(s, p)) = ToSet(s) \cup {p}
    BY <1>1, <2>1, <2>2, AlFinal
  <2>4. QED
    BY <2>1, <2>3 DEF Esperan, s, p, Une
<1>8. \A q : EnLlamada(q, "MUTEX_LOCK") => EnLlamada(q, "MUTEX_LOCK")'
  <2>1. SUFFICES ASSUME NEW q, EnLlamada(q, "MUTEX_LOCK") PROVE EnLlamada(q, "MUTEX_LOCK")'
    OBVIOUS
  <2>2. PICK e \in CPUS : manejador[e].syscall = "MUTEX_LOCK" /\ manejador[e].pid = q
    BY <2>1 DEF EnLlamada
  <2>3. e # c /\ e \in HILOS
    BY <2>2 DEF Libre, HILOS
  <2>4. QED
    BY <2>2, <2>3 DEF EnLlamada
<1>9. EnLlamada(p, "MUTEX_LOCK")'
  BY DEF EnLlamada
<1>10. ASSUME NEW j \in DOMAIN lista_mutex' PROVE Fila(j)'
  <2>1. j \in DOMAIN lista_mutex /\ Fila(j) /\ lista_mutex[j].nombre # Nadie
    BY <1>3, EsperaPartes, UnMutex DEF Cambia
  <2>2. \A q \in Esperan(lista_mutex[j]) : q \in PIDS /\ q # p
    BY <1>4, <2>1, QuienEspera
  <2>3. vivos \subseteq PIDS
    BY DEF TypeOK
  <2>4. CASE j # i
    <3>1. lista_mutex'[j] = lista_mutex[j]
      BY <1>3, <2>1, <2>4 DEF Cambia
    <3> HIDE DEF p
    <3>2. QED
      BY <1>2, <1>6, <1>8, <2>1, <2>2, <2>3, <3>1 DEF Fila
  <2>5. CASE j = i
    <3>1. /\ \A q \in Esperan(m) : /\ pide[q] = m.nombre /\ q # m.pid /\ q \in PIDS /\ q # p
                                   /\ q \in block \cup susp_block \/ EnLlamada(q, "MUTEX_LOCK")
          /\ m.pid \in vivos => m.nombre \in tiene[m.pid] \/ pide[m.pid] = m.nombre
      BY <2>1, <2>2, <2>5 DEF Fila, Une
    <3>2. \A q \in Esperan(lista_mutex'[i]) :
             /\ pide'[q] = m.nombre /\ q # m.pid
             /\ q \in block' \cup susp_block' \/ EnLlamada(q, "MUTEX_LOCK")'
      <4>1. \A q \in Esperan(m) : q \in block \cup susp_block \/ EnLlamada(q, "MUTEX_LOCK")'
        BY <1>8, <3>1
      <4>2. QED
        BY <1>5, <1>6, <1>7, <1>9, <3>1, <4>1
    <3>3. m.pid \in vivos' => m.nombre \in tiene'[m.pid] \/ pide'[m.pid] = m.nombre
      BY <1>5, <1>6, <2>3, <3>1
    <3>4. QED
      BY <1>3, <1>7, <2>5, <3>2, <3>3 DEF Fila
  <2>6. QED
    BY <2>4, <2>5
<1>11. ASSUME NEW q \in PIDS PROVE Atendido(q)'
  <2>1. CASE q = p
    BY <1>3, <1>6, <1>7, <2>1 DEF Atendido, Cambia
  <2>2. CASE q # p
    <3>1. Atendido(q) /\ pide'[q] = pide[q]
      BY <1>6, <2>2, EsperaPartes
    <3>2. \A j \in DOMAIN lista_mutex :
             /\ j \in DOMAIN lista_mutex' /\ lista_mutex'[j].nombre = lista_mutex[j].nombre
             /\ lista_mutex'[j].pid = lista_mutex[j].pid
             /\ Tomado(lista_mutex[j]) => Tomado(lista_mutex'[j])
             /\ q \in Esperan(lista_mutex[j]) => q \in Esperan(lista_mutex'[j])
      <4>1. ASSUME NEW j \in DOMAIN lista_mutex, j # i PROVE lista_mutex'[j] = lista_mutex[j]
        BY <1>3, <4>1 DEF Cambia
      <4>2. QED
        BY <1>3, <1>7, <4>1 DEF Cambia
    <3>3. QED
      BY <3>1, <3>2 DEF Atendido, Duenio
  <2>3. QED
    BY <2>1, <2>2
<1>12. ASSUME NEW e \in CPUS PROVE Pidiendo(e)'
  <2>1. Pidiendo(e) /\ e \in HILOS
    BY EsperaPartes DEF HILOS
  <2>2. CASE e = c
    BY <2>2 DEF Pidiendo
  <2>3. CASE e # c
    <3>1. manejador'[e] = manejador[e] /\ cpu[e] # p
      BY <1>1, <2>1, <2>3 DEF Sitios, CpusSueltas
    <3>2. cpu[e] # Nadie => cpu[e] \in PIDS
      BY DEF TypeOK
    <3>3. manejador[e].syscall = "SLEEP" => manejador[e].pid \in PIDS /\ manejador[e].pid # p
      <4>1. SUFFICES ASSUME manejador[e].syscall = "SLEEP"
                     PROVE  manejador[e].pid \in PIDS /\ manejador[e].pid # p
        OBVIOUS
      <4>2. /\ Hilo(e) /\ manejador[e].paso # "sin_respuesta" /\ ~manejador[e].sacado
        BY <2>1, <4>1 DEF Hilos, Hilo, PasoDe
      <4>3. manejador[e].pid \in PIDS /\ (manejador[e].paso # "a_block" => cpu[e] = manejador[e].pid)
        BY <4>1, <4>2 DEF Hilo
      <4>4. CASE manejador[e].paso = "a_block"
        <5>1. manejador[e].pid \in Mano(e)
          BY <4>2, <4>4 DEF Mano
        <5>2. QED
          BY <1>1, <2>1, <4>3, <5>1, NoCorre
      <4>5. QED
        BY <3>1, <4>3, <4>4
    <3> HIDE DEF p
    <3>4. QED
      BY <1>6, <2>1, <3>1, <3>2, <3>3 DEF Pidiendo
  <2>4. QED
    BY <2>2, <2>3
<1>13. \A q \in PIDS \ vivos' : pide'[q] = Nadie
  BY <1>1, <1>6, EsperaPartes
<1>14. QED
  BY <1>10, <1>11, <1>12, <1>13, EsperaPartesDespues

\* A program ends.
LEMMA EsperaExit ==
    ASSUME TypeOK, Espera, NEW c \in CPUS, manejador[c] = Libre, cpu[c] \in PIDS,
           Ajenos, vivos' = vivos \ {cpu[c]}, tiene' = [tiene EXCEPT ![cpu[c]] = {}],
           \A e \in CPUS : cpu'[e] \in {cpu[e], Nadie},
           UNCHANGED <<block, susp_block, lista_mutex, pide>>
    PROVE  Espera'
<1>1. pide[cpu[c]] = Nadie
  BY CorreSinPedir
<1>2. \A q \in PIDS : q # cpu[c] => tiene'[q] = tiene[q]
  BY DEF TypeOK
<1>3. ASSUME NEW j \in DOMAIN lista_mutex' PROVE Fila(j)'
  <2>1. Fila(j)
    BY EsperaPartes
  <2>2. vivos \subseteq PIDS
    BY DEF TypeOK
  <2>3. QED
    BY <1>2, <2>1, <2>2, AjenosLlaman DEF Fila
<1>4. \A q \in PIDS : Atendido(q)'
  BY EsperaPartes, MismosDuenios DEF Atendido
<1>5. \A e \in CPUS : Pidiendo(e)'
  BY EsperaPartes DEF Pidiendo, Ajenos
<1>6. \A q \in PIDS \ vivos' : pide'[q] = Nadie
  BY <1>1, EsperaPartes
<1>7. QED
  BY <1>3, <1>4, <1>5, <1>6, EsperaPartesDespues

\* The process that the planner has waits for nothing more.
LEMMA EnviadoNoEspera ==
    ASSUME TypeOK, Hilos, Cuentas, Sitios, Espera, NEW p \in EnPlanif
    PROVE  /\ \A i \in DOMAIN lista_mutex : p \notin Esperan(lista_mutex[i])
           /\ p \in PIDS /\ p \in vivos
<1>1. p \in PIDS /\ p \in vivos /\ p \notin block \cup susp_block \cup Ejecutando
  BY DEF EnPlanif, Sitios, Vivos, Disjuntos, TypeOK
<1>2. ~EnLlamada(p, "MUTEX_LOCK")
  <2>1. SUFFICES ASSUME NEW c \in CPUS, manejador[c].syscall = "MUTEX_LOCK", manejador[c].pid = p
                 PROVE  FALSE
    BY DEF EnLlamada
  <2>2. c \in HILOS /\ Nadie \notin PIDS
    BY SupuestosMutex DEF HILOS
  <2>3. /\ cpu[c] = p \/ manejador[c].paso = "a_block"
    BY <1>1, <2>1, <2>2, LlamaQuien
  <2>4. manejador[c].paso = "a_block"
    BY <1>1, <2>2, <2>3 DEF Ejecutando
  <2>5. ~manejador[c].sacado
    BY <2>2, <2>4, LlamadaDe
  <2>6. p \in Mano(c)
    BY <2>1, <2>4, <2>5 DEF Mano
  <2>7. QED
    BY <2>2, <2>6, NoCorre
<1>3. QED
  BY <1>1, <1>2, QuienEspera

\* The program that runs again has the mutex that it asked for.
LEMMA EsperaEnviar ==
    ASSUME TypeOK, Hilos, Cuentas, Sitios, Espera, NEW c \in CPUS, NEW p \in EnPlanif,
           cpu' = [cpu EXCEPT ![c] = p],
           pide' = [pide EXCEPT ![p] = Nadie],
           tiene' = [tiene EXCEPT ![p] = @ \cup ({pide[p]} \ {Nadie})],
           UNCHANGED <<block, susp_block, lista_mutex, vivos, manejador>>
    PROVE  Espera'
<1>1. p \in PIDS /\ \A i \in DOMAIN lista_mutex : p \notin Esperan(lista_mutex[i])
  BY EnviadoNoEspera
<1>2. /\ \A q \in PIDS : q # p => pide'[q] = pide[q] /\ tiene'[q] = tiene[q]
      /\ pide'[p] = Nadie
      /\ tiene[p] \subseteq tiene'[p] /\ (pide[p] # Nadie => pide[p] \in tiene'[p])
  BY <1>1 DEF TypeOK
<1>3. \A q : EnLlamada(q, "MUTEX_LOCK")' <=> EnLlamada(q, "MUTEX_LOCK")
  BY DEF EnLlamada
<1>4. ASSUME NEW j \in DOMAIN lista_mutex' PROVE Fila(j)'
  <2>1. Fila(j) /\ lista_mutex[j].nombre # Nadie
    BY EsperaPartes, UnMutex
  <2>2. vivos \subseteq PIDS /\ \A q \in Esperan(lista_mutex[j]) : q \in PIDS /\ q # p
    BY <1>1, QuienEspera DEF TypeOK
  <2>3. QED
    BY <1>2, <1>3, <2>1, <2>2 DEF Fila
<1>5. ASSUME NEW q \in PIDS PROVE Atendido(q)'
  <2>1. Atendido(q)
    BY EsperaPartes
  <2>2. QED
    BY <1>2, <2>1, MismosDuenios DEF Atendido
<1>6. ASSUME NEW e \in CPUS PROVE Pidiendo(e)'
  <2>1. Pidiendo(e)
    BY EsperaPartes
  <2>2. cpu'[e] = p \/ cpu'[e] = cpu[e]
    BY DEF TypeOK
  <2>3. \A q : pide[q] = Nadie /\ q \in PIDS => pide'[q] = Nadie
    BY <1>2
  <2>4. manejador[e].syscall = "SLEEP" => manejador[e].pid \in PIDS
    BY DEF Hilos, Hilo, HILOS, PasoDe
  <2>5. cpu[e] # Nadie => cpu[e] \in PIDS
    BY DEF TypeOK
  <2>6. QED
    BY <1>2, <2>1, <2>2, <2>3, <2>4, <2>5 DEF Pidiendo
<1>7. \A q \in PIDS \ vivos' : pide'[q] = Nadie
  BY <1>2, EsperaPartes
<1>8. QED
  BY <1>4, <1>5, <1>6, <1>7, EsperaPartesDespues

-----------------------------------------------------------------------------
(* Who has a mutex, and those of a process that ended.                       *)

\* The owners of the mutexes besides i are the same.
LEMMA DueniosCambia ==
    ASSUME NEW i, Cambia(i), NEW p, NEW n, Duenio(p, n),
           Tomado(lista_mutex[i]) /\ lista_mutex[i].pid = p /\ lista_mutex[i].nombre = n =>
               Tomado(lista_mutex'[i]) /\ lista_mutex'[i].pid = p
    PROVE  Duenio(p, n)'
<1>1. PICK j \in DOMAIN lista_mutex :
         lista_mutex[j].nombre = n /\ Tomado(lista_mutex[j]) /\ lista_mutex[j].pid = p
  BY DEF Duenio
<1>2. CASE j = i
  BY <1>1, <1>2 DEF Cambia, Duenio
<1>3. CASE j # i
  BY <1>1, <1>3 DEF Cambia, Duenio
<1>4. QED
  BY <1>2, <1>3

\* The mutex i passes on: it leaves the hands of its owner.
LEMMA TienenCede ==
    ASSUME TypeOK, Tienen, NEW i \in DOMAIN lista_mutex, Entrega(i) \/ Suelta(i),
           UNCHANGED vivos,
           \A q \in PIDS : \A n \in tiene'[q] :
               /\ n \in tiene[q]
               /\ ~(q = lista_mutex[i].pid /\ n = lista_mutex[i].nombre)
    PROVE  Tienen'
<1>1. Cambia(i)
  BY DEF Entrega, Suelta
<1>2. SUFFICES ASSUME NEW q \in PIDS, NEW n \in tiene'[q]
               PROVE  q \in vivos /\ Duenio(q, n)'
  BY DEF Tienen
<1>3. q \in vivos /\ Duenio(q, n)
  BY DEF Tienen
<1>4. QED
  BY <1>1, <1>3, DueniosCambia

\* A free mutex is taken by a live process.
LEMMA TienenToma ==
    ASSUME TypeOK, Tienen, NEW i \in DOMAIN lista_mutex, NEW p \in vivos, Toma(i, p),
           tiene' = [tiene EXCEPT ![p] = @ \cup {lista_mutex[i].nombre}],
           UNCHANGED vivos
    PROVE  Tienen'
<1>1. Cambia(i) /\ i \in DOMAIN lista_mutex'
  BY DEF Toma, Cambia
<1>2. SUFFICES ASSUME NEW q \in PIDS, NEW n \in tiene'[q]
               PROVE  q \in vivos /\ Duenio(q, n)'
  BY DEF Tienen
<1>3. n \in tiene[q] \/ (q = p /\ n = lista_mutex[i].nombre)
  BY DEF TypeOK
<1>4. CASE n \in tiene[q]
  <2>1. q \in vivos /\ Duenio(q, n)
    BY <1>4 DEF Tienen
  <2>2. ~Tomado(lista_mutex[i])
    BY DEF Toma
  <2>3. QED
    BY <1>1, <2>1, <2>2, DueniosCambia
<1>5. CASE q = p /\ n = lista_mutex[i].nombre
  BY <1>1, <1>5 DEF Toma, Cambia, Duenio
<1>6. QED
  BY <1>3, <1>4, <1>5

\* Joining the queue takes nothing from anybody.
LEMMA TienenUne ==
    ASSUME TypeOK, Tienen, NEW i \in DOMAIN lista_mutex, NEW p, Une(i, p),
           UNCHANGED <<vivos, tiene>>
    PROVE  Tienen'
<1>1. Cambia(i)
  BY DEF Une
<1>2. SUFFICES ASSUME NEW q \in PIDS, NEW n \in tiene'[q]
               PROVE  q \in vivos /\ Duenio(q, n)'
  BY DEF Tienen
<1>3. q \in vivos /\ Duenio(q, n)
  BY DEF Tienen
<1>4. QED
  BY <1>1, <1>3, DueniosCambia DEF Une

\* Neither does creating a mutex.
LEMMA TienenAgrega ==
    ASSUME Tienen, NEW n, Agrega(n), UNCHANGED programa
    PROVE  Tienen'
BY DEF Tienen, Agrega, Duenio, programa

\* The dead process has no mutex.
LEMMA TienenExit ==
    ASSUME TypeOK, Tienen, NEW p \in PIDS, vivos' = vivos \ {p}, tiene' = [tiene EXCEPT ![p] = {}],
           UNCHANGED lista_mutex
    PROVE  Tienen'
<1>1. SUFFICES ASSUME NEW q \in PIDS, NEW n \in tiene'[q]
               PROVE  q \in vivos' /\ Duenio(q, n)'
  BY DEF Tienen
<1>2. q # p /\ n \in tiene[q]
  BY DEF TypeOK
<1>3. QED
  BY <1>2, MismosDuenios DEF Tienen

\* Whom the planner sends has the mutex it asked for, and owns it.
LEMMA TienenEnviar ==
    ASSUME TypeOK, Hilos, Cuentas, Sitios, Espera, Tienen, NEW p \in EnPlanif,
           tiene' = [tiene EXCEPT ![p] = @ \cup ({pide[p]} \ {Nadie})],
           UNCHANGED <<lista_mutex, vivos>>
    PROVE  Tienen'
<1>1. /\ p \in PIDS /\ p \in vivos
      /\ pide[p] # Nadie => Duenio(p, pide[p])
  BY EnviadoNoEspera, EsperaPartes DEF Atendido
<1>2. SUFFICES ASSUME NEW q \in PIDS, NEW n \in tiene'[q]
               PROVE  q \in vivos /\ Duenio(q, n)'
  BY DEF Tienen
<1>3. n \in tiene[q] \/ (q = p /\ n = pide[p] /\ pide[p] # Nadie)
  BY DEF TypeOK
<1>4. QED
  BY <1>1, <1>3, MismosDuenios DEF Tienen

-----------------------------------------------------------------------------
\* An EXIT is not affected by a step that leaves its handler alone.
ExitQuieto == \A c \in CPUS :
    \/ manejador'[c] = manejador[c]
    \/ manejador[c].syscall # "EXIT" /\ manejador'[c].syscall # "EXIT"

\* A mutex changes, and its owner, if it has one, is alive, or was it before.
LEMMA RepartidosCambia ==
    ASSUME TypeOK, Hilos, Repartidos, NEW i \in DOMAIN lista_mutex, Cambia(i), ExitQuieto,
           UNCHANGED vivos,
           Tomado(lista_mutex'[i]) =>
               \/ lista_mutex'[i].pid \in vivos
               \/ Tomado(lista_mutex[i]) /\ lista_mutex'[i].pid = lista_mutex[i].pid
    PROVE  Repartidos'
<1>1. \A q : EnLlamada(q, "EXIT")' <=> EnLlamada(q, "EXIT")
  BY DEF EnLlamada, ExitQuieto
<1>2. \A j \in DOMAIN lista_mutex' : j \in DOMAIN lista_mutex /\ (j # i => lista_mutex'[j] = lista_mutex[j])
  BY DEF Cambia
<1>3. \A j \in DOMAIN lista_mutex' : Tomado(lista_mutex'[j]) =>
          \/ lista_mutex'[j].pid \in vivos
          \/ Tomado(lista_mutex[j]) /\ lista_mutex'[j].pid = lista_mutex[j].pid
  BY <1>2
<1>4. SinHuerfanos'
  BY <1>1, <1>2, <1>3 DEF SinHuerfanos, Repartidos
<1>5. ASSUME NEW c \in CPUS, manejador'[c].syscall = "EXIT", manejador'[c].paso # "morir",
             NEW j \in DOMAIN lista_mutex', j < manejador'[c].i, Tomado(lista_mutex'[j])
      PROVE  lista_mutex'[j].pid # manejador'[c].pid
  <2>1. manejador'[c] = manejador[c] /\ Hilo(c)
    BY <1>5 DEF ExitQuieto, Hilos, HILOS
  <2>2. manejador[c].pid \notin vivos
    BY <1>5, <2>1 DEF Hilo
  <2>3. QED
    BY <1>2, <1>3, <1>5, <2>1, <2>2 DEF Repartidos
<1>6. QED
  BY <1>4, <1>5 DEF Repartidos

\* The new mutex is free, so that no EXIT has it to free.
LEMMA RepartidosAgrega ==
    ASSUME Repartidos, NEW n, Agrega(n), UNCHANGED <<programa, manejador>>
    PROVE  Repartidos'
<1>1. \A q : EnLlamada(q, "EXIT")' <=> EnLlamada(q, "EXIT")
  BY DEF EnLlamada
<1>2. vivos' = vivos
  BY DEF programa
<1>3. \A j \in DOMAIN lista_mutex' : Tomado(lista_mutex'[j]) =>
          j \in DOMAIN lista_mutex /\ lista_mutex'[j] = lista_mutex[j]
  BY DEF Agrega, Mutex, Tomado
<1>4. QED
  BY <1>1, <1>2, <1>3 DEF Repartidos, SinHuerfanos

\* An EXIT begins with all the mutexes of the dead process ahead.
LEMMA RepartidosExit ==
    ASSUME TypeOK, Repartidos, NEW c \in CPUS, manejador[c] = Libre,
           Va(c, "EXIT", "morir", cpu[c], Nadie), vivos' = vivos \ {cpu[c]},
           UNCHANGED lista_mutex
    PROVE  Repartidos'
<1>1. \A e \in CPUS : e # c => manejador'[e] = manejador[e]
  BY DEF Va, HILOS
<1>2. manejador[c].syscall # "EXIT"
  BY DEF Libre
<1>3. \A q : EnLlamada(q, "EXIT") \/ q = cpu[c] => EnLlamada(q, "EXIT")'
  BY <1>1, <1>2 DEF EnLlamada, Va
<1>4. SinHuerfanos'
  BY <1>3 DEF SinHuerfanos, Repartidos, Tomado
<1>5. manejador'[c].paso = "morir"
  BY DEF Va
<1>6. QED
  BY <1>1, <1>4, <1>5 DEF Repartidos, Tomado

\* The EXIT of c has passed on the mutex i.
LEMMA RepartidosMuerte ==
    ASSUME TypeOK, Hilos, Cuentas, Espera, Repartidos, NEW c \in CPUS, NEW i, Libera(c, i),
           manejador[c].paso = "muerte", UNCHANGED vivos
    PROVE  Repartidos'
<1>1. /\ i \in DOMAIN lista_mutex /\ Cambia(i) /\ manejador'[c].i = i + 1
      /\ manejador'[c].syscall = "EXIT" /\ manejador'[c].pid = manejador[c].pid
      /\ manejador[c].syscall = "EXIT" /\ manejador[c].pid \notin vivos
      /\ \A e \in CPUS : e # c => manejador'[e] = manejador[e]
  <2>1. c \in HILOS
    BY DEF HILOS
  <2>2. QED
    BY <2>1, LlamadaDe DEF Libera, Entrega, Suelta, Va, HILOS
<1>2. Tomado(lista_mutex'[i]) => lista_mutex'[i].pid \in vivos
  <2>1. SUFFICES ASSUME Entrega(i) PROVE lista_mutex'[i].pid \in vivos
    BY DEF Libera, Suelta
  <2>2. /\ lista_mutex[i].colaEspera \in Seq(PIDS) /\ lista_mutex[i].colaEspera # <<>>
        /\ lista_mutex'[i].pid = Head(lista_mutex[i].colaEspera)
    BY <1>1, <2>1, UnMutex DEF Entrega
  <2>3. lista_mutex'[i].pid \in Esperan(lista_mutex[i])
    BY <2>2, SinElPrimero DEF Esperan
  <2>4. QED
    BY <1>1, <2>3, QuienEspera
<1>3. \A q : EnLlamada(q, "EXIT") => EnLlamada(q, "EXIT")'
  BY <1>1 DEF EnLlamada
<1>4. \A j \in DOMAIN lista_mutex' :
         j \in DOMAIN lista_mutex /\ (j # i => lista_mutex'[j] = lista_mutex[j])
  BY <1>1 DEF Cambia
<1>5. SinHuerfanos'
  BY <1>2, <1>3, <1>4 DEF SinHuerfanos, Repartidos
<1>6. ASSUME NEW e \in CPUS, manejador'[e].syscall = "EXIT", manejador'[e].paso # "morir",
             NEW j \in DOMAIN lista_mutex', j < manejador'[e].i, Tomado(lista_mutex'[j])
      PROVE  lista_mutex'[j].pid # manejador'[e].pid
  <2>1. manejador'[e].pid \notin vivos
    <3>1. CASE e = c
      BY <1>1, <3>1
    <3>2. CASE e # c
      <4>1. Hilo(e) /\ manejador'[e] = manejador[e]
        BY <1>1, <3>2 DEF Hilos, HILOS
      <4>2. QED
        BY <1>6, <4>1 DEF Hilo
    <3>3. QED
      BY <3>1, <3>2
  <2>2. CASE j = i
    BY <1>2, <1>6, <2>1, <2>2
  <2>3. CASE j # i /\ e # c
    BY <1>1, <1>4, <1>6, <2>3 DEF Repartidos
  <2>4. CASE j # i /\ e = c
    <3>1. j \in Nat /\ i \in Nat /\ manejador[c].i \in Nat /\ j < i
      <4>1. j \in Nat /\ i \in Nat
        BY <1>1, <1>4 DEF TypeOK
      <4>2. manejador[c] \in Atenciones
        BY DEF TypeOK, HILOS
      <4>3. j < i + 1
        BY <1>1, <1>6, <2>4
      <4>4. j < i
        BY <2>4, <4>1, <4>3
      <4>5. QED
        BY <4>1, <4>2, <4>4 DEF Atenciones
    <3>2. j \in DOMAIN lista_mutex /\ Tomado(lista_mutex[j]) /\ lista_mutex'[j] = lista_mutex[j]
      BY <1>4, <1>6, <2>4
    <3>3. CASE j < manejador[c].i
      BY <1>1, <2>4, <3>2, <3>3 DEF Repartidos
    <3>4. CASE j >= manejador[c].i
      BY <1>1, <2>4, <3>1, <3>2, <3>4 DEF Libera
    <3>5. QED
      BY <3>1, <3>3, <3>4
  <2>5. QED
    BY <2>2, <2>3, <2>4
<1>7. QED
  BY <1>5, <1>6 DEF Repartidos

\* The steps that write the list of mutexes, or the programs.
Escribe(c) ==
    \/ Exit(c) \/ LiberarPorMuerte(c) \/ Enviar(c)
    \/ \E n \in MUTEX : Crear(c, n) \/ Lock(c, n) \/ Unlock(c, n)

\* Every other step is one of those of Sosiego.
LEMMA SosiegoOEscribe ==
    ASSUME TypeOK, Hilos, Cuentas, Sitios, Heredero, Despiertos, Espera, Repartidos, Next
    PROVE  Sosiego \/ \E c \in CPUS : Escribe(c)
<1>1. CASE Planificador
  BY <1>1, SosiegoAjeno DEF Planificador, Escribe
<1>2. ASSUME NEW c \in CPUS, Programa(c) PROVE Sosiego \/ Escribe(c)
  BY <1>2, SosiegoBloquear DEF Programa, Escribe
<1>3. ASSUME NEW c \in CPUS, Atender(c) PROVE Sosiego \/ Escribe(c)
  BY <1>3, SosiegoBuscar, SosiegoBloquear, SosiegoResto DEF Atender, Escribe
<1>4. ASSUME NEW c \in CPUS, FinDeQuantum(c) PROVE Sosiego
  BY <1>4, SosiegoBloquear
<1>5. ASSUME NEW h \in HILOS, Despertar(h) PROVE Sosiego
  BY <1>5, SosiegoDespertar
<1>6. CASE FinSleep \/ \E p \in PIDS : NuevaMemoria(p) \/ Suspender(p)
  BY <1>6, SosiegoAjeno
<1>7. QED
  BY <1>1, <1>2, <1>3, <1>4, <1>5, <1>6 DEF Next

\* What the planner sends.
LEMMA EnviarEfecto ==
    ASSUME TypeOK, Hilos, Cuentas, Sitios, Espera, NEW c \in CPUS, Enviar(c)
    PROVE  LET p == planif.pcb IN
           /\ p \in EnPlanif /\ p \in PIDS /\ cpu[c] = Nadie
           /\ cpu' = [cpu EXCEPT ![c] = p] /\ planif' = SinProceso
           /\ pide' = [pide EXCEPT ![p] = Nadie]
           /\ tiene' = [tiene EXCEPT ![p] = @ \cup ({pide[p]} \ {Nadie})]
           /\ UNCHANGED <<prioridad, cola, sem, block, susp_block, susp_ready, cola_sleep,
                          lista_mutex, mutex_lista, manejador, vivos, caida>>
<1>1. planif.pcb \in EnPlanif
  BY DEF Enviar, EnPlanif, TypeOK
<1>2. planif.pcb \in PIDS
  BY <1>1, EnviadoNoEspera
<1>3. QED
  BY <1>1, <1>2 DEF Enviar, listas

\* Cuentas, Espera, Tienen and Repartidos together.
Reglas == Cuentas /\ Espera /\ Tienen /\ Repartidos

\* The steps that write mutexes or programs keep these four, one by one.
LEMMA ReglasCrear ==
    ASSUME TypeOK, Hilos, Reglas, NEW c \in CPUS, NEW n \in MUTEX, Crear(c, n)
    PROVE  Reglas'
<1>1. /\ Agrega(n) /\ Cuentas'
      /\ UNCHANGED <<cpu, block, susp_block, manejador, programa>>
  BY CrearPaso DEF Reglas, listas
<1>2. Espera'
  BY <1>1, EsperaAgrega DEF Reglas
<1>3. Tienen'
  BY <1>1, TienenAgrega DEF Reglas
<1>4. Repartidos'
  BY <1>1, RepartidosAgrega DEF Reglas
<1>5. QED
  BY <1>1, <1>2, <1>3, <1>4 DEF Reglas

LEMMA ReglasLock ==
    ASSUME TypeOK, Hilos, Sitios, Reglas, NEW c \in CPUS, NEW n \in MUTEX, Lock(c, n)
    PROVE  Reglas'
<1> DEFINE i == Indice(n)
<1>1. /\ manejador[c] = Libre /\ cpu[c] \in PIDS /\ Cuentas'
      /\ lista_mutex[i].nombre = n /\ n \notin tiene[cpu[c]]
      /\ UNCHANGED <<cpu, block, susp_block, vivos>>
      /\ \/ /\ Toma(i, cpu[c])
            /\ tiene' = [tiene EXCEPT ![cpu[c]] = @ \cup {n}]
            /\ UNCHANGED <<mutex_lista, manejador, pide>>
         \/ /\ Une(i, cpu[c])
            /\ pide' = [pide EXCEPT ![cpu[c]] = n]
            /\ Va(c, "MUTEX_LOCK", "en_exec", cpu[c], lista_mutex[i].pid)
            /\ UNCHANGED tiene
  <2>1. TypeOK /\ Hilos /\ Cuentas
    BY DEF Reglas
  <2>2. QED
    BY <2>1, LockPaso DEF listas
<1> HIDE DEF i
<1>2. cpu[c] \in vivos /\ c \in HILOS
  BY <1>1, SupuestosMutex DEF Sitios, Vivos, Ejecutando, HILOS
<1>3. CASE /\ Toma(i, cpu[c])
           /\ tiene' = [tiene EXCEPT ![cpu[c]] = @ \cup {n}]
           /\ UNCHANGED <<mutex_lista, manejador, pide>>
  <2>1. i \in DOMAIN lista_mutex /\ Cambia(i)
    BY <1>3 DEF Toma, Cambia
  <2>2. Espera'
    BY <1>1, <1>3, <2>1, EsperaToma DEF Reglas
  <2>3. Tienen'
    BY <1>1, <1>2, <1>3, <2>1, TienenToma DEF Reglas
  <2>4. ExitQuieto
    BY <1>3 DEF ExitQuieto
  <2>5. Repartidos'
    BY <1>1, <1>2, <1>3, <2>1, <2>4, RepartidosCambia DEF Reglas, Toma
  <2>6. QED
    BY <1>1, <2>2, <2>3, <2>5 DEF Reglas
<1>4. CASE /\ Une(i, cpu[c])
           /\ pide' = [pide EXCEPT ![cpu[c]] = n]
           /\ Va(c, "MUTEX_LOCK", "en_exec", cpu[c], lista_mutex[i].pid)
           /\ UNCHANGED tiene
  <2>1. i \in DOMAIN lista_mutex /\ Cambia(i)
    BY <1>4 DEF Une, Cambia
  <2>2. /\ manejador'[c].syscall = "MUTEX_LOCK" /\ manejador'[c].pid = cpu[c]
        /\ \A g \in HILOS : g # c => manejador'[g] = manejador[g]
    BY <1>4 DEF Va
  <2>3. Espera'
    BY <1>1, <1>4, <2>1, <2>2, EsperaUne DEF Reglas
  <2>4. Tienen'
    BY <1>1, <1>4, <2>1, TienenUne DEF Reglas
  <2>5. ExitQuieto
    BY <1>1, <2>2 DEF ExitQuieto, HILOS, Libre
  <2>6. Repartidos'
    BY <1>1, <1>4, <2>1, <2>5, RepartidosCambia DEF Reglas, Une
  <2>7. QED
    BY <1>1, <2>3, <2>4, <2>6 DEF Reglas
<1>5. QED
  BY <1>1, <1>3, <1>4

\* Who receives a mutex is alive.
LEMMA EntregaAVivo ==
    ASSUME TypeOK, Cuentas, Espera, NEW i, Entrega(i)
    PROVE  lista_mutex'[i].pid \in vivos /\ lista_mutex'[i].pid \in Esperan(lista_mutex[i])
<1>1. i \in DOMAIN lista_mutex
  BY DEF Entrega, Cambia
<1>2. /\ lista_mutex[i].colaEspera \in Seq(PIDS) /\ lista_mutex[i].colaEspera # <<>>
      /\ lista_mutex'[i].pid = Head(lista_mutex[i].colaEspera)
  BY <1>1, UnMutex DEF Entrega
<1>3. lista_mutex'[i].pid \in Esperan(lista_mutex[i])
  BY <1>2, SinElPrimero DEF Esperan
<1>4. QED
  BY <1>1, <1>3, QuienEspera

LEMMA ReglasUnlock ==
    ASSUME TypeOK, Hilos, Sitios, Reglas, NEW c \in CPUS, NEW n \in MUTEX, Unlock(c, n)
    PROVE  Reglas'
<1> DEFINE i == Indice(n)
<1>1. /\ manejador[c] = Libre /\ cpu[c] \in PIDS /\ Cuentas'
      /\ lista_mutex[i].nombre = n /\ n \in tiene[cpu[c]] /\ lista_mutex[i].pid = cpu[c]
      /\ tiene' = [tiene EXCEPT ![cpu[c]] = @ \ {n}]
      /\ UNCHANGED <<cpu, block, susp_block, vivos, pide>>
      /\ Entrega(i) \/ Suelta(i)
      /\ \E x, o : Va(c, "MUTEX_UNLOCK", x, cpu[c], o)
  <2>1. TypeOK /\ Hilos /\ Cuentas /\ Tienen
    BY DEF Reglas
  <2>2. QED
    BY <2>1, UnlockPaso DEF listas
<1> HIDE DEF i
<1>2. /\ i \in DOMAIN lista_mutex /\ Cambia(i)
  BY <1>1 DEF Entrega, Suelta, Cambia
<1>3. Ajenos /\ ExitQuieto
  BY <1>1 DEF Ajenos, ExitQuieto, Va, Libre, HILOS
<1>4. pide[cpu[c]] = Nadie
  BY <1>1, CorreSinPedir DEF Reglas
<1>5. \A q \in PIDS : \A k \in tiene[q] : k \in tiene'[q] \/ (q = cpu[c] /\ k = n)
  BY <1>1 DEF TypeOK
<1>6. \A q \in PIDS : \A k \in tiene'[q] : k \in tiene[q] /\ ~(q = cpu[c] /\ k = n)
  BY <1>1 DEF TypeOK
<1>7. Espera'
  BY <1>1, <1>2, <1>3, <1>4, <1>5, EsperaCede DEF Reglas
<1>8. Tienen'
  BY <1>1, <1>2, <1>6, TienenCede DEF Reglas
<1>9. Tomado(lista_mutex'[i]) => lista_mutex'[i].pid \in vivos
  BY <1>1, EntregaAVivo DEF Suelta, Reglas
<1>10. Repartidos'
  BY <1>1, <1>2, <1>3, <1>9, RepartidosCambia DEF Reglas
<1>11. QED
  BY <1>1, <1>7, <1>8, <1>10 DEF Reglas

LEMMA ReglasMuerte ==
    ASSUME TypeOK, Hilos, Sitios, Reglas, NEW c \in CPUS, LiberarPorMuerte(c)
    PROVE  Reglas'
<1>1. /\ manejador[c].paso = "muerte" /\ Cuentas'
      /\ UNCHANGED <<cpu, block, susp_block, vivos, pide, tiene>>
      /\ \E i \in DOMAIN lista_mutex : Libera(c, i)
  BY MuertePaso DEF Reglas, listas, programa
<1>2. PICK i \in DOMAIN lista_mutex : Libera(c, i)
  BY <1>1
<1>3. /\ Entrega(i) \/ Suelta(i)
      /\ lista_mutex[i].pid = manejador[c].pid
      /\ \E x, o : Va(c, "EXIT", x, manejador[c].pid, o)
  BY <1>2 DEF Libera
<1>4. /\ manejador[c].syscall = "EXIT" /\ manejador[c].pid \in PIDS \ vivos
  BY <1>1, LlamadaDe DEF HILOS
<1>5. Ajenos
  BY <1>3, <1>4 DEF Ajenos, Va, HILOS
<1>6. pide[manejador[c].pid] = Nadie
  BY <1>4, EsperaPartes DEF Reglas
<1>7. Espera'
  BY <1>1, <1>3, <1>5, <1>6, EsperaCede DEF Reglas
<1>8. \A q \in PIDS : \A k \in tiene'[q] : k \in tiene[q] /\ q # manejador[c].pid
  BY <1>1, <1>4 DEF Reglas, Tienen
<1>9. Tienen'
  BY <1>1, <1>3, <1>8, TienenCede DEF Reglas
<1>10. Repartidos'
  BY <1>1, <1>2, RepartidosMuerte DEF Reglas
<1>11. QED
  BY <1>1, <1>7, <1>9, <1>10 DEF Reglas

LEMMA ReglasExit ==
    ASSUME TypeOK, Hilos, Reglas, NEW c \in CPUS, Exit(c)
    PROVE  Reglas'
<1>1. /\ manejador[c] = Libre /\ cpu[c] \in PIDS
      /\ Va(c, "EXIT", "morir", cpu[c], Nadie)
      /\ cpu' = [cpu EXCEPT ![c] = Nadie]
      /\ vivos' = vivos \ {cpu[c]}
      /\ tiene' = [tiene EXCEPT ![cpu[c]] = {}]
      /\ UNCHANGED <<block, susp_block, lista_mutex, pide>>
  BY ExitEfecto DEF listas
<1>2. Cuentas'
  BY <1>1, MismosDuenios DEF Reglas
<1>3. Ajenos /\ \A e \in CPUS : cpu'[e] \in {cpu[e], Nadie}
  BY <1>1 DEF Ajenos, Va, Libre, HILOS, TypeOK
<1>4. Espera'
  BY <1>1, <1>3, EsperaExit DEF Reglas
<1>5. Tienen'
  BY <1>1, TienenExit DEF Reglas
<1>6. Repartidos'
  BY <1>1, RepartidosExit DEF Reglas
<1>7. QED
  BY <1>2, <1>4, <1>5, <1>6 DEF Reglas

LEMMA ReglasEnviar ==
    ASSUME TypeOK, Hilos, Sitios, Reglas, NEW c \in CPUS, Enviar(c)
    PROVE  Reglas'
<1> DEFINE p == planif.pcb
<1>1. /\ p \in EnPlanif
      /\ cpu' = [cpu EXCEPT ![c] = p]
      /\ pide' = [pide EXCEPT ![p] = Nadie]
      /\ tiene' = [tiene EXCEPT ![p] = @ \cup ({pide[p]} \ {Nadie})]
      /\ UNCHANGED <<block, susp_block, lista_mutex, manejador, vivos>>
  BY EnviarEfecto DEF Reglas
<1> HIDE DEF p
<1>2. Cuentas'
  BY <1>1, MismosDuenios DEF Reglas
<1>3. Espera'
  BY <1>1, EsperaEnviar DEF Reglas
<1>4. Tienen'
  BY <1>1, TienenEnviar DEF Reglas
<1>5. Repartidos'
  BY <1>1 DEF Reglas, Repartidos, SinHuerfanos, EnLlamada, Tomado
<1>6. QED
  BY <1>2, <1>3, <1>4, <1>5 DEF Reglas

\* Every step keeps the rules of the mutexes,
LEMMA PasoReglas ==
    ASSUME TypeOK, Hilos, Sitios, Heredero, Despiertos, Reglas, Next
    PROVE  Reglas'
<1>1. CASE Sosiego
  <2>1. Cuentas' /\ Espera' /\ Tienen' /\ Repartidos'
    BY <1>1, EsperaSosiego, RestoSosiego, MismosDuenios DEF Reglas, Sosiego
  <2>2. QED
    BY <2>1 DEF Reglas
<1>2. ASSUME NEW c \in CPUS, Escribe(c) PROVE Reglas'
  BY <1>2, ReglasExit, ReglasMuerte, ReglasEnviar, ReglasCrear, ReglasLock, ReglasUnlock DEF Escribe
<1>3. QED
  BY <1>1, <1>2, SosiegoOEscribe DEF Reglas

-----------------------------------------------------------------------------

\* the types and the places,
LEMMA PasoTipos ==
    ASSUME TypeOK, Hilos, Sitios, Heredero, Despiertos, Reglas, Next
    PROVE  TypeOK' /\ Sitios'
<1> USE DEF Reglas
<1>1. CASE Planificador
  BY <1>1, PasoPlanif
<1>2. ASSUME NEW c \in CPUS, Programa(c) PROVE TypeOK' /\ Sitios'
  <2>1. CASE Sleep(c)
    BY <2>1, PasoBloquear
  <2>2. CASE Exit(c)
    BY <2>2, PasoSalir
  <2>3. ASSUME NEW n \in MUTEX, Unlock(c, n) PROVE TypeOK' /\ Sitios'
    BY <2>3, UnlockSuyo, PasoLlamada
  <2>4. ASSUME NEW n \in MUTEX, Crear(c, n) \/ Lock(c, n) \/ LockNoExiste(c, n) \/ UnlockNoExiste(c, n)
        PROVE  TypeOK' /\ Sitios'
    BY <2>4, PasoLlamada
  <2>5. QED
    BY <1>2, <2>1, <2>2, <2>3, <2>4 DEF Programa
<1>3. ASSUME NEW c \in CPUS, Atender(c) PROVE TypeOK' /\ Sitios'
  <2>1. CASE \/ BuscarEnExec(c) \/ BuscarEnReady(c) \/ BuscarEnBlock(c) \/ BuscarEnSuspBlock(c)
             \/ BuscarEnSuspReady(c)
    BY <2>1, PasoBuscar
  <2>2. CASE Heredar(c) \/ Transitiva(c) \/ FinTransitiva(c)
    BY <2>2, PasoHeredar, PasoTransitiva, PasoFinTransitiva
  <2>3. CASE DejarCpu(c) \/ EntrarABlock(c)
    BY <2>3, PasoBloquear
  <2>4. CASE Recalcular(c) \/ Reponer(c) \/ EmpezarMuerte(c) \/ LiberarPorMuerte(c) \/ FinMuerte(c)
    BY <2>4, PasoResto
  <2>5. QED
    BY <1>3, <2>1, <2>2, <2>3, <2>4 DEF Atender
<1>4. ASSUME NEW c \in CPUS, FinDeQuantum(c) PROVE TypeOK' /\ Sitios'
  BY <1>4, PasoSalir
<1>5. ASSUME NEW h \in HILOS, Despertar(h) PROVE TypeOK' /\ Sitios'
  BY <1>5, PasoDespertar
<1>6. ASSUME FinSleep PROVE TypeOK' /\ Sitios'
  <2>1. Head(cola_sleep) \in PIDS
    BY <1>6, FinSleepEfecto
  <2>2. QED
    BY <1>6, <2>1, PasoAjeno
<1>7. ASSUME NEW p \in PIDS, NuevaMemoria(p) \/ Suspender(p) PROVE TypeOK' /\ Sitios'
  BY <1>7, PasoAjeno
<1>8. QED
  BY <1>1, <1>2, <1>3, <1>4, <1>5, <1>6, <1>7 DEF Next

\* and the step of each thread.
LEMMA PasoHilos ==
    ASSUME TypeOK, Hilos, Sitios, Heredero, Despiertos, Reglas, Next
    PROVE  Hilos'
<1> USE DEF Reglas
<1>1. CASE Esperar \/ Desencolar \/ DesencolarNada \/ \E p \in PIDS : Suspender(p)
  <2>1. UNCHANGED <<manejador, vivos, cpu, mutex_lista>>
    BY <1>1 DEF Esperar, Desencolar, DesencolarNada, Suspender, programa
  <2>2. QED
    BY <2>1, HilosQuietos
<1>2. ASSUME NEW c \in CPUS, Enviar(c) PROVE Hilos'
  <2>1. /\ cpu[c] = Nadie /\ UNCHANGED <<manejador, vivos, mutex_lista>>
        /\ \A e \in CPUS : e # c => cpu'[e] = cpu[e]
    BY <1>2 DEF Enviar, TypeOK
  <2>2. QED
    BY <2>1, HilosQuietos
<1>3. ASSUME NEW c \in CPUS, Programa(c) PROVE Hilos'
  <2>1. ASSUME NEW n \in MUTEX, Crear(c, n) PROVE Hilos'
    <3>1. UNCHANGED <<manejador, vivos, cpu, mutex_lista>>
      BY <2>1, CrearPaso DEF programa
    <3>2. QED
      BY <3>1, HilosQuietos
  <2>2. ASSUME NEW n \in MUTEX, Unlock(c, n) PROVE Hilos'
    BY <2>2, UnlockSuyo, HilosLlamadas
  <2>3. ASSUME NEW n \in MUTEX, Lock(c, n) PROVE Hilos'
    BY <2>3, HilosLlamadas
  <2>4. CASE Sleep(c) \/ Exit(c) \/ \E n \in MUTEX : LockNoExiste(c, n) \/ UnlockNoExiste(c, n)
    BY <2>4, HilosLlamadas
  <2>5. QED
    BY <1>3, <2>1, <2>2, <2>3, <2>4 DEF Programa
<1>4. ASSUME NEW c \in CPUS, Atender(c) \/ FinDeQuantum(c) PROVE Hilos'
  <2>1. CASE \/ BuscarEnExec(c) \/ BuscarEnReady(c) \/ BuscarEnBlock(c) \/ BuscarEnSuspBlock(c)
             \/ BuscarEnSuspReady(c) \/ Heredar(c) \/ Transitiva(c) \/ FinTransitiva(c)
    BY <2>1, HilosBuscar
  <2>2. CASE DejarCpu(c) \/ EntrarABlock(c) \/ FinDeQuantum(c)
    BY <2>2, HilosLlamadas
  <2>3. CASE Recalcular(c) \/ Reponer(c) \/ EmpezarMuerte(c) \/ LiberarPorMuerte(c) \/ FinMuerte(c)
    BY <2>3, HilosResto
  <2>4. QED
    BY <1>4, <2>1, <2>2, <2>3 DEF Atender
<1>5. ASSUME NEW h \in HILOS, Despertar(h) PROVE Hilos'
  BY <1>5, HilosDespertar
<1>6. CASE FinSleep \/ \E p \in PIDS : NuevaMemoria(p)
  BY <1>6, HilosResto
<1>7. QED
  BY <1>1, <1>2, <1>3, <1>4, <1>5, <1>6 DEF Next, Planificador

-----------------------------------------------------------------------------
(* The priorities.                                                           *)

\* The steps that may write a priority.
LEMMA QuienEscribePrioridad ==
    ASSUME Next
    PROVE  \/ UNCHANGED prioridad
           \/ \E c \in CPUS : \/ Heredar(c) \/ Transitiva(c) \/ Reponer(c) \/ LiberarPorMuerte(c)
                              \/ \E n \in MUTEX : Unlock(c, n)
<1>1. Planificador => UNCHANGED prioridad
  BY Zenon DEF Planificador, Esperar, Desencolar, DesencolarNada, Enviar
<1>2. \A c : FinDeQuantum(c) \/ Sleep(c) \/ Exit(c) => UNCHANGED prioridad
  BY Zenon DEF FinDeQuantum, Sleep, Exit
<1>3. \A c, n : Crear(c, n) \/ LockNoExiste(c, n) \/ UnlockNoExiste(c, n) => UNCHANGED prioridad
  BY Zenon DEF Crear, LockNoExiste, UnlockNoExiste, NoExiste
<1>4. \A c, n : Lock(c, n) => UNCHANGED prioridad
  BY Zenon DEF Lock, LockLibre, LockTomado
<1>5. \A c : (BuscarEnExec(c) \/ BuscarEnReady(c) \/ BuscarEnBlock(c)
                 \/ BuscarEnSuspBlock(c) \/ BuscarEnSuspReady(c)) => UNCHANGED prioridad
  BY Zenon DEF BuscarEnExec, BuscarEnReady, BuscarEnBlock, BuscarEnSuspBlock, BuscarEnSuspReady, BuscarEn
<1>6. \A c : (FinTransitiva(c) \/ DejarCpu(c) \/ EntrarABlock(c) \/ Recalcular(c)
                 \/ EmpezarMuerte(c) \/ FinMuerte(c)) => UNCHANGED prioridad
  BY Zenon DEF FinTransitiva, DejarCpu, EntrarABlock, Recalcular, EmpezarMuerte, FinMuerte
<1>7. \A h : Despertar(h) => UNCHANGED prioridad
  BY Zenon DEF Despertar, SacarDeBlock, Encolar, SacarDeSuspBlock, PonerEnSuspReady,
               SacarDeSuspReady, Desuspender
<1>8. FinSleep => UNCHANGED prioridad
  BY Zenon DEF FinSleep
<1>9. \A p : NuevaMemoria(p) \/ Suspender(p) => UNCHANGED prioridad
  BY Zenon DEF NuevaMemoria, Suspender
<1>10. \A c : Programa(c) => UNCHANGED prioridad \/ \E n \in MUTEX : Unlock(c, n)
  BY <1>2, <1>3, <1>4, Zenon DEF Programa
<1>11. \A c : Atender(c) => UNCHANGED prioridad \/ Heredar(c) \/ Transitiva(c) \/ Reponer(c)
                               \/ LiberarPorMuerte(c)
  <2>1. SUFFICES ASSUME NEW c, Atender(c)
                 PROVE  UNCHANGED prioridad \/ Heredar(c) \/ Transitiva(c) \/ Reponer(c)
                            \/ LiberarPorMuerte(c)
    OBVIOUS
  <2>2. QED
    BY <1>5, <1>6, <2>1 DEF Atender
<1>12. QED
  BY <1>1, <1>2, <1>7, <1>8, <1>9, <1>10, <1>11, Zenon DEF Next

\* Only the search in the ready queues takes an owner out to inherit.
LEMMA QuienSaca ==
    ASSUME TypeOK, Hilos, Sitios, Heredero, Despiertos, Reglas, Next, NEW c \in CPUS,
           manejador'[c].paso = "heredar", manejador'[c].sacado
    PROVE  manejador'[c] = manejador[c] \/ BuscarEnReady(c)
<1> USE DEF Reglas
<1> DEFINE Otro(h) == /\ \A g \in HILOS : g # h => manejador'[g] = manejador[g]
                      /\ ~manejador'[h].sacado \/ manejador'[h].paso # "heredar"
<1>0. c \in HILOS
  BY DEF HILOS
<1>1. Planificador \/ (\E p \in PIDS : Suspender(p)) => UNCHANGED manejador
  BY Zenon DEF Planificador, Esperar, Desencolar, DesencolarNada, Enviar, Suspender
<1>2. ASSUME NEW e \in CPUS, Programa(e) PROVE UNCHANGED manejador \/ Otro(e)
  <2>1. ASSUME NEW n \in MUTEX, Crear(e, n) PROVE UNCHANGED manejador
    BY <2>1, CrearPaso
  <2>2. ASSUME NEW n \in MUTEX, Unlock(e, n) PROVE Otro(e)
    BY <2>2, UnlockPaso DEF Va
  <2>3. ASSUME NEW n \in MUTEX, Lock(e, n) PROVE UNCHANGED manejador \/ Otro(e)
    BY <2>3, LockPaso DEF Va
  <2>4. ASSUME NEW n \in MUTEX, LockNoExiste(e, n) \/ UnlockNoExiste(e, n) PROVE Otro(e)
    BY <2>4, NoExisteEfecto DEF Va
  <2>5. CASE Sleep(e)
    BY <2>5, SleepEfecto DEF Va
  <2>6. CASE Exit(e)
    BY <2>6, ExitEfecto DEF Va
  <2>7. QED
    BY <1>2, <2>1, <2>2, <2>3, <2>4, <2>5, <2>6 DEF Programa
<1>3. ASSUME NEW e \in CPUS, Atender(e) \/ FinDeQuantum(e) PROVE BuscarEnReady(e) \/ Otro(e)
  <2>1. CASE BuscarEnExec(e) \/ BuscarEnBlock(e) \/ BuscarEnSuspBlock(e) \/ BuscarEnSuspReady(e)
    BY <2>1, BuscaEfecto DEF Va
  <2>2. CASE Heredar(e)
    BY <2>2, HeredarEfecto DEF Va
  <2>3. CASE Transitiva(e)
    BY <2>3, TransitivaEfecto DEF Va
  <2>4. CASE FinTransitiva(e)
    BY <2>4, FinTransitivaEfecto DEF Va
  <2>5. CASE DejarCpu(e)
    BY <2>5, DejarCpuEfecto DEF Va
  <2>6. CASE EntrarABlock(e)
    BY <2>6, EntrarABlockEfecto DEF Va
  <2>7. CASE Recalcular(e)
    BY <2>7, RecalcularEfecto DEF Va
  <2>8. CASE Reponer(e)
    BY <2>8, ReponerEfecto DEF Va
  <2>9. CASE EmpezarMuerte(e)
    BY <2>9, EmpezarMuerteEfecto DEF Va
  <2>10. CASE LiberarPorMuerte(e)
    BY <2>10, MuertePaso DEF Va, Libera
  <2>11. CASE FinMuerte(e)
    BY <2>11, FinMuerteEfecto DEF Va
  <2>12. CASE FinDeQuantum(e)
    BY <2>12, FinDeQuantumEfecto DEF Va
  <2>13. QED
    BY <1>3, <2>1, <2>2, <2>3, <2>4, <2>5, <2>6, <2>7, <2>8, <2>9, <2>10, <2>11, <2>12 DEF Atender
<1>4. ASSUME NEW h \in HILOS, Despertar(h) PROVE Otro(h)
  BY <1>4, SacarDeBlockEfecto, EncolarEfecto, SacarDeSuspBlockEfecto, PonerEnSuspReadyEfecto,
     SacarDeSuspReadyEfecto, DesuspenderEfecto DEF Despertar, Prosiguio, Despertando, Va
<1>5. FinSleep => Otro(Io)
  BY FinSleepEfecto DEF Va
<1>6. ASSUME NEW p \in PIDS, NuevaMemoria(p) PROVE Otro(Escucha)
  BY <1>6, NuevaMemoriaEfecto DEF Va
<1>7. \A e \in CPUS : BuscarEnReady(e) /\ e # c => manejador'[c] = manejador[c]
  BY <1>0, BuscaReadyEfecto DEF Va
<1>8. \A h : Otro(h) => manejador'[c] = manejador[c]
  BY <1>0
<1> HIDE DEF Otro
<1>9. QED
  BY <1>1, <1>2, <1>3, <1>4, <1>5, <1>6, <1>7, <1>8 DEF Next

\* While an owner is out of its queue to inherit, nobody writes its priority.
LEMMA PrioridadQuieta ==
    ASSUME TypeOK, Hilos, Sitios, Heredero, Despiertos, Reglas, Next, NEW c \in CPUS,
           manejador[c].paso = "heredar", manejador[c].sacado, manejador'[c] = manejador[c]
    PROVE  /\ prioridad'[manejador[c].otro] = prioridad[manejador[c].otro]
           /\ prioridad'[manejador[c].pid] = prioridad[manejador[c].pid]
<1> USE DEF Reglas
<1>1. c \in HILOS /\ c # Nadie /\ Nadie \notin PIDS
  BY SupuestosMutex DEF HILOS
<1>2. /\ mutex_lista = c /\ manejador[c].pid \in PIDS /\ manejador[c].otro \in PIDS
      /\ cpu[c] = manejador[c].pid
  BY <1>1, LlamadaDe DEF BUSCANDO
<1>3. manejador[c].otro \in Mano(c)
  BY DEF Mano
<1>4. manejador[c].otro \notin Ejecutando
  BY <1>1, <1>3, NoCorre
<1>5. ASSUME NEW e \in CPUS, Heredar(e) PROVE FALSE
  <2>1. manejador[e].paso = "heredar" /\ e \in HILOS
        /\ manejador'[e].paso \in {"transitiva", "dejar_cpu"}
    BY <1>5, HeredarEfecto DEF HILOS
  <2>2. e = c
    BY <1>2, <2>1, LlamadaDe DEF BUSCANDO
  <2>3. QED
    BY <2>1, <2>2
<1>6. ASSUME NEW e \in CPUS, Transitiva(e) PROVE FALSE
  <2>1. manejador[e].paso = "transitiva" /\ e \in HILOS
    BY <1>6, TransitivaEfecto DEF HILOS
  <2>2. e = c
    BY <1>2, <2>1, LlamadaDe DEF BUSCANDO
  <2>3. QED
    BY <2>1, <2>2
<1>7. ASSUME NEW e \in CPUS, LiberarPorMuerte(e) PROVE FALSE
  <2>1. manejador[e].paso = "muerte" /\ e \in HILOS
    BY <1>7, MuertePaso DEF HILOS
  <2>2. e = c
    BY <1>2, <2>1, LlamadaDe
  <2>3. QED
    BY <2>1, <2>2
<1>8. ASSUME NEW e \in CPUS, NEW n \in MUTEX, Unlock(e, n) PROVE FALSE
  BY <1>1, <1>2, <1>8, UnlockPaso
<1>9. ASSUME NEW e \in CPUS, Reponer(e)
      PROVE  /\ prioridad'[manejador[c].otro] = prioridad[manejador[c].otro]
             /\ prioridad'[manejador[c].pid] = prioridad[manejador[c].pid]
  <2>1. /\ manejador[e].paso = "reponer" /\ e \in HILOS /\ e # c
        /\ prioridad' = [prioridad EXCEPT ![manejador[e].pid] = manejador[e].nueva]
    BY <1>9, ReponerEfecto DEF HILOS
  <2>2. manejador[e].pid \in PIDS /\ cpu[e] = manejador[e].pid
    BY <2>1, LlamadaDe
  <2>3. manejador[e].pid # manejador[c].pid
    BY <1>1, <1>2, <2>1, <2>2 DEF Sitios, CpusSueltas
  <2>4. manejador[e].pid # manejador[c].otro
    BY <1>1, <1>4, <2>2 DEF Ejecutando
  <2>5. QED
    BY <1>2, <2>1, <2>3, <2>4 DEF TypeOK
<1>10. QED
  BY <1>5, <1>6, <1>7, <1>8, <1>9, QuienEscribePrioridad

\* An owner taken out of its queue does inherit.
LEMMA PasoHeredero ==
    ASSUME TypeOK, Hilos, Sitios, Heredero, Despiertos, Reglas, Next
    PROVE  Heredero'
<1>1. SUFFICES ASSUME NEW c \in CPUS, manejador'[c].paso = "heredar", manejador'[c].sacado
               PROVE  prioridad'[manejador'[c].otro] > prioridad'[manejador'[c].pid]
  BY DEF Heredero
<1>2. CASE manejador'[c] = manejador[c]
  BY <1>1, <1>2, PrioridadQuieta DEF Heredero
<1>3. CASE BuscarEnReady(c)
  <2> DEFINE p == manejador[c].pid
             d == manejador[c].otro
  <2>1. /\ Va(c, "MUTEX_LOCK", manejador'[c].paso, p, d)
        /\ manejador'[c].sacado => prioridad[p] < prioridad[d]
        /\ UNCHANGED prioridad
        /\ manejador[c].paso = "en_ready"
    BY <1>3, BuscaReadyEfecto DEF Fijos
  <2>2. p \in PIDS /\ d \in PIDS
    BY <2>1, LlamadaDe DEF BUSCANDO, HILOS
  <2>3. prioridad[p] \in Int /\ prioridad[d] \in Int
    BY <2>2 DEF TypeOK, PRIORIDADES
  <2>4. manejador'[c].otro = d /\ manejador'[c].pid = p
    BY <2>1 DEF Va
  <2> HIDE DEF p, d
  <2>5. QED
    BY <1>1, <2>1, <2>3, <2>4
<1>4. QED
  BY <1>1, <1>2, <1>3, QuienSaca

-----------------------------------------------------------------------------
(* Who is being woken.                                                       *)

\* The steps at which a process that is being woken is still in a list of the blocked ones.
PORSACAR == {"sacar", "de_susp_block", "pedir_desuspender"}

\* Who h looks for is where it looks.
Busca(h) ==
    LET m == manejador[h] IN
    /\ m.paso = "sacar" => m.otro \in block \cup susp_block
    /\ m.paso = "de_susp_block" => m.otro \in susp_block
    /\ m.paso = "pedir_desuspender" => m.otro \in susp_ready \cap SIN_MEMORIA
    /\ m.paso \in {"sacar", "de_susp_block"} => m.otro \notin EnEspera \cup ToSet(cola_sleep)

\* The processes at SLEEP are blocked, each once, and wait for no mutex.
Duermen ==
    /\ IsInjective(cola_sleep)
    /\ \A p \in ToSet(cola_sleep) : p \in block \cup susp_block /\ pide[p] = Nadie

\* Despiertos in its parts.
LEMMA DespiertosPartes ==
    Despiertos <=> /\ \A h \in HILOS : Busca(h)
                   /\ \A h, g \in HILOS :
                         /\ manejador[h].paso \in PORSACAR /\ manejador[g].paso \in PORSACAR
                         /\ manejador[h].otro = manejador[g].otro
                         => h = g
                   /\ Duermen
BY DEF Despiertos, Busca, Duermen, PORSACAR

LEMMA DespiertosPartesDespues ==
    ASSUME \A h \in HILOS : Busca(h)',
           \A h, g \in HILOS :
               /\ manejador'[h].paso \in PORSACAR /\ manejador'[g].paso \in PORSACAR
               /\ manejador'[h].otro = manejador'[g].otro
               => h = g,
           Duermen'
    PROVE  Despiertos'
BY DEF Despiertos, Busca, Duermen, PORSACAR

\* Who leaves a list is the one that h was looking for.
LEMMA DespiertosDe ==
    ASSUME Despiertos, NEW h \in HILOS,
           \A g \in HILOS : g # h => manejador'[g] = manejador[g],
           \A p \in block \cup susp_block : p \in block' \cup susp_block'
                \/ (manejador[h].paso \in PORSACAR /\ p = manejador[h].otro),
           \A p \in susp_block : p \in susp_block'
                \/ (manejador[h].paso \in PORSACAR /\ p = manejador[h].otro),
           \A p \in susp_ready \cap SIN_MEMORIA : p \in susp_ready'
                \/ (manejador[h].paso \in PORSACAR /\ p = manejador[h].otro),
           \A p \in EnEspera' \cup ToSet(cola_sleep') :
                p \in EnEspera \cup ToSet(cola_sleep) \/ p \notin block \cup susp_block,
           Busca(h)',
           \A g \in HILOS :
               /\ g # h /\ manejador'[h].paso \in PORSACAR /\ manejador[g].paso \in PORSACAR
               => manejador[g].otro # manejador'[h].otro,
           Duermen'
    PROVE  Despiertos'
<1>1. ASSUME NEW g \in HILOS, g # h PROVE Busca(g)'
  <2>1. Busca(g) /\ manejador'[g] = manejador[g]
    BY <1>1, DespiertosPartes
  <2>2. manejador[g].paso \in PORSACAR =>
            ~(manejador[h].paso \in PORSACAR /\ manejador[g].otro = manejador[h].otro)
    BY <1>1, DespiertosPartes
  <2>3. QED
    BY <2>1, <2>2 DEF Busca, PORSACAR
<1>2. ASSUME NEW e \in HILOS, NEW g \in HILOS,
             manejador'[e].paso \in PORSACAR, manejador'[g].paso \in PORSACAR,
             manejador'[e].otro = manejador'[g].otro
      PROVE  e = g
  BY <1>2, DespiertosPartes
<1>3. \A g \in HILOS : Busca(g)'
  BY <1>1
<1>4. QED
  BY <1>2, <1>3, DespiertosPartesDespues

\* Nobody changes list, and nobody begins to wake anybody.
LEMMA DespiertosQuietos ==
    ASSUME Despiertos, NEW h \in HILOS,
           \A g \in HILOS : g # h => manejador'[g] = manejador[g],
           manejador'[h] = manejador[h] \/ manejador'[h].paso \notin PORSACAR,
           UNCHANGED <<block, susp_block, susp_ready, cola_sleep>>,
           EnEspera' = EnEspera,
           \A p \in ToSet(cola_sleep) : pide[p] = Nadie => pide'[p] = Nadie
    PROVE  Despiertos'
<1>1. Duermen'
  BY DespiertosPartes DEF Duermen
<1>2. Busca(h)'
  BY DespiertosPartes DEF Busca, PORSACAR
<1>3. \A g \in HILOS :
         /\ g # h /\ manejador'[h].paso \in PORSACAR /\ manejador[g].paso \in PORSACAR
         => manejador[g].otro # manejador'[h].otro
  BY DespiertosPartes
<1>4. QED
  BY <1>1, <1>2, <1>3, DespiertosDe

-----------------------------------------------------------------------------

\* The search for the owner wakes nobody.
LEMMA DespiertosBuscar ==
    ASSUME TypeOK, Hilos, Heredero, Despiertos, NEW c \in CPUS,
           \/ BuscarEnExec(c) \/ BuscarEnReady(c) \/ BuscarEnBlock(c) \/ BuscarEnSuspBlock(c)
           \/ BuscarEnSuspReady(c) \/ Heredar(c) \/ Transitiva(c) \/ FinTransitiva(c)
    PROVE  Despiertos'
<1>1. c \in HILOS
  BY DEF HILOS
<1>2. /\ \E x \in PASOS \ PORSACAR : Va(c, "MUTEX_LOCK", x, manejador[c].pid, manejador[c].otro)
      /\ UNCHANGED <<listas, lista_mutex, programa>>
  <2>1. CASE BuscarEnExec(c) \/ BuscarEnBlock(c) \/ BuscarEnSuspBlock(c) \/ BuscarEnSuspReady(c)
    BY <2>1, BuscaEfecto DEF Fijos, BUSCANDO, PASOS, PORSACAR
  <2>2. CASE BuscarEnReady(c)
    BY <2>2, BuscaReadyEfecto DEF Fijos, PASOS, PORSACAR
  <2>3. CASE Heredar(c)
    BY <2>3, HeredarEfecto DEF PASOS, PORSACAR
  <2>4. CASE Transitiva(c)
    BY <2>4, TransitivaEfecto DEF PASOS, PORSACAR
  <2>5. CASE FinTransitiva(c)
    BY <2>5, FinTransitivaEfecto DEF Fijos, PASOS, PORSACAR
  <2>6. QED
    BY <2>1, <2>2, <2>3, <2>4, <2>5
<1>3. QED
  BY <1>1, <1>2, MismosDuenios, DespiertosQuietos DEF Va, listas, programa

\* Neither do the steps that block or end a process.
LEMMA DespiertosBloquear ==
    ASSUME TypeOK, Hilos, Sitios, Despiertos, Espera, NEW c \in CPUS,
           \/ DejarCpu(c) \/ EntrarABlock(c) \/ Sleep(c) \/ FinDeQuantum(c) \/ Exit(c)
           \/ \E n : LockNoExiste(c, n) \/ UnlockNoExiste(c, n)
    PROVE  Despiertos'
<1>1. c \in HILOS
  BY DEF HILOS
<1>2. CASE \/ DejarCpu(c) \/ Sleep(c) \/ FinDeQuantum(c) \/ Exit(c)
           \/ \E n : LockNoExiste(c, n) \/ UnlockNoExiste(c, n)
  <2>1. /\ \E s, x, p, o : x \notin PORSACAR /\ Va(c, s, x, p, o)
        /\ UNCHANGED <<listas, lista_mutex, pide>>
    <3>1. CASE DejarCpu(c)
      BY <3>1, DejarCpuEfecto DEF PORSACAR, programa
    <3>2. CASE Sleep(c)
      BY <3>2, SleepEfecto DEF Fijos, PORSACAR, programa
    <3>3. CASE FinDeQuantum(c)
      BY <3>3, FinDeQuantumEfecto DEF PORSACAR, programa
    <3>4. CASE Exit(c)
      BY <3>4, ExitEfecto DEF PORSACAR
    <3>5. ASSUME NEW n, LockNoExiste(c, n) \/ UnlockNoExiste(c, n)
          PROVE  /\ \E s, x, p, o : x \notin PORSACAR /\ Va(c, s, x, p, o)
                 /\ UNCHANGED <<listas, lista_mutex, pide>>
      BY <3>5, NoExisteEfecto DEF Fijos, PORSACAR, programa
    <3>6. QED
      BY <1>2, <3>1, <3>2, <3>3, <3>4, <3>5
  <2>2. QED
    BY <1>1, <2>1, MismosDuenios, DespiertosQuietos DEF Va, listas
<1>3. CASE EntrarABlock(c)
  <2> DEFINE p == manejador[c].pid
  <2>1. /\ manejador[c].paso = "a_block" /\ p \in PIDS
        /\ Va(c, "ninguna", "recibir", Nadie, Nadie)
        /\ block' = block \cup {p}
        /\ cola_sleep' = IF manejador[c].syscall = "SLEEP"
                         THEN Append(cola_sleep, p) ELSE cola_sleep
        /\ UNCHANGED <<susp_block, susp_ready, lista_mutex, pide>>
    BY <1>3, EntrarABlockEfecto DEF programa
  <2>2. ~manejador[c].sacado
    BY <1>1, <2>1, LlamadaDe
  <2>3. p \in Mano(c)
    BY <2>1, <2>2 DEF Mano
  <2>4. p \notin block \cup susp_block
    BY <1>1, <2>3, NoCorre
  <2>5. manejador[c].syscall = "SLEEP" => pide[p] = Nadie
    BY DEF Espera
  <2>6. p \notin ToSet(cola_sleep)
    BY <2>4, DespiertosPartes DEF Duermen
  <2>7. cola_sleep \in Seq(PIDS) /\ IsInjective(cola_sleep)
    BY DespiertosPartes DEF TypeOK, Duermen
  <2> HIDE DEF p
  <2>8. /\ IsInjective(cola_sleep')
        /\ ToSet(cola_sleep') = IF manejador[c].syscall = "SLEEP"
                                THEN ToSet(cola_sleep) \cup {p} ELSE ToSet(cola_sleep)
    BY ZenonT(60), <2>1, <2>6, <2>7, AlFinal
  <2>9. Duermen'
    BY <2>1, <2>5, <2>8, DespiertosPartes DEF Duermen
  <2>10. Busca(c)' /\ manejador'[c].paso \notin PORSACAR
    BY <2>1 DEF Busca, Va, PORSACAR
  <2>11. QED
    BY <1>1, <2>1, <2>4, <2>8, <2>9, <2>10, MismosDuenios, DespiertosDe DEF Va
<1>4. QED
  BY <1>2, <1>3

\* The steps of a thread that wakes a process take it out of the list where it was.
LEMMA DespiertosDespertar ==
    ASSUME TypeOK, Hilos, Sitios, Despiertos, NEW h \in HILOS, Despertar(h)
    PROVE  Despiertos'
<1> DEFINE d == manejador[h].otro
<1>1. Duermen /\ Busca(h)
  BY DespiertosPartes
<1>2. CASE SacarDeBlock(h)
  <2>1. /\ manejador[h].paso = "sacar"
        /\ block' = block \ {d}
        /\ Despertando(h, IF d \in block THEN "encolar" ELSE "de_susp_block")
        /\ UNCHANGED <<susp_block, susp_ready, cola_sleep, lista_mutex, pide>>
    BY <1>2, SacarDeBlockEfecto DEF programa
  <2>2. d \in block \cup susp_block /\ d \notin EnEspera \cup ToSet(cola_sleep)
    BY <1>1, <2>1 DEF Busca
  <2>3. /\ manejador'[h].otro = d /\ \A g \in HILOS : g # h => manejador'[g] = manejador[g]
        /\ manejador'[h].paso = IF d \in block THEN "encolar" ELSE "de_susp_block"
    BY <2>1 DEF Despertando, Va
  <2>4. EnEspera' = EnEspera
    BY <2>1, MismosDuenios
  <2>5. Busca(h)'
    BY <2>1, <2>2, <2>3, <2>4 DEF Busca
  <2>6. Duermen'
    BY <1>1, <2>1, <2>2 DEF Duermen
  <2>7. manejador[h].paso \in PORSACAR
    BY <2>1 DEF PORSACAR
  <2>8. \A g \in HILOS : g # h /\ manejador[g].paso \in PORSACAR => manejador[g].otro # d
    BY <2>7, DespiertosPartes
  <2> HIDE DEF d
  <2>9. QED
    BY <2>1, <2>3, <2>4, <2>5, <2>6, <2>7, <2>8, DespiertosDe DEF d
<1>3. CASE SacarDeSuspBlock(h)
  <2>1. /\ manejador[h].paso = "de_susp_block"
        /\ susp_block' = susp_block \ {d}
        /\ Despertando(h, "a_susp_ready")
        /\ UNCHANGED <<block, susp_ready, cola_sleep, lista_mutex, pide>>
    BY <1>3, SacarDeSuspBlockEfecto DEF programa
  <2>2. d \notin EnEspera \cup ToSet(cola_sleep)
    BY <1>1, <2>1 DEF Busca
  <2>3. /\ \A g \in HILOS : g # h => manejador'[g] = manejador[g]
        /\ manejador'[h].paso = "a_susp_ready"
    BY <2>1 DEF Despertando, Va
  <2>4. Busca(h)' /\ manejador[h].paso \in PORSACAR /\ manejador'[h].paso \notin PORSACAR
    BY <2>1, <2>3 DEF Busca, PORSACAR
  <2>5. Duermen'
    BY <1>1, <2>1, <2>2 DEF Duermen
  <2>6. QED
    BY <2>1, <2>3, <2>4, <2>5, MismosDuenios, DespiertosDe
<1>4. CASE PonerEnSuspReady(h)
  <2>1. /\ manejador[h].paso = "a_susp_ready"
        /\ susp_ready' = susp_ready \cup {d}
        /\ \/ d \in SIN_MEMORIA /\ Despertando(h, "pedir_desuspender")
           \/ Prosiguio(h)
        /\ UNCHANGED <<block, susp_block, cola_sleep, lista_mutex, pide>>
    BY <1>4, PonerEnSuspReadyEfecto DEF programa
  <2>2. d \in Mano(h)
    BY <2>1 DEF Mano
  <2>3. d \notin block \cup susp_block \cup susp_ready
    BY <2>2, NoCorre
  <2>4. /\ \A g \in HILOS : g # h => manejador'[g] = manejador[g]
        /\ manejador'[h].paso \in PORSACAR =>
              manejador'[h].paso = "pedir_desuspender" /\ manejador'[h].otro = d /\ d \in SIN_MEMORIA
    BY <2>1 DEF Despertando, Prosiguio, Va, PORSACAR
  <2>5. Busca(h)'
    BY <2>1, <2>4 DEF Busca, PORSACAR
  <2>6. Duermen'
    BY <1>1, <2>1 DEF Duermen
  <2>7. \A g \in HILOS : manejador[g].paso \in PORSACAR => manejador[g].otro # d
    BY <2>3, DespiertosPartes DEF Busca, PORSACAR
  <2> HIDE DEF d
  <2>8. QED
    BY <2>1, <2>4, <2>5, <2>6, <2>7, MismosDuenios, DespiertosDe
<1>5. CASE SacarDeSuspReady(h)
  <2>1. /\ manejador[h].paso = "pedir_desuspender"
        /\ susp_ready' = susp_ready \ {d}
        /\ Despertando(h, "desuspender")
        /\ UNCHANGED <<block, susp_block, cola_sleep, lista_mutex, pide>>
    BY <1>5, SacarDeSuspReadyEfecto DEF programa
  <2>2. /\ \A g \in HILOS : g # h => manejador'[g] = manejador[g]
        /\ manejador'[h].paso = "desuspender"
    BY <2>1 DEF Despertando, Va
  <2>3. Busca(h)' /\ manejador[h].paso \in PORSACAR /\ manejador'[h].paso \notin PORSACAR
    BY <2>1, <2>2 DEF Busca, PORSACAR
  <2>4. Duermen'
    BY <1>1, <2>1 DEF Duermen
  <2>5. QED
    BY <2>1, <2>2, <2>3, <2>4, MismosDuenios, DespiertosDe
<1>6. CASE Encolar(h) \/ Desuspender(h)
  <2>1. Prosiguio(h) /\ UNCHANGED <<listas, lista_mutex, pide>>
    BY <1>6, EncolarEfecto, DesuspenderEfecto DEF programa
  <2>2. /\ \A g \in HILOS : g # h => manejador'[g] = manejador[g]
        /\ manejador'[h].paso \notin PORSACAR
    BY <2>1 DEF Prosiguio, Va, PORSACAR
  <2>3. QED
    BY <2>1, <2>2, MismosDuenios, DespiertosQuietos DEF listas
<1>7. QED
  BY <1>2, <1>3, <1>4, <1>5, <1>6 DEF Despertar

\* The planner wakes nobody: whom it sends does not sleep.
LEMMA DespiertosPlanif ==
    ASSUME TypeOK, Hilos, Cuentas, Sitios, Despiertos, Espera, Planificador
    PROVE  Despiertos'
<1>1. UNCHANGED <<manejador, listas, lista_mutex>>
  BY Zenon DEF Planificador, Esperar, Desencolar, DesencolarNada, Enviar
<1>2. \A p \in ToSet(cola_sleep) : pide[p] = Nadie => pide'[p] = Nadie
  <2>1. CASE Esperar \/ Desencolar \/ DesencolarNada
    BY <2>1 DEF Esperar, Desencolar, DesencolarNada, programa
  <2>2. ASSUME NEW c \in CPUS, Enviar(c)
        PROVE  \A p \in ToSet(cola_sleep) : pide[p] = Nadie => pide'[p] = Nadie
    <3>1. planif.pcb \in PIDS /\ pide' = [pide EXCEPT ![planif.pcb] = Nadie]
      BY <2>2, EnviarEfecto
    <3>2. QED
      BY <3>1 DEF TypeOK
  <2>3. QED
    BY <2>1, <2>2 DEF Planificador
<1>3. Io \in HILOS
  BY DEF HILOS
<1>4. QED
  BY <1>1, <1>2, <1>3, MismosDuenios, DespiertosQuietos DEF listas

\* A notice of memory names a process that no other thread is to resume: here alone the
\* hypothesis is needed.
LEMMA DespiertosAjeno ==
    ASSUME SIN_MEMORIA \cap AVISADOS = {}, TypeOK, Hilos, Sitios, Despiertos, Cuentas, Espera,
           FinSleep \/ \E p \in PIDS : NuevaMemoria(p) \/ Suspender(p)
    PROVE  Despiertos'
<1>1. Duermen /\ Io \in HILOS /\ Escucha \in HILOS
  BY DespiertosPartes DEF HILOS
<1>2. ASSUME NEW p \in PIDS, NuevaMemoria(p) PROVE Despiertos'
  <2>1. /\ p \in AVISADOS /\ susp_ready' = susp_ready \ {p}
        /\ Va(Escucha, "AVISO", "desuspender", Nadie, p)
        /\ UNCHANGED <<block, susp_block, cola_sleep, lista_mutex, pide>>
    BY <1>2, NuevaMemoriaEfecto DEF programa
  <2>2. /\ \A g \in HILOS : g # Escucha => manejador'[g] = manejador[g]
        /\ manejador'[Escucha].paso = "desuspender"
    BY <2>1 DEF Va
  <2>3. Busca(Escucha)' /\ manejador'[Escucha].paso \notin PORSACAR
    BY <2>2 DEF Busca, PORSACAR
  <2>4. Duermen'
    BY <1>1, <2>1 DEF Duermen
  <2>5. \A q \in susp_ready \cap SIN_MEMORIA : q \in susp_ready'
    BY <2>1
  <2>6. QED
    BY <1>1, <2>1, <2>2, <2>3, <2>4, <2>5, MismosDuenios, DespiertosDe
<1>3. ASSUME NEW p \in PIDS, Suspender(p) PROVE Despiertos'
  <2>1. /\ block' = block \ {p} /\ susp_block' = susp_block \cup {p}
        /\ p \in block
        /\ UNCHANGED <<susp_ready, cola_sleep, lista_mutex, pide, manejador>>
    BY <1>3 DEF Suspender, programa
  <2>2. block' \cup susp_block' = block \cup susp_block /\ susp_block \subseteq susp_block'
    BY <2>1
  <2>3. EnEspera' = EnEspera
    BY <2>1, MismosDuenios
  <2>4. Busca(Io)'
    BY <1>1, <2>1, <2>2, <2>3, DespiertosPartes DEF Busca
  <2>5. Duermen'
    BY <1>1, <2>1, <2>2 DEF Duermen
  <2>6. \A g \in HILOS :
           /\ g # Io /\ manejador'[Io].paso \in PORSACAR /\ manejador[g].paso \in PORSACAR
           => manejador[g].otro # manejador'[Io].otro
    BY <1>1, <2>1, DespiertosPartes
  <2>7. QED
    BY <1>1, <2>1, <2>2, <2>3, <2>4, <2>5, <2>6, DespiertosDe
<1>4. CASE FinSleep
  <2> DEFINE d == Head(cola_sleep)
  <2>1. /\ cola_sleep # <<>> /\ cola_sleep' = Tail(cola_sleep)
        /\ Va(Io, "FINALIZAR_SLEEP", "sacar", Nadie, d)
        /\ UNCHANGED <<block, susp_block, susp_ready, lista_mutex, pide>>
    BY <1>4, FinSleepEfecto DEF programa
  <2>2. /\ ToSet(cola_sleep) = ToSet(cola_sleep') \cup {d}
        /\ IsInjective(cola_sleep') /\ d \notin ToSet(cola_sleep')
    BY <1>1, <2>1, SinElPrimero DEF TypeOK, Duermen
  <2>3. d \in block \cup susp_block /\ pide[d] = Nadie
    BY <1>1, <2>2 DEF Duermen
  <2>4. d \notin EnEspera /\ EnEspera' = EnEspera
    BY <2>1, <2>3, QuienEspera, MismosDuenios DEF EnEspera
  <2>5. /\ \A g \in HILOS : g # Io => manejador'[g] = manejador[g]
        /\ manejador'[Io].paso = "sacar" /\ manejador'[Io].otro = d
    BY <2>1 DEF Va
  <2>6. Busca(Io)'
    BY <2>1, <2>2, <2>3, <2>4, <2>5 DEF Busca
  <2>7. Duermen'
    BY <1>1, <2>1, <2>2 DEF Duermen
  <2>8. susp_ready \cap (block \cup susp_block) = {}
    BY DEF Sitios, Disjuntos
  <2>9. \A g \in HILOS : manejador[g].paso \in PORSACAR => manejador[g].otro # d
    BY <2>2, <2>3, <2>8, DespiertosPartes DEF Busca, PORSACAR
  <2> HIDE DEF d
  <2>10. QED
    BY <1>1, <2>1, <2>2, <2>4, <2>5, <2>6, <2>7, <2>9, DespiertosDe
<1>5. QED
  BY <1>2, <1>3, <1>4

\* The rest of MUTEX_UNLOCK and of EXIT wakes nobody.
LEMMA DespiertosResto ==
    ASSUME TypeOK, Hilos, Despiertos, NEW c \in CPUS,
           Recalcular(c) \/ Reponer(c) \/ EmpezarMuerte(c) \/ FinMuerte(c)
    PROVE  Despiertos'
<1>1. /\ \E s, x, p, o : x \notin PORSACAR /\ Va(c, s, x, p, o)
      /\ UNCHANGED <<listas, lista_mutex, pide>>
  <2>1. CASE Recalcular(c)
    BY <2>1, RecalcularEfecto DEF Fijos, PORSACAR, programa
  <2>2. CASE Reponer(c)
    BY <2>2, ReponerEfecto DEF PORSACAR, programa
  <2>3. CASE EmpezarMuerte(c)
    BY <2>3, EmpezarMuerteEfecto DEF PORSACAR, programa
  <2>4. CASE FinMuerte(c)
    BY <2>4, FinMuerteEfecto DEF PORSACAR, programa
  <2>5. QED
    BY <2>1, <2>2, <2>3, <2>4
<1>2. c \in HILOS
  BY DEF HILOS
<1>3. QED
  BY <1>1, <1>2, MismosDuenios, DespiertosQuietos DEF Va, listas

\* Who waits, after each way of writing a mutex.
LEMMA EnEsperaCambia ==
    ASSUME NEW i, Cambia(i)
    PROVE  /\ Esperan(lista_mutex'[i]) = Esperan(lista_mutex[i]) => EnEspera' = EnEspera
           /\ \A p \in EnEspera' : p \in EnEspera \/ p \in Esperan(lista_mutex'[i])
<1>1. /\ i \in DOMAIN lista_mutex /\ DOMAIN lista_mutex' = DOMAIN lista_mutex
      /\ \A j \in DOMAIN lista_mutex : j # i => lista_mutex'[j] = lista_mutex[j]
  BY DEF Cambia
<1>2. \A j \in DOMAIN lista_mutex : j # i => Esperan(lista_mutex'[j]) = Esperan(lista_mutex[j])
  BY <1>1
<1>3. \A p : p \in EnEspera' <=> \E j \in DOMAIN lista_mutex : p \in Esperan(lista_mutex'[j])
  BY <1>1 DEF EnEspera, Esperan
<1>4. \A p : p \in EnEspera <=> \E j \in DOMAIN lista_mutex : p \in Esperan(lista_mutex[j])
  BY DEF EnEspera
<1>5. ASSUME Esperan(lista_mutex'[i]) = Esperan(lista_mutex[i]) PROVE EnEspera' = EnEspera
  <2>1. \A p : p \in EnEspera' <=> p \in EnEspera
    BY <1>2, <1>3, <1>4, <1>5
  <2>2. QED
    BY <2>1
<1>6. QED
  BY <1>2, <1>3, <1>4, <1>5

\* Taking a free mutex, or leaving one, changes nothing of who waits.
LEMMA EsperanQuietos ==
    ASSUME NEW i, NEW p, Toma(i, p) \/ Suelta(i)
    PROVE  EnEspera' = EnEspera
<1>1. Cambia(i) /\ lista_mutex[i].colaEspera = <<>> /\ lista_mutex'[i].colaEspera = <<>>
  BY DEF Toma, Suelta
<1>2. Esperan(lista_mutex'[i]) = Esperan(lista_mutex[i])
  BY <1>1 DEF Esperan
<1>3. QED
  BY <1>1, <1>2, EnEsperaCambia

\* The calls on the mutexes keep it: who is woken by one has just left its queue.
LEMMA DespiertosCrear ==
    ASSUME TypeOK, Cuentas, Despiertos, NEW c \in CPUS, NEW n \in MUTEX, Crear(c, n)
    PROVE  Despiertos'
<1>1. Agrega(n) /\ UNCHANGED <<listas, manejador, programa>>
  BY CrearPaso
<1>2. \A j \in DOMAIN lista_mutex' \ DOMAIN lista_mutex : Esperan(lista_mutex'[j]) = {}
  BY <1>1 DEF Agrega, Mutex, Esperan, ToSet
<1>3. \A p : p \in EnEspera' <=> p \in EnEspera
  BY <1>1, <1>2 DEF Agrega, EnEspera
<1>4. EnEspera' = EnEspera
  BY <1>3
<1>5. Io \in HILOS
  BY DEF HILOS
<1>6. QED
  BY <1>1, <1>4, <1>5, DespiertosQuietos DEF listas, programa

LEMMA DespiertosLock ==
    ASSUME TypeOK, Hilos, Cuentas, Sitios, Despiertos, NEW c \in CPUS, NEW n \in MUTEX, Lock(c, n)
    PROVE  Despiertos'
<1> DEFINE i == Indice(n)
           p == cpu[c]
<1>1. /\ p \in PIDS /\ UNCHANGED <<block, susp_block, susp_ready, cola_sleep>>
      /\ \/ Toma(i, p) /\ UNCHANGED <<manejador, pide>>
         \/ /\ Une(i, p) /\ pide' = [pide EXCEPT ![p] = n]
            /\ Va(c, "MUTEX_LOCK", "en_exec", p, lista_mutex[i].pid)
  BY LockPaso DEF listas
<1> HIDE DEF i
<1>2. p \notin block \cup susp_block /\ c \in HILOS
  BY <1>1, SupuestosMutex DEF Sitios, Disjuntos, Ejecutando, HILOS
<1>3. CASE Toma(i, p) /\ UNCHANGED <<manejador, pide>>
  BY <1>1, <1>2, <1>3, EsperanQuietos, DespiertosQuietos
<1>4. CASE /\ Une(i, p) /\ pide' = [pide EXCEPT ![p] = n]
           /\ Va(c, "MUTEX_LOCK", "en_exec", p, lista_mutex[i].pid)
  <2>1. /\ Cambia(i) /\ i \in DOMAIN lista_mutex
        /\ lista_mutex'[i].colaEspera = Append(lista_mutex[i].colaEspera, p)
    BY <1>4 DEF Une, Cambia
  <2>2. lista_mutex[i].colaEspera \in Seq(PIDS)
    BY <2>1, UnMutex
  <2> HIDE DEF p
  <2>3. Esperan(lista_mutex'[i]) = Esperan(lista_mutex[i]) \cup {p}
    BY <1>1, <2>1, <2>2, AlFinal DEF Esperan
  <2>4. \A q \in EnEspera' : q \in EnEspera \/ q = p
    BY <2>1, <2>3, EnEsperaCambia DEF EnEspera
  <2>5. manejador'[c].paso = "en_exec" /\ \A g \in HILOS : g # c => manejador'[g] = manejador[g]
    BY <1>4 DEF Va
  <2>6. Busca(c)' /\ manejador'[c].paso \notin PORSACAR
    BY <2>5 DEF Busca, PORSACAR
  <2>7. Duermen'
    <3>1. Duermen
      BY DespiertosPartes
    <3>2. \A q \in ToSet(cola_sleep) : q # p /\ q \in PIDS
      BY <1>2, <3>1 DEF Duermen, TypeOK
    <3>3. \A q \in PIDS : q # p => pide'[q] = pide[q]
      BY <1>4 DEF TypeOK
    <3>4. QED
      BY <1>1, <3>1, <3>2, <3>3 DEF Duermen
  <2>8. QED
    BY <1>1, <1>2, <2>4, <2>5, <2>6, <2>7, DespiertosDe
<1>5. QED
  BY <1>1, <1>3, <1>4

\* A mutex changes hands: the new owner is looked for.
LEMMA DespiertosEntrega ==
    ASSUME TypeOK, Hilos, Cuentas, Sitios, Despiertos, Espera, NEW c \in CPUS, NEW i, Entrega(i),
           mutex_lista \in {Nadie, c}, manejador[c].syscall # "MUTEX_LOCK",
           manejador[c].paso \notin PORSACAR,
           \E s, p : Va(c, s, "sacar", p, Head(lista_mutex[i].colaEspera)),
           UNCHANGED <<block, susp_block, susp_ready, cola_sleep, pide>>
    PROVE  Despiertos'
<1> DEFINE d == Head(lista_mutex[i].colaEspera)
<1>1. /\ Cambia(i) /\ i \in DOMAIN lista_mutex
      /\ lista_mutex'[i].colaEspera = Tail(lista_mutex[i].colaEspera)
      /\ lista_mutex[i].colaEspera # <<>>
  BY DEF Entrega, Cambia
<1>2. lista_mutex[i].colaEspera \in Seq(PIDS) /\ IsInjective(lista_mutex[i].colaEspera)
  BY <1>1, UnMutex DEF Espera
<1>3. /\ d \in Esperan(lista_mutex[i]) /\ d \notin Esperan(lista_mutex'[i])
      /\ Esperan(lista_mutex'[i]) \subseteq Esperan(lista_mutex[i])
  BY <1>1, <1>2, SinElPrimero DEF Esperan
<1>4. /\ d \in block \cup susp_block \/ EnLlamada(d, "MUTEX_LOCK")
      /\ \A j \in DOMAIN lista_mutex : d \in Esperan(lista_mutex[j]) => j = i
      /\ pide[d] # Nadie /\ d \in EnEspera /\ d \in PIDS
  BY <1>1, <1>3, QuienEspera
<1>5. ~EnLlamada(d, "MUTEX_LOCK")
  <2>1. SUFFICES ASSUME NEW e \in CPUS, manejador[e].syscall = "MUTEX_LOCK", manejador[e].pid = d
                 PROVE  FALSE
    BY DEF EnLlamada
  <2>2. mutex_lista = e /\ e # Nadie
    BY <1>4, <2>1, LlamaQuien, SupuestosMutex
  <2>3. QED
    BY <2>1, <2>2
<1>6. d \in block \cup susp_block
  BY <1>4, <1>5
<1>7. d \notin EnEspera'
  <2>1. \A j \in DOMAIN lista_mutex' : d \notin Esperan(lista_mutex'[j])
    BY <1>1, <1>3, <1>4 DEF Cambia
  <2>2. QED
    BY <2>1 DEF EnEspera, Esperan
<1>8. d \notin ToSet(cola_sleep)
  BY <1>4, DespiertosPartes DEF Duermen
<1>9. /\ manejador'[c].paso = "sacar" /\ manejador'[c].otro = d
      /\ \A g \in HILOS : g # c => manejador'[g] = manejador[g]
  BY DEF Va
<1>10. Busca(c)'
  BY <1>6, <1>7, <1>8, <1>9 DEF Busca
<1>11. susp_ready \cap (block \cup susp_block) = {}
  BY DEF Sitios, Disjuntos
<1>12. \A g \in HILOS : manejador[g].paso \in PORSACAR => manejador[g].otro # d
  BY <1>4, <1>6, <1>11, DespiertosPartes DEF Busca, PORSACAR
<1>13. Duermen'
  BY DespiertosPartes DEF Duermen
<1>14. \A p \in EnEspera' : p \in EnEspera
  BY <1>1, <1>3, EnEsperaCambia DEF EnEspera
<1>15. c \in HILOS
  BY DEF HILOS
<1> HIDE DEF d
<1>16. QED
  BY <1>9, <1>10, <1>12, <1>13, <1>14, <1>15, DespiertosDe

LEMMA DespiertosUnlock ==
    ASSUME TypeOK, Hilos, Sitios, Despiertos, Reglas, NEW c \in CPUS, NEW n \in MUTEX, Unlock(c, n)
    PROVE  Despiertos'
<1> DEFINE i == Indice(n)
<1>1. /\ manejador[c] = Libre /\ mutex_lista = Nadie
      /\ UNCHANGED <<block, susp_block, susp_ready, cola_sleep, pide>>
      /\ \/ Entrega(i) /\ Va(c, "MUTEX_UNLOCK", "sacar", cpu[c], Head(lista_mutex[i].colaEspera))
         \/ Suelta(i) /\ Va(c, "MUTEX_UNLOCK", "recalcular", cpu[c], Nadie)
  <2>1. Cuentas /\ Tienen
    BY DEF Reglas
  <2>2. QED
    BY <2>1, UnlockPaso DEF listas
<1> HIDE DEF i
<1>2. manejador[c].syscall # "MUTEX_LOCK" /\ manejador[c].paso \notin PORSACAR /\ c \in HILOS
  BY <1>1 DEF Libre, PORSACAR, HILOS
<1>3. CASE Entrega(i) /\ Va(c, "MUTEX_UNLOCK", "sacar", cpu[c], Head(lista_mutex[i].colaEspera))
  BY <1>1, <1>2, <1>3, DespiertosEntrega DEF Reglas
<1>4. CASE Suelta(i) /\ Va(c, "MUTEX_UNLOCK", "recalcular", cpu[c], Nadie)
  BY <1>1, <1>2, <1>4, EsperanQuietos, DespiertosQuietos DEF Va, PORSACAR
<1>5. QED
  BY <1>1, <1>3, <1>4

LEMMA DespiertosMuerte ==
    ASSUME TypeOK, Hilos, Sitios, Despiertos, Reglas, NEW c \in CPUS, LiberarPorMuerte(c)
    PROVE  Despiertos'
<1>1. /\ manejador[c].paso = "muerte"
      /\ UNCHANGED <<block, susp_block, susp_ready, cola_sleep, pide>>
      /\ \E i \in DOMAIN lista_mutex : Libera(c, i)
  BY MuertePaso DEF listas, Reglas, programa
<1>2. manejador[c].syscall = "EXIT" /\ mutex_lista = c /\ c \in HILOS
  BY <1>1, LlamadaDe DEF HILOS
<1>3. PICK i \in DOMAIN lista_mutex : Libera(c, i)
  BY <1>1
<1>4. manejador[c].paso \notin PORSACAR
  BY <1>1 DEF PORSACAR
<1>5. CASE Entrega(i) /\ Va(c, "EXIT", "sacar", manejador[c].pid, Head(lista_mutex[i].colaEspera))
  BY <1>1, <1>2, <1>4, <1>5, DespiertosEntrega DEF Reglas
<1>6. CASE Suelta(i) /\ Va(c, "EXIT", "muerte", manejador[c].pid, manejador[c].otro)
  BY <1>1, <1>2, <1>6, EsperanQuietos, DespiertosQuietos DEF Va, PORSACAR
<1>7. QED
  BY <1>3, <1>5, <1>6 DEF Libera

\* Every step keeps it.
LEMMA PasoDespiertos ==
    ASSUME SIN_MEMORIA \cap AVISADOS = {},
           TypeOK, Hilos, Sitios, Heredero, Despiertos, Reglas, Next
    PROVE  Despiertos'
<1>0. Cuentas /\ Espera /\ Tienen
  BY DEF Reglas
<1>1. CASE Planificador
  BY <1>0, <1>1, DespiertosPlanif
<1>2. ASSUME NEW c \in CPUS, Programa(c) PROVE Despiertos'
  <2>1. CASE Sleep(c) \/ Exit(c) \/ \E n \in MUTEX : LockNoExiste(c, n) \/ UnlockNoExiste(c, n)
    BY <1>0, <2>1, DespiertosBloquear
  <2>2. ASSUME NEW n \in MUTEX, Crear(c, n) \/ Lock(c, n) \/ Unlock(c, n) PROVE Despiertos'
    BY <1>0, <2>2, DespiertosCrear, DespiertosLock, DespiertosUnlock
  <2>3. QED
    BY <1>2, <2>1, <2>2 DEF Programa
<1>3. ASSUME NEW c \in CPUS, Atender(c) \/ FinDeQuantum(c) PROVE Despiertos'
  <2>1. CASE \/ BuscarEnExec(c) \/ BuscarEnReady(c) \/ BuscarEnBlock(c) \/ BuscarEnSuspBlock(c)
             \/ BuscarEnSuspReady(c) \/ Heredar(c) \/ Transitiva(c) \/ FinTransitiva(c)
    BY <2>1, DespiertosBuscar
  <2>2. CASE DejarCpu(c) \/ EntrarABlock(c) \/ FinDeQuantum(c)
    BY <1>0, <2>2, DespiertosBloquear
  <2>3. CASE Recalcular(c) \/ Reponer(c) \/ EmpezarMuerte(c) \/ FinMuerte(c)
    BY <2>3, DespiertosResto
  <2>4. CASE LiberarPorMuerte(c)
    BY <2>4, DespiertosMuerte
  <2>5. QED
    BY <1>3, <2>1, <2>2, <2>3, <2>4 DEF Atender
<1>4. ASSUME NEW h \in HILOS, Despertar(h) PROVE Despiertos'
  BY <1>4, DespiertosDespertar
<1>5. CASE FinSleep \/ \E p \in PIDS : NuevaMemoria(p) \/ Suspender(p)
  BY <1>0, <1>5, DespiertosAjeno
<1>6. QED
  BY <1>1, <1>2, <1>3, <1>4, <1>5 DEF Next

-----------------------------------------------------------------------------
(* The priorities that are lent.                                             *)

\* The parts of Prestada: of each process, and of each handler.
Justa(p) ==
    prioridad[p] = ORIGINAL[p] \/ DeAlguno(p)
        \/ \E c \in CPUS : manejador[c].syscall = "MUTEX_UNLOCK" /\ manejador[c].pid = p

\* The priority that MUTEX_UNLOCK goes back to is not a lent one, unless something is still owned;
\* whoever is being lent one owns something.
Calculada(c) ==
    manejador[c].paso = "reponer" =>
        manejador[c].nueva = ORIGINAL[manejador[c].pid] \/ DeAlguno(manejador[c].pid)

Hallado(c) == manejador[c].paso \in BUSCANDO => DeAlguno(manejador[c].otro)

\* Prestada in its parts.
LEMMA PrestadaPartes ==
    Prestada <=> /\ \A p \in vivos : Justa(p)
                 /\ \A c \in CPUS : Calculada(c) /\ Hallado(c)
BY DEF Prestada, Justa, Calculada, Hallado

LEMMA PrestadaDespues ==
    ASSUME \A p \in vivos' : Justa(p)',
           \A c \in CPUS : Calculada(c)' /\ Hallado(c)'
    PROVE  Prestada'
BY DEF Prestada, Justa, Calculada, Hallado

\* Only the thread that moves has to be looked at, and who stops owning.
LEMMA PrestadaDe ==
    ASSUME Hilos, Prestada, NEW h \in HILOS, vivos' \subseteq vivos,
           \A g \in HILOS : g # h => manejador'[g] = manejador[g],
           \A p \in vivos' : \/ prioridad'[p] = prioridad[p] \/ prioridad'[p] = ORIGINAL[p]
                             \/ DeAlguno(p)',
           \A p \in vivos' : DeAlguno(p) =>
               \/ DeAlguno(p)'
               \/ /\ h \in CPUS /\ manejador'[h].syscall = "MUTEX_UNLOCK"
                  /\ manejador'[h].pid = p,
           \A c \in CPUS, p \in PIDS :
               /\ c # h /\ DeAlguno(p)
               /\ \/ manejador[c].paso = "reponer" /\ manejador[c].pid = p
                  \/ manejador[c].paso \in BUSCANDO /\ manejador[c].otro = p
               => DeAlguno(p)',
           \A p \in vivos' :
               h \in CPUS /\ manejador[h].syscall = "MUTEX_UNLOCK" /\ manejador[h].pid = p =>
                   \/ manejador'[h].syscall = "MUTEX_UNLOCK" /\ manejador'[h].pid = p
                   \/ prioridad'[p] = ORIGINAL[p]
                   \/ DeAlguno(p)',
           h \in CPUS => Calculada(h)' /\ Hallado(h)'
    PROVE  Prestada'
<1>0. \A c \in CPUS : c \in HILOS
  BY DEF HILOS
<1>1. ASSUME NEW p \in vivos' PROVE Justa(p)'
  <2>1. Justa(p)
    BY PrestadaPartes
  <2>2. CASE prioridad[p] = ORIGINAL[p]
    BY <2>2 DEF Justa
  <2>3. CASE DeAlguno(p)
    BY <2>3 DEF Justa
  <2>4. CASE \E c \in CPUS : manejador[c].syscall = "MUTEX_UNLOCK" /\ manejador[c].pid = p
    <3>1. PICK c \in CPUS : manejador[c].syscall = "MUTEX_UNLOCK" /\ manejador[c].pid = p
      BY <2>4
    <3>2. CASE c # h
      BY <1>0, <3>1, <3>2 DEF Justa
    <3>3. CASE c = h
      BY <3>1, <3>3 DEF Justa
    <3>4. QED
      BY <3>2, <3>3
  <2>5. QED
    BY <2>1, <2>2, <2>3, <2>4 DEF Justa
<1>2. ASSUME NEW c \in CPUS, c # h PROVE Calculada(c)' /\ Hallado(c)'
  <2>1. manejador'[c] = manejador[c] /\ Calculada(c) /\ Hallado(c)
    BY <1>0, <1>2, PrestadaPartes
  <2>2. /\ manejador[c].paso = "reponer" => manejador[c].pid \in PIDS
        /\ manejador[c].paso \in BUSCANDO => manejador[c].otro \in PIDS
    BY <1>0, LlamadaDe
  <2>3. Calculada(c)'
    BY <1>2, <2>1, <2>2 DEF Calculada
  <2>4. Hallado(c)'
    BY <1>2, <2>1, <2>2 DEF Hallado
  <2>5. QED
    BY <2>3, <2>4
<1>3. QED
  BY <1>1, <1>2, PrestadaDespues

\* The steps that do not write the list of mutexes.
LEMMA PrestadaQuieta ==
    ASSUME Hilos, Prestada, NEW h \in HILOS, vivos' \subseteq vivos, UNCHANGED lista_mutex,
           \A g \in HILOS : g # h => manejador'[g] = manejador[g],
           \A p \in vivos' : \/ prioridad'[p] = prioridad[p] \/ prioridad'[p] = ORIGINAL[p]
                             \/ DeAlguno(p),
           h \in CPUS /\ manejador[h].syscall = "MUTEX_UNLOCK" =>
               \/ /\ manejador'[h].syscall = "MUTEX_UNLOCK"
                  /\ manejador'[h].pid = manejador[h].pid
               \/ prioridad'[manejador[h].pid] = ORIGINAL[manejador[h].pid]
               \/ DeAlguno(manejador[h].pid),
           h \in CPUS => /\ manejador'[h].paso = "reponer" =>
                               \/ manejador'[h].nueva = ORIGINAL[manejador'[h].pid]
                               \/ DeAlguno(manejador'[h].pid)
                         /\ manejador'[h].paso \in BUSCANDO => DeAlguno(manejador'[h].otro)
    PROVE  Prestada'
<1>1. \A p : DeAlguno(p)' <=> DeAlguno(p)
  BY DEF DeAlguno, Tomado
<1>2. h \in CPUS => Calculada(h)' /\ Hallado(h)'
  BY <1>1 DEF Calculada, Hallado
<1>3. QED
  BY <1>1, <1>2, PrestadaDe

\* The owner of a mutex is looked for, and inherits.
LEMMA PrestadaBuscar ==
    ASSUME TypeOK, Hilos, Heredero, Prestada, NEW c \in CPUS,
           \/ BuscarEnExec(c) \/ BuscarEnReady(c) \/ BuscarEnBlock(c) \/ BuscarEnSuspBlock(c)
           \/ BuscarEnSuspReady(c) \/ Heredar(c) \/ FinTransitiva(c)
    PROVE  Prestada'
<1>1. c \in HILOS
  BY DEF HILOS
<1>2. /\ manejador[c].paso \in BUSCANDO
      /\ \E x \in BUSCANDO \cup {"dejar_cpu"} :
            Va(c, "MUTEX_LOCK", x, manejador[c].pid, manejador[c].otro)
      /\ UNCHANGED <<lista_mutex, vivos>>
      /\ \/ UNCHANGED prioridad
         \/ prioridad' = [prioridad EXCEPT ![manejador[c].otro] = prioridad[manejador[c].pid]]
  <2>1. CASE BuscarEnExec(c) \/ BuscarEnBlock(c) \/ BuscarEnSuspBlock(c) \/ BuscarEnSuspReady(c)
    BY <2>1, BuscaEfecto DEF Fijos, BUSCANDO, programa
  <2>2. CASE BuscarEnReady(c)
    BY <2>2, BuscaReadyEfecto DEF Fijos, BUSCANDO, programa
  <2>3. CASE Heredar(c)
    BY <2>3, HeredarEfecto DEF BUSCANDO, programa
  <2>4. CASE FinTransitiva(c)
    BY <2>4, FinTransitivaEfecto DEF Fijos, BUSCANDO, programa
  <2>5. QED
    BY <2>1, <2>2, <2>3, <2>4
<1>3. DeAlguno(manejador[c].otro)
  BY <1>2, PrestadaPartes DEF Hallado
<1>4. \A p \in vivos' : prioridad'[p] = prioridad[p] \/ DeAlguno(p)
  BY <1>2, <1>3 DEF TypeOK
<1>5. manejador[c].syscall = "MUTEX_LOCK"
  BY <1>1, <1>2, LlamadaDe
<1>6. QED
  BY <1>1, <1>2, <1>3, <1>4, <1>5, PrestadaQuieta DEF Va, BUSCANDO

\* Whoever inherits from an owner owns the mutex that the owner waits for.
LEMMA PrestadaTransitiva ==
    ASSUME TypeOK, Hilos, Cuentas, Prestada, NEW c \in CPUS, Transitiva(c)
    PROVE  Prestada'
<1> DEFINE d == manejador[c].otro
           m == lista_mutex[manejador[c].i]
           hereda == /\ m.pid # d /\ d \in Esperan(m) /\ Ubicado(m.pid)
                     /\ prioridad[d] < prioridad[m.pid]
<1>1. /\ c \in HILOS /\ manejador[c].paso = "transitiva" /\ manejador[c].i \in DOMAIN lista_mutex
      /\ Va(c, "MUTEX_LOCK", "transitiva", manejador[c].pid, manejador[c].otro)
      /\ UNCHANGED <<lista_mutex, vivos>>
  BY TransitivaEfecto DEF HILOS, programa
<1>2. prioridad' = IF hereda THEN [prioridad EXCEPT ![m.pid] = prioridad[d]] ELSE prioridad
  BY Zenon DEF Transitiva
<1>3. ASSUME hereda PROVE DeAlguno(m.pid)
  <2>1. m.colaEspera # <<>>
    BY <1>3 DEF Esperan, ToSet
  <2>2. Tomado(m)
    BY <1>1, <2>1 DEF Cuentas
  <2>3. QED
    BY <1>1, <2>2 DEF DeAlguno
<1>4. \A p \in vivos' : prioridad'[p] = prioridad[p] \/ DeAlguno(p)
  <2> HIDE DEF hereda
  <2> QED BY <1>1, <1>2, <1>3 DEF TypeOK
<1>5. DeAlguno(manejador[c].otro) /\ manejador[c].syscall = "MUTEX_LOCK"
  BY <1>1, LlamadaDe, PrestadaPartes DEF Hallado, BUSCANDO
<1> HIDE DEF d, m, hereda
<1>6. QED
  BY <1>1, <1>4, <1>5, PrestadaQuieta DEF Va

\* The priority it goes back to is its own, or of who still owns some mutex.
LEMMA PrestadaReponer ==
    ASSUME TypeOK, Hilos, Cuentas, Prestada, NEW c \in CPUS, Recalcular(c) \/ Reponer(c)
    PROVE  Prestada'
<1> DEFINE p == manejador[c].pid
<1>1. c \in HILOS
  BY DEF HILOS
<1>2. CASE Recalcular(c)
  <2>1. /\ manejador[c].paso = "recalcular"
        /\ Va(c, "MUTEX_UNLOCK", "reponer", p, manejador[c].otro)
        /\ manejador'[c].nueva = Mejor(EsperanA(p), ORIGINAL[p])
        /\ EsperanA(p) \subseteq PIDS
        /\ UNCHANGED <<prioridad, lista_mutex, vivos>>
    BY <1>2, RecalcularEfecto DEF Fijos, programa
  <2>2. manejador[c].syscall = "MUTEX_UNLOCK" /\ p \in PIDS
    BY <1>1, <2>1, LlamadaDe
  <2>3. CASE EsperanA(p) = {}
    <3>1. ORIGINAL[p] \in PRIORIDADES
      BY <2>2, SupuestosMutex DEF PRIORIDADES
    <3> HIDE DEF p
    <3>2. manejador'[c].nueva = ORIGINAL[p]
      BY <2>1, <2>3, <3>1, MejorEs DEF TypeOK
    <3>3. QED
      BY <1>1, <2>1, <2>2, <3>2, PrestadaQuieta DEF Va, BUSCANDO, p
  <2>4. CASE EsperanA(p) # {}
    <3>1. PICK i \in DOMAIN lista_mutex : lista_mutex[i].pid = p /\ Esperan(lista_mutex[i]) # {}
      BY <2>4 DEF EsperanA
    <3>2. lista_mutex[i].colaEspera # <<>>
      BY <3>1 DEF Esperan, ToSet
    <3>3. DeAlguno(p)
      BY <3>1, <3>2 DEF Cuentas, DeAlguno
    <3> HIDE DEF p
    <3>4. QED
      BY <1>1, <2>1, <2>2, <3>3, PrestadaQuieta DEF Va, BUSCANDO, p
  <2>5. QED
    BY <2>3, <2>4
<1>3. CASE Reponer(c)
  <2>1. /\ manejador[c].paso = "reponer"
        /\ Va(c, "ninguna", "recibir", Nadie, Nadie)
        /\ prioridad' = [prioridad EXCEPT ![p] = manejador[c].nueva]
        /\ UNCHANGED <<lista_mutex, vivos>>
    BY <1>3, ReponerEfecto DEF programa
  <2>2. p \in PIDS
    BY <1>1, <2>1, LlamadaDe
  <2>3. manejador[c].nueva = ORIGINAL[p] \/ DeAlguno(p)
    BY <2>1, PrestadaPartes DEF Calculada
  <2>4. \A q \in vivos' : prioridad'[q] = prioridad[q] \/ prioridad'[q] = ORIGINAL[q] \/ DeAlguno(q)
    BY <2>1, <2>3 DEF TypeOK
  <2>5. prioridad'[p] = ORIGINAL[p] \/ DeAlguno(p)
    BY <2>1, <2>2, <2>3 DEF TypeOK
  <2>6. QED
    BY <1>1, <2>1, <2>4, <2>5, PrestadaQuieta DEF Va, BUSCANDO
<1>4. QED
  BY <1>2, <1>3

\* The steps of a handler that write no priority nor the list of mutexes.
LEMMA PrestadaAtender ==
    ASSUME TypeOK, Hilos, Prestada, NEW c \in CPUS,
           \/ DejarCpu(c) \/ EntrarABlock(c) \/ Sleep(c) \/ Exit(c) \/ FinDeQuantum(c)
           \/ EmpezarMuerte(c) \/ FinMuerte(c)
           \/ \E n : LockNoExiste(c, n) \/ UnlockNoExiste(c, n)
    PROVE  Prestada'
<1>1. c \in HILOS
  BY DEF HILOS
<1>2. /\ manejador[c] = Libre \/ manejador[c].paso \in {"dejar_cpu", "a_block", "morir", "muerte"}
      /\ \E y, x, p, o : /\ Va(c, y, x, p, o)
                         /\ x \in {"sin_respuesta", "a_block", "dejar_cpu", "recibir", "encolar",
                                   "morir", "muerte"}
      /\ vivos' \subseteq vivos /\ UNCHANGED <<prioridad, lista_mutex>>
  <2>1. CASE \E n : LockNoExiste(c, n) \/ UnlockNoExiste(c, n)
    BY <2>1, NoExisteEfecto DEF Fijos, programa
  <2>2. CASE DejarCpu(c)
    BY <2>2, DejarCpuEfecto DEF programa
  <2>3. CASE EntrarABlock(c)
    BY <2>3, EntrarABlockEfecto DEF programa
  <2>4. CASE Sleep(c)
    BY <2>4, SleepEfecto DEF Fijos, programa
  <2>5. CASE Exit(c)
    BY <2>5, ExitEfecto
  <2>6. CASE FinDeQuantum(c)
    BY <2>6, FinDeQuantumEfecto DEF programa
  <2>7. CASE EmpezarMuerte(c)
    BY <2>7, EmpezarMuerteEfecto DEF programa
  <2>8. CASE FinMuerte(c)
    BY <2>8, FinMuerteEfecto DEF programa
  <2>9. QED
    BY <2>1, <2>2, <2>3, <2>4, <2>5, <2>6, <2>7, <2>8
<1>3. manejador[c].syscall # "MUTEX_UNLOCK"
  BY <1>1, <1>2, LlamadaDe DEF Libre
<1>4. manejador'[c].paso \notin BUSCANDO \cup {"reponer"}
  BY <1>2 DEF Va, BUSCANDO
<1>5. \A g \in HILOS : g # c => manejador'[g] = manejador[g]
  BY <1>2 DEF Va
<1>6. QED
  BY <1>1, <1>2, <1>3, <1>4, <1>5, PrestadaQuieta

\* Waking a process writes no priority.
LEMMA PrestadaDespertar ==
    ASSUME TypeOK, Hilos, Prestada, NEW h \in HILOS, Despertar(h)
    PROVE  Prestada'
<1>1. /\ Prosiguio(h) \/ \E x \in DESPERTANDO : Despertando(h, x)
      /\ UNCHANGED <<prioridad, lista_mutex, vivos>>
  <2>1. CASE SacarDeBlock(h)
    BY <2>1, SacarDeBlockEfecto DEF DESPERTANDO, programa
  <2>2. CASE Encolar(h)
    BY <2>2, EncolarEfecto DEF programa
  <2>3. CASE SacarDeSuspBlock(h)
    BY <2>3, SacarDeSuspBlockEfecto DEF DESPERTANDO, programa
  <2>4. CASE PonerEnSuspReady(h)
    BY <2>4, PonerEnSuspReadyEfecto DEF DESPERTANDO, programa
  <2>5. CASE SacarDeSuspReady(h)
    BY <2>5, SacarDeSuspReadyEfecto DEF DESPERTANDO, programa
  <2>6. CASE Desuspender(h)
    BY <2>6, DesuspenderEfecto DEF programa
  <2>7. QED
    BY <2>1, <2>2, <2>3, <2>4, <2>5, <2>6 DEF Despertar
<1>2. /\ manejador[h].syscall = "MUTEX_UNLOCK" =>
            manejador'[h].syscall = "MUTEX_UNLOCK" /\ manejador'[h].pid = manejador[h].pid
      /\ manejador'[h].paso \notin BUSCANDO \cup {"reponer"}
      /\ \A g \in HILOS : g # h => manejador'[g] = manejador[g]
  BY <1>1 DEF Prosiguio, Despertando, Va, BUSCANDO, DESPERTANDO
<1>3. QED
  BY <1>1, <1>2, PrestadaQuieta

\* Neither do the planner, the timer, the notices and the end of a SLEEP.
LEMMA PrestadaAjena ==
    ASSUME TypeOK, Hilos, Prestada,
           Planificador \/ FinSleep \/ \E p \in PIDS : NuevaMemoria(p) \/ Suspender(p)
    PROVE  Prestada'
<1>1. Escucha \in HILOS \ CPUS /\ Io \in HILOS \ CPUS
  BY LosHilos DEF CpuHilo
<1>2. CASE \E p \in PIDS : NuevaMemoria(p)
  BY <1>1, <1>2, NuevaMemoriaEfecto, PrestadaQuieta DEF Va, programa
<1>3. CASE FinSleep
  BY <1>1, <1>3, FinSleepEfecto, PrestadaQuieta DEF Va, programa
<1>4. CASE Planificador \/ \E p \in PIDS : Suspender(p)
  <2>1. UNCHANGED <<manejador, lista_mutex, prioridad, vivos>>
    BY <1>4, Zenon DEF Planificador, Esperar, Desencolar, DesencolarNada, Enviar, Suspender, programa
  <2>2. QED
    BY <1>1, <2>1, PrestadaQuieta
<1>5. QED
  BY <1>2, <1>3, <1>4

\* Who owns when one mutex changes.
LEMMA DeAlgunoCambia ==
    ASSUME NEW i, Cambia(i), NEW p,
           DeAlguno(p)
    PROVE  DeAlguno(p)' \/ (Tomado(lista_mutex[i]) /\ lista_mutex[i].pid = p)
BY DEF DeAlguno, Cambia

\* The calls on the mutexes, and the death of an owner.
LEMMA PrestadaCrear ==
    ASSUME TypeOK, Hilos, Cuentas, Prestada, NEW c \in CPUS, NEW n \in MUTEX, Crear(c, n)
    PROVE  Prestada'
<1>1. Agrega(n) /\ UNCHANGED <<prioridad, manejador, vivos>>
  BY CrearPaso DEF programa
<1>2. \A p : DeAlguno(p) => DeAlguno(p)'
  BY <1>1 DEF Agrega, DeAlguno
<1>3. Io \in HILOS \ CPUS
  BY LosHilos DEF CpuHilo
<1>4. QED
  BY <1>1, <1>2, <1>3, PrestadaDe

LEMMA PrestadaLock ==
    ASSUME TypeOK, Hilos, Cuentas, Prestada, NEW c \in CPUS, NEW n \in MUTEX, Lock(c, n)
    PROVE  Prestada'
<1> DEFINE i == Indice(n)
<1>1. /\ manejador[c] = Libre /\ c \in HILOS
      /\ UNCHANGED <<prioridad, vivos>>
      /\ \/ /\ Toma(i, cpu[c])
            /\ UNCHANGED manejador
         \/ /\ Une(i, cpu[c])
            /\ Va(c, "MUTEX_LOCK", "en_exec", cpu[c], lista_mutex[i].pid)
  BY LockPaso DEF HILOS
<1> HIDE DEF i
<1>2. \A p : DeAlguno(p) => DeAlguno(p)'
  BY <1>1 DEF Toma, Une, Cambia, DeAlguno
<1>3. manejador[c].syscall # "MUTEX_UNLOCK" /\ \A g \in HILOS : g # c => manejador'[g] = manejador[g]
  BY <1>1 DEF Libre, Va
<1>4. Calculada(c)' /\ Hallado(c)'
  <2>1. CASE Toma(i, cpu[c]) /\ UNCHANGED manejador
    BY <1>1, <2>1 DEF Calculada, Hallado, Libre, BUSCANDO
  <2>2. CASE /\ Une(i, cpu[c])
             /\ Va(c, "MUTEX_LOCK", "en_exec", cpu[c], lista_mutex[i].pid)
    <3>1. /\ manejador'[c].paso = "en_exec" /\ manejador'[c].otro = lista_mutex[i].pid
          /\ i \in DOMAIN lista_mutex' /\ Tomado(lista_mutex'[i])
          /\ lista_mutex'[i].pid = lista_mutex[i].pid
      BY <2>2 DEF Va, Une, Cambia
    <3>2. QED
      BY <3>1 DEF Calculada, Hallado, DeAlguno
  <2>3. QED
    BY <1>1, <2>1, <2>2
<1>5. QED
  BY <1>1, <1>2, <1>3, <1>4, PrestadaDe

\* A mutex passes on or is freed: whoever had it is unlocking, or has ended.
LEMMA PrestadaCede ==
    ASSUME TypeOK, Hilos, Sitios, Prestada, NEW c \in CPUS, NEW i,
           \/ Entrega(i) /\ prioridad' = HeredaDeLaCola(lista_mutex[i])
           \/ Suelta(i) /\ UNCHANGED prioridad,
           \A g \in HILOS : g # c => manejador'[g] = manejador[g],
           UNCHANGED <<vivos, cpu>>, mutex_lista \in {Nadie, c},
           manejador[c].syscall # "MUTEX_UNLOCK",
           manejador'[c].paso \notin BUSCANDO \cup {"reponer"},
           lista_mutex[i].pid \in vivos =>
               /\ cpu[c] = lista_mutex[i].pid
               /\ manejador'[c].syscall = "MUTEX_UNLOCK" /\ manejador'[c].pid = lista_mutex[i].pid
    PROVE  Prestada'
<1> DEFINE o == lista_mutex[i].pid
<1>0. c \in HILOS /\ Nadie \notin CPUS \cup PIDS /\ \A e \in CPUS : e \in HILOS
  BY SupuestosMutex DEF HILOS
<1>1. Cambia(i) /\ i \in DOMAIN lista_mutex
  BY DEF Entrega, Suelta, Cambia
<1>2. \A p : DeAlguno(p) => DeAlguno(p)' \/ p = o
  BY <1>1, DeAlgunoCambia
<1>3. \A p \in vivos' : prioridad'[p] = prioridad[p] \/ DeAlguno(p)'
  <2>1. CASE Entrega(i) /\ prioridad' = HeredaDeLaCola(lista_mutex[i])
    <3>1. lista_mutex[i] \in Mutexes /\ lista_mutex[i].colaEspera # <<>>
      BY <1>1, <2>1, UnMutex DEF Entrega
    <3>2. \A p \in PIDS : p # Head(lista_mutex[i].colaEspera) => prioridad'[p] = prioridad[p]
      BY <2>1, <3>1, HeredaEs DEF TypeOK
    <3>3. \A p : p = Head(lista_mutex[i].colaEspera) => DeAlguno(p)'
      BY <1>1, <2>1 DEF Entrega, Cambia, DeAlguno
    <3>4. vivos' \subseteq PIDS
      BY DEF TypeOK
    <3>5. QED
      BY <3>2, <3>3, <3>4
  <2>2. QED
    BY <2>1
<1>4. ASSUME NEW e \in CPUS, NEW p \in PIDS, e # c, DeAlguno(p),
             \/ manejador[e].paso = "reponer" /\ manejador[e].pid = p
             \/ manejador[e].paso \in BUSCANDO /\ manejador[e].otro = p
      PROVE  DeAlguno(p)'
  <2>1. manejador[e].paso = "reponer" /\ cpu[e] = p
    BY <1>0, <1>4, LlamadaDe
  <2>2. p \in vivos
    BY <1>0, <2>1 DEF Sitios, Vivos, Ejecutando
  <2>3. p # o
    BY <1>0, <1>4, <2>1, <2>2 DEF Sitios, CpusSueltas
  <2>4. QED
    BY <1>2, <1>4, <2>3
<1>5. Calculada(c)' /\ Hallado(c)'
  BY DEF Calculada, Hallado
<1>6. \A p \in vivos' : DeAlguno(p) =>
         DeAlguno(p)' \/ (manejador'[c].syscall = "MUTEX_UNLOCK" /\ manejador'[c].pid = p)
  BY <1>2
<1> HIDE DEF o
<1>7. QED
  BY <1>0, <1>3, <1>4, <1>5, <1>6, PrestadaDe

LEMMA PrestadaUnlock ==
    ASSUME TypeOK, Hilos, Cuentas, Sitios, Tienen, Prestada, NEW c \in CPUS, NEW n \in MUTEX,
           Unlock(c, n)
    PROVE  Prestada'
<1> DEFINE i == Indice(n)
<1>1. /\ manejador[c] = Libre /\ mutex_lista = Nadie /\ lista_mutex[i].pid = cpu[c]
      /\ UNCHANGED <<cpu, vivos>>
      /\ \/ /\ Entrega(i) /\ prioridad' = HeredaDeLaCola(lista_mutex[i])
            /\ Va(c, "MUTEX_UNLOCK", "sacar", cpu[c], Head(lista_mutex[i].colaEspera))
         \/ /\ Suelta(i) /\ UNCHANGED prioridad
            /\ Va(c, "MUTEX_UNLOCK", "recalcular", cpu[c], Nadie)
  BY UnlockPaso
<1> HIDE DEF i
<1>2. /\ manejador[c].syscall # "MUTEX_UNLOCK"
      /\ manejador'[c].syscall = "MUTEX_UNLOCK" /\ manejador'[c].pid = cpu[c]
      /\ manejador'[c].paso \notin BUSCANDO \cup {"reponer"}
      /\ \A g \in HILOS : g # c => manejador'[g] = manejador[g]
  BY <1>1 DEF Libre, Va, BUSCANDO
<1>3. QED
  BY <1>1, <1>2, PrestadaCede

LEMMA PrestadaMuerte ==
    ASSUME TypeOK, Hilos, Cuentas, Sitios, Prestada, NEW c \in CPUS, LiberarPorMuerte(c)
    PROVE  Prestada'
<1>1. PICK i \in DOMAIN lista_mutex : Libera(c, i)
  BY MuertePaso
<1>2. /\ manejador[c].paso = "muerte" /\ c \in HILOS
      /\ UNCHANGED <<cpu, vivos>>
  BY MuertePaso DEF HILOS, programa
<1>3. /\ manejador[c].syscall = "EXIT" /\ manejador[c].pid \notin vivos /\ mutex_lista = c
  BY <1>2, LlamadaDe
<1>4. /\ \/ Entrega(i) /\ prioridad' = HeredaDeLaCola(lista_mutex[i])
         \/ Suelta(i) /\ UNCHANGED prioridad
      /\ lista_mutex[i].pid = manejador[c].pid
      /\ manejador'[c].paso \in {"muerte", "sacar"}
      /\ \A g \in HILOS : g # c => manejador'[g] = manejador[g]
  BY <1>1 DEF Libera, Va
<1>5. manejador'[c].paso \notin BUSCANDO \cup {"reponer"}
  BY <1>4 DEF BUSCANDO
<1>6. QED
  BY <1>2, <1>3, <1>4, <1>5, PrestadaCede

\* Every step keeps it.
LEMMA PasoPrestada ==
    ASSUME TypeOK, Hilos, Sitios, Heredero, Despiertos, Reglas, Prestada, Next
    PROVE  Prestada'
<1>1. Cuentas /\ Tienen
  BY DEF Reglas
<1>2. CASE Planificador \/ FinSleep \/ \E p \in PIDS : NuevaMemoria(p) \/ Suspender(p)
  BY <1>2, PrestadaAjena
<1>3. ASSUME NEW c \in CPUS, Programa(c) PROVE Prestada'
  BY <1>1, <1>3, PrestadaAtender, PrestadaCrear, PrestadaLock, PrestadaUnlock DEF Programa
<1>4. ASSUME NEW c \in CPUS, Atender(c) PROVE Prestada'
  BY <1>1, <1>4, PrestadaBuscar, PrestadaTransitiva, PrestadaAtender, PrestadaReponer, PrestadaMuerte
     DEF Atender
<1>5. ASSUME NEW c \in CPUS, FinDeQuantum(c) PROVE Prestada'
  BY <1>5, PrestadaAtender
<1>6. ASSUME NEW h \in HILOS, Despertar(h) PROVE Prestada'
  BY <1>6, PrestadaDespertar
<1>7. QED
  BY <1>2, <1>3, <1>4, <1>5, <1>6 DEF Next

-----------------------------------------------------------------------------
(* The inductive invariant.                                                  *)

\* A stuttering step keeps the invariant,
LEMMA Quietud == ASSUME Inv, UNCHANGED vars PROVE Inv'
<1>1. UNCHANGED <<cpu, prioridad, cola, sem, planif, block, susp_block, susp_ready, cola_sleep,
                  lista_mutex, mutex_lista, manejador, vivos, pide, tiene, caida>>
  BY DEF vars, listas, programa
<1>2. TypeOK' /\ Hilos' /\ Cuentas' /\ Heredero'
  BY <1>1 DEF Inv, TypeOK, Hilos, Hilo, PasoDe, Cuentas, Tomado, Heredero
<1>3. Ejecutando' = Ejecutando /\ EnReady' = EnReady /\ EnPlanif' = EnPlanif /\ Manos' = Manos
  BY <1>1 DEF Ejecutando, EnReady, EnPlanif, Manos, Mano
<1>4. Sitios'
  BY <1>1, <1>3 DEF Inv, Sitios, CpusSueltas, ManosSueltas, Mano
<1>5. EnEspera' = EnEspera
  BY <1>1 DEF EnEspera, Esperan
<1>6. Despiertos'
  BY <1>1, <1>5 DEF Inv, Despiertos
<1>7. Espera' /\ Tienen' /\ Prestada' /\ Repartidos'
  BY <1>1 DEF Inv, Espera, Tienen, Prestada, Repartidos, SinHuerfanos, EnLlamada, Duenio, Tomado,
              Esperan, DeAlguno
<1>8. QED
  BY <1>2, <1>4, <1>6, <1>7 DEF Inv

\* every step does,
LEMMA PasoInv ==
    ASSUME SIN_MEMORIA \cap AVISADOS = {}, Inv, [Next]_vars
    PROVE  Inv'
<1>1. CASE UNCHANGED vars
  BY <1>1, Quietud
<1>2. CASE Next
  <2>1. /\ TypeOK /\ Hilos /\ Sitios /\ Heredero /\ Despiertos /\ Reglas /\ Prestada
    BY DEF Inv, Reglas
  <2>2. TypeOK' /\ Sitios'
    BY <1>2, <2>1, PasoTipos
  <2>3. Hilos'
    BY <1>2, <2>1, PasoHilos
  <2>4. Heredero'
    BY <1>2, <2>1, PasoHeredero
  <2>5. Despiertos'
    BY <1>2, <2>1, PasoDespiertos
  <2>6. Reglas'
    BY <1>2, <2>1, PasoReglas
  <2>7. Prestada'
    BY <1>2, <2>1, PasoPrestada
  <2>8. QED
    BY <2>2, <2>3, <2>4, <2>5, <2>6, <2>7 DEF Inv, Reglas
<1>3. QED
  BY <1>1, <1>2

\* and it holds at the start.
LEMMA InicioInv == Init => Inv
<1> SUFFICES ASSUME Init PROVE Inv
  OBVIOUS
<1>1. /\ cpu = [c \in CPUS |-> Nadie] /\ prioridad = ORIGINAL /\ cola \in Repartos
      /\ sem = [ready |-> Cardinality(PIDS), cpu |-> Cardinality(CPUS)]
      /\ planif = SinProceso
      /\ block = {} /\ susp_block = {} /\ susp_ready = {} /\ cola_sleep = <<>>
      /\ mutex_lista = Nadie /\ manejador = [h \in HILOS |-> Libre] /\ vivos = PIDS
      /\ pide = [p \in PIDS |-> Nadie] /\ tiene = [p \in PIDS |-> {}] /\ caida = FALSE
  BY DEF Init
<1>2. PICK orden \in SetToSeqs(CREADOS) : lista_mutex = [i \in DOMAIN orden |-> Mutex(orden[i])]
  BY DEF Init
<1>3. \A h \in HILOS : manejador[h] = Libre /\ Mano(h) = {}
  BY <1>1 DEF Mano, Libre
<1>4. /\ Libre \in Atenciones /\ Nadie \notin PIDS /\ \A c \in CPUS : c \in HILOS
  BY SupuestosMutex DEF Libre, Atenciones, LLAMADAS, PASOS, HILOS
<1>5. /\ cola \in [PRIORIDADES -> Seq(PIDS)] /\ ColasSueltas(cola) /\ EnReady = PIDS
  BY <1>1, RepartoEs, ReadyEs
<1>6. /\ orden \in Seq(CREADOS) /\ IsInjective(orden)
      /\ DOMAIN lista_mutex = DOMAIN orden
      /\ \A i \in DOMAIN lista_mutex : lista_mutex[i] = Mutex(orden[i]) /\ orden[i] \in CREADOS
  <2>1. orden \in Seq(CREADOS) /\ IsInjective(orden)
    BY OrdenDe, SupuestosMutex
  <2>2. QED
    BY <1>2, <2>1
<1>7. /\ lista_mutex \in Seq(Mutexes)
      /\ \A i \in DOMAIN lista_mutex :
            /\ ~Tomado(lista_mutex[i]) /\ Esperan(lista_mutex[i]) = {}
            /\ lista_mutex[i].contador = 1 /\ lista_mutex[i].colaEspera = <<>>
            /\ lista_mutex[i].nombre = orden[i]
      /\ EnEspera = {}
  <2>1. \A n \in MUTEX : Mutex(n) \in Mutexes
    BY DEF Mutex, Mutexes
  <2>2. \A i \in DOMAIN orden : Mutex(orden[i]) \in Mutexes
    BY <1>6, <2>1, SupuestosMutex
  <2>3. lista_mutex = [i \in 1 .. Len(orden) |-> Mutex(orden[i])] /\ Len(orden) \in Nat
    BY <1>2, <1>6
  <2>4. lista_mutex \in Seq(Mutexes)
    BY <1>6, <2>2, <2>3
  <2>5. \A n : ~Tomado(Mutex(n)) /\ Esperan(Mutex(n)) = {} /\ Mutex(n).contador = 1
               /\ Mutex(n).colaEspera = <<>> /\ Mutex(n).nombre = n
    BY DEF Mutex, Tomado, Esperan, ToSet
  <2>6. QED
    BY <1>6, <2>4, <2>5 DEF EnEspera
<1>8. TypeOK
  <2>1. manejador \in [HILOS -> Atenciones] /\ cpu \in [CPUS -> PIDS \cup {Nadie}]
    BY <1>1, <1>4
  <2>2. prioridad \in [PIDS -> PRIORIDADES]
    BY <1>1, SupuestosMutex DEF PRIORIDADES
  <2>3. sem \in [ready : Nat, cpu : Nat]
    <3>1. Cardinality(PIDS) \in Nat /\ Cardinality(CPUS) \in Nat
      BY SupuestosMutex, FS_CardinalityType
    <3>2. QED
      BY <1>1, <3>1
  <2>4. /\ planif \in [paso : {"esperar", "desencolar", "enviar"}, pcb : PIDS \cup {Nadie}]
        /\ planif.paso = "enviar" <=> planif.pcb # Nadie
    BY <1>1 DEF SinProceso
  <2>5. /\ {block, susp_block, susp_ready, vivos} \subseteq SUBSET PIDS
        /\ cola_sleep \in Seq(PIDS) /\ mutex_lista \in CPUS \cup {Nadie}
        /\ pide \in [PIDS -> MUTEX \cup {Nadie}] /\ tiene \in [PIDS -> SUBSET MUTEX]
        /\ caida \in BOOLEAN
    <3>1. {block, susp_block, susp_ready, vivos} \subseteq SUBSET PIDS
      BY <1>1
    <3>2. cola_sleep \in Seq(PIDS) /\ mutex_lista \in CPUS \cup {Nadie} /\ caida \in BOOLEAN
      <4>1. cola_sleep = <<>> /\ mutex_lista \in CPUS \cup {Nadie}
        BY <1>1
      <4>2. caida \in BOOLEAN
        BY <1>1, Zenon
      <4>3. <<>> \in Seq(PIDS)
        OBVIOUS
      <4>4. QED
        BY <4>1, <4>2, <4>3
    <3>3. pide \in [PIDS -> MUTEX \cup {Nadie}] /\ tiene \in [PIDS -> SUBSET MUTEX]
      BY <1>1
    <3>4. QED
      BY <3>1, <3>2, <3>3
  <2>6. QED
    BY <1>5, <1>7, <2>1, <2>2, <2>3, <2>4, <2>5 DEF TypeOK
<1>9. Hilos
  <2>1. ASSUME NEW h \in HILOS PROVE Hilo(h)
    <3>1. /\ manejador[h] = Libre /\ Libre.syscall = "ninguna" /\ Libre.paso = "recibir"
          /\ ~Libre.sacado
      BY <1>3 DEF Libre
    <3>2. QED
      BY <3>1 DEF Hilo, PasoDe, BUSCANDO, DESPERTANDO
  <2>2. QED
    BY <2>1 DEF Hilos
<1>10. Cuentas
  <2>1. \A i, j \in DOMAIN lista_mutex : lista_mutex[i].nombre = lista_mutex[j].nombre => i = j
    BY <1>6, <1>7 DEF IsInjective
  <2>2. QED
    BY <1>7, <2>1 DEF Cuentas
<1>11. Sitios
  <2>1. Ejecutando = {} /\ Manos = {} /\ EnPlanif = {}
    BY <1>1, <1>3 DEF Ejecutando, Manos, EnPlanif, SinProceso
  <2>2. CpusSueltas /\ ManosSueltas
    BY <1>1, <1>3 DEF CpusSueltas, ManosSueltas
  <2>3. QED
    BY <1>1, <1>5, <2>1, <2>2 DEF Sitios, Disjuntos, Vivos
<1>12. Heredero /\ Despiertos
  <2>1. \A h \in HILOS : manejador[h].paso = "recibir"
    BY <1>3 DEF Libre
  <2>2. IsInjective(cola_sleep) /\ ToSet(cola_sleep) = {}
    BY <1>1 DEF IsInjective, ToSet
  <2>3. QED
    BY <1>4, <2>1, <2>2 DEF Heredero, Despiertos
<1>13. Espera /\ Tienen
  <2>1. IsInjective(<<>>)
    BY DEF IsInjective
  <2>2. QED
    BY <1>1, <1>3, <1>4, <1>7, <2>1 DEF Espera, Tienen, Libre
<1>14. Repartidos /\ Prestada
  <2>1. \A c \in CPUS : manejador[c].paso = "recibir" /\ manejador[c].syscall = "ninguna"
    BY <1>3, <1>4 DEF Libre
  <2>2. QED
    BY <1>1, <1>7, <2>1 DEF Repartidos, SinHuerfanos, Prestada, BUSCANDO
<1>15. QED
  BY <1>8, <1>9, <1>10, <1>11, <1>12, <1>13, <1>14 DEF Inv

-----------------------------------------------------------------------------
(* What the invariant says.                                                  *)

\* A mutex that a program has is owned by it, so that no two have it.
LEMMA InvExclusion == Inv => Exclusion
<1> SUFFICES ASSUME Inv, NEW p \in PIDS, NEW n \in tiene[p]
             PROVE  /\ p \in vivos
                    /\ Linea(n) # <<>> /\ Head(Linea(n)) = p
                    /\ \A q \in PIDS \ {p} : n \notin tiene[q]
  BY DEF Exclusion
<1>1. /\ p \in vivos
      /\ \A q \in PIDS : n \in tiene[q] => Duenio(q, n)
  BY DEF Inv, Tienen
<1>2. PICK i \in DOMAIN lista_mutex :
         lista_mutex[i].nombre = n /\ Tomado(lista_mutex[i]) /\ lista_mutex[i].pid = p
  BY <1>1 DEF Duenio
<1>3. Creado(n) /\ Indice(n) = i
  BY <1>2, IndiceEs DEF Inv
<1>4. Linea(n) = <<p>> \o lista_mutex[i].colaEspera
  BY <1>2, <1>3 DEF Linea
<1>5. lista_mutex[i].colaEspera \in Seq(PIDS)
  BY UnMutex DEF Inv
<1>6. Linea(n) # <<>> /\ Head(Linea(n)) = p
  BY <1>4, <1>5
<1>7. \A q \in PIDS \ {p} : n \notin tiene[q]
  BY <1>1, <1>2 DEF Duenio, Inv, Cuentas
<1>8. QED
  BY <1>1, <1>6, <1>7

\* Who asked for a mutex and is blocked is in its queue, and there only.
LEMMA InvEspera == Inv => EsperaConsistente
<1> SUFFICES ASSUME Inv PROVE EsperaConsistente
  OBVIOUS
<1>1. \A i \in DOMAIN lista_mutex :
          LET m == lista_mutex[i] IN
          /\ m.contador = IF Tomado(m) THEN 0 - Len(m.colaEspera) ELSE 1
          /\ ~Tomado(m) => m.colaEspera = <<>>
          /\ IsInjective(m.colaEspera)
          /\ \A p \in Esperan(m) :
                /\ pide[p] = m.nombre /\ p # m.pid
                /\ p \in block \cup susp_block \/ EnLlamada(p, "MUTEX_LOCK")
  BY DEF Inv, Cuentas, Espera
<1>2. ASSUME NEW p \in PIDS, pide[p] # Nadie
      PROVE  LET m == lista_mutex[Indice(pide[p])]
             IN  p \in Esperan(m) \/ (Tomado(m) /\ m.pid = p)
  <2>1. PICK i \in DOMAIN lista_mutex :
           /\ lista_mutex[i].nombre = pide[p]
           /\ p \in Esperan(lista_mutex[i]) \/ (Tomado(lista_mutex[i]) /\ lista_mutex[i].pid = p)
    BY <1>2 DEF Inv, Espera, Duenio
  <2>2. Indice(pide[p]) = i
    BY <2>1, IndiceEs DEF Inv
  <2>3. QED
    BY <2>1, <2>2
<1>3. QED
  BY <1>1, <1>2 DEF EsperaConsistente

\* Who owns nothing, and is not unlocking, has its own priority.
LEMMA InvDevuelve == Inv => DevuelvePrioridad
<1> SUFFICES ASSUME Inv, NEW c \in CPUS, cpu[c] # Nadie, manejador[c] = Libre,
                    \A i \in DOMAIN lista_mutex :
                       Tomado(lista_mutex[i]) => lista_mutex[i].pid # cpu[c]
             PROVE  prioridad[cpu[c]] = ORIGINAL[cpu[c]]
  BY DEF DevuelvePrioridad
<1>1. cpu[c] \in vivos /\ cpu[c] \in PIDS /\ Nadie \notin PIDS /\ \A e \in CPUS : e \in HILOS
  BY SupuestosMutex DEF Inv, TypeOK, Sitios, Vivos, Ejecutando, HILOS
<1>2. ~DeAlguno(cpu[c])
  BY DEF DeAlguno
<1>3. Justa(cpu[c])
  BY <1>1, PrestadaPartes DEF Inv
<1>4. ASSUME NEW e \in CPUS, manejador[e].syscall = "MUTEX_UNLOCK", manejador[e].pid = cpu[c]
      PROVE  FALSE
  <2>1. Hilo(e)
    BY <1>1 DEF Inv, Hilos
  <2>2. manejador[e].paso # "sin_respuesta" /\ manejador[e].paso # "a_block"
    BY <1>1, <1>4, <2>1 DEF Hilo, PasoDe, DESPERTANDO, Io, Escucha
  <2>3. cpu[e] = cpu[c]
    BY <1>4, <2>1, <2>2 DEF Hilo
  <2>4. e = c
    BY <1>1, <2>3 DEF Inv, Sitios, CpusSueltas
  <2>5. QED
    BY <1>4, <2>4 DEF Libre
<1>5. QED
  BY <1>2, <1>3, <1>4 DEF Justa

\* The places of a process, of each kind: none, or one.
Solo(X, hay) == IF hay THEN \E x : X = {x} ELSE X = {}

\* The places of a live process, counted by kind.
LEMMA LugaresDe ==
    ASSUME Inv, NEW p \in PIDS
    PROVE  \E A, B, C, D, E, F, G :
             /\ Lugares(p) = A \cup B \cup C \cup D \cup E \cup F \cup G
             /\ Solo(A, p \in Ejecutando) /\ Solo(B, p \in Manos) /\ Solo(C, p \in EnPlanif)
             /\ Solo(D, p \in EnReady) /\ Solo(E, p \in block) /\ Solo(F, p \in susp_block)
             /\ Solo(G, p \in susp_ready)
<1> DEFINE A == {<<"cpu", c>> : c \in {d \in CPUS : cpu[d] = p}}
           B == {<<"mano", h>> : h \in {g \in HILOS : EnMano(g, p)}}
           C == {<<"planif", p>> : x \in {planif.pcb} \cap {p}}
           D == UNION {{<<"cola", k, i>> : i \in {j \in DOMAIN cola[k] : cola[k][j] = p}} :
                          k \in PRIORIDADES}
           E == {<<"block", p>> : x \in block \cap {p}}
           F == {<<"susp_block", p>> : x \in susp_block \cap {p}}
           G == {<<"susp_ready", p>> : x \in susp_ready \cap {p}}
<1>0. p # Nadie
  BY SupuestosMutex
<1>1. Solo(A, p \in Ejecutando)
  <2>1. CASE p \in Ejecutando
    <3>1. PICK c \in CPUS : cpu[c] = p
      BY <2>1 DEF Ejecutando
    <3>2. \A d \in CPUS : cpu[d] = p => d = c
      BY <1>0, <3>1 DEF Inv, Sitios, CpusSueltas
    <3>3. A = {<<"cpu", c>>}
      BY <3>1, <3>2
    <3>4. QED
      BY <2>1, <3>3 DEF Solo
  <2>2. CASE p \notin Ejecutando
    <3>1. \A d \in CPUS : cpu[d] # p
      BY <1>0, <2>2 DEF Ejecutando
    <3>2. QED
      BY <2>2, <3>1 DEF Solo
  <2>3. QED
    BY <2>1, <2>2
<1>2. Solo(B, p \in Manos)
  <2>0. ASSUME NEW h \in HILOS PROVE EnMano(h, p) <=> p \in Mano(h)
    <3>1. manejador[h].sacado => manejador[h].paso \in {"heredar", "transitiva"}
      BY DEF Inv, Hilos, Hilo
    <3>2. QED
      BY <3>1 DEF EnMano, Mano
  <2>1. CASE p \in Manos
    <3>1. PICK h \in HILOS : p \in Mano(h)
      BY <2>1 DEF Manos
    <3>2. \A g \in HILOS : p \in Mano(g) => g = h
      BY <3>1 DEF Inv, Sitios, ManosSueltas
    <3>3. B = {<<"mano", h>>}
      BY <2>0, <3>1, <3>2
    <3>4. QED
      BY <2>1, <3>3 DEF Solo
  <2>2. CASE p \notin Manos
    <3>1. \A h \in HILOS : ~EnMano(h, p)
      BY <2>0, <2>2 DEF Manos
    <3>2. QED
      BY <2>2, <3>1 DEF Solo
  <2>3. QED
    BY <2>1, <2>2
<1>3. Solo(C, p \in EnPlanif)
  <2>1. CASE planif.pcb = p
    <3>1. C = {<<"planif", p>>}
      BY <2>1
    <3>2. QED
      BY <1>0, <2>1, <3>1 DEF Solo, EnPlanif
  <2>2. CASE planif.pcb # p
    BY <2>2 DEF Solo, EnPlanif
  <2>3. QED
    BY <2>1, <2>2
<1>4. Solo(D, p \in EnReady)
  <2>1. CASE p \in EnReady
    <3>1. PICK k \in PRIORIDADES : p \in ToSet(cola[k])
      BY <2>1 DEF EnReady
    <3>2. PICK i \in DOMAIN cola[k] : cola[k][i] = p
      BY <3>1 DEF ToSet
    <3>3. \A j \in PRIORIDADES : p \in ToSet(cola[j]) => j = k
      BY <3>1 DEF Inv, Sitios, ColasSueltas
    <3>4. \A j \in PRIORIDADES : \A m \in DOMAIN cola[j] : cola[j][m] = p => p \in ToSet(cola[j])
      BY DEF ToSet
    <3>5. \A m \in DOMAIN cola[k] : cola[k][m] = p => m = i
      BY <3>2 DEF Inv, Sitios, ColasSueltas, IsInjective
    <3>6. \A x : x \in D <=> x = <<"cola", k, i>>
      BY <3>2, <3>3, <3>4, <3>5
    <3>7. D = {<<"cola", k, i>>}
      BY <3>6
    <3>8. QED
      BY <2>1, <3>7 DEF Solo
  <2>2. CASE p \notin EnReady
    <3>1. \A k \in PRIORIDADES : \A j \in DOMAIN cola[k] : cola[k][j] # p
      BY <2>2 DEF EnReady, ToSet
    <3>2. D = {}
      BY <3>1
    <3>3. QED
      BY <2>2, <3>2 DEF Solo
  <2>3. QED
    BY <2>1, <2>2
<1>5. Solo(E, p \in block) /\ Solo(F, p \in susp_block) /\ Solo(G, p \in susp_ready)
  <2>1. /\ E = IF p \in block THEN {<<"block", p>>} ELSE {}
        /\ F = IF p \in susp_block THEN {<<"susp_block", p>>} ELSE {}
        /\ G = IF p \in susp_ready THEN {<<"susp_ready", p>>} ELSE {}
    OBVIOUS
  <2>2. QED
    BY <2>1 DEF Solo
<1>6. Lugares(p) = A \cup B \cup C \cup D \cup E \cup F \cup G
  <2>1. Lugares(p) = A \cup B \cup C \cup D \cup E \cup F \cup G
    BY Zenon DEF Lugares
  <2>2. QED
    BY <2>1
<1> HIDE DEF A, B, C, D, E, F, G
<1>7. QED
  BY <1>1, <1>2, <1>3, <1>4, <1>5, <1>6

\* A live process is in one of them, once.
LEMMA InvLugar == Inv => UnLugar
<1> SUFFICES ASSUME Inv PROVE UnLugar
  OBVIOUS
<1>1. ASSUME NEW p \in PIDS PROVE Cardinality(Lugares(p)) = IF p \in vivos THEN 1 ELSE 0
  <2>1. PICK A, B, C, D, E, F, G :
             /\ Lugares(p) = A \cup B \cup C \cup D \cup E \cup F \cup G
             /\ Solo(A, p \in Ejecutando) /\ Solo(B, p \in Manos) /\ Solo(C, p \in EnPlanif)
             /\ Solo(D, p \in EnReady) /\ Solo(E, p \in block) /\ Solo(F, p \in susp_block)
             /\ Solo(G, p \in susp_ready)
    BY <1>1, LugaresDe
  <2>2. /\ Disjuntos(Ejecutando, EnReady, Manos, EnPlanif, block, susp_block, susp_ready)
        /\ vivos = Vivos(Ejecutando, EnReady, Manos, EnPlanif, block, susp_block, susp_ready)
    BY DEF Inv, Sitios
  <2>3. CASE p \notin vivos
    <3>1. Lugares(p) = {}
      BY <2>1, <2>2, <2>3 DEF Vivos, Solo
    <3>2. QED
      BY <2>3, <3>1, FS_EmptySet
  <2>4. CASE p \in vivos
    <3>1. \E x : A \cup B \cup C \cup D \cup E \cup F \cup G = {x}
      <4>1. p \in Ejecutando => p \notin EnReady \cup Manos \cup EnPlanif \cup block
                                    \cup susp_block \cup susp_ready
        BY <2>2 DEF Disjuntos
      <4>2. p \in EnReady => p \notin Manos \cup EnPlanif \cup block \cup susp_block \cup susp_ready
        BY <2>2 DEF Disjuntos
      <4>3. p \in Manos => p \notin EnPlanif \cup block \cup susp_block \cup susp_ready
        BY <2>2 DEF Disjuntos
      <4>4. p \in EnPlanif => p \notin block \cup susp_block \cup susp_ready
        BY <2>2 DEF Disjuntos
      <4>5. /\ p \in block => p \notin susp_block \cup susp_ready
            /\ p \in susp_block => p \notin susp_ready
        BY <2>2 DEF Disjuntos
      <4>6. \/ p \in Ejecutando \/ p \in EnReady \/ p \in Manos \/ p \in EnPlanif \/ p \in block
            \/ p \in susp_block \/ p \in susp_ready
        BY <2>2, <2>4 DEF Vivos
      <4>7. CASE p \in Ejecutando
        BY <2>1, <4>1, <4>7 DEF Solo
      <4>8. CASE p \in EnReady
        BY <2>1, <4>1, <4>2, <4>8 DEF Solo
      <4>9. CASE p \in Manos
        BY <2>1, <4>1, <4>2, <4>3, <4>9 DEF Solo
      <4>10. CASE p \in EnPlanif
        BY <2>1, <4>1, <4>2, <4>3, <4>4, <4>10 DEF Solo
      <4>11. CASE p \in block \cup susp_block \cup susp_ready
        BY <2>1, <4>1, <4>2, <4>3, <4>4, <4>5, <4>11 DEF Solo
      <4>12. QED
        BY <4>6, <4>7, <4>8, <4>9, <4>10, <4>11
    <3>2. QED
      BY <2>1, <2>4, <3>1, FS_Singleton
  <2>5. QED
    BY <2>3, <2>4
<1>2. \A h \in HILOS : manejador[h].paso = "de_susp_block" => manejador[h].otro \in susp_block
  BY DEF Inv, Despiertos
<1>3. QED
  BY <1>1, <1>2 DEF UnLugar

-----------------------------------------------------------------------------
(* The theorems.                                                             *)

\* The hypothesis of the theorems: the notices of Kernel Memory name nobody
\* whose desuspender_proceso is answered without one.  It leaves out what
\* utils_scheduler.c:822 allows, that a notice resumes the process while the
\* thread that woke it resumes it too: that process would be in two places.
AvisosOportunos == SIN_MEMORIA \cap AVISADOS = {}

\* Whatever the threads of the scheduler do, the invariant holds.
THEOREM Siempre ==
    ASSUME AvisosOportunos
    PROVE  Spec => []Inv
<1>1. Init => Inv
  BY InicioInv
<1>2. Inv /\ [Next]_vars => Inv'
  BY PasoInv DEF AvisosOportunos
<1>3. QED
  BY <1>1, <1>2, PTL DEF Spec

\* The queues, the lists and the records of the threads keep their types.
THEOREM TipoSiempre ==
    ASSUME AvisosOportunos
    PROVE  Spec => []TypeOK
<1>1. Inv => TypeOK
  BY DEF Inv
<1>2. QED
  BY <1>1, Siempre, PTL

\* A mutex is held by one program at a time, the recorded owner, however it
\* got it: free at MUTEX_LOCK, handed over by MUTEX_UNLOCK, or left by a
\* process that ended.
THEOREM ExclusionSiempre ==
    ASSUME AvisosOportunos
    PROVE  Spec => []Exclusion
<1>1. Inv => Exclusion
  BY InvExclusion
<1>2. QED
  BY <1>1, Siempre, PTL

\* The counter of a mutex counts its queue, and whoever called MUTEX_LOCK is
\* in that queue, once and blocked, or has been given the mutex: nobody waits
\* for a mutex that no longer knows of it.
THEOREM EsperaSiempre ==
    ASSUME AvisosOportunos
    PROVE  Spec => []EsperaConsistente
<1>1. Inv => EsperaConsistente
  BY InvEspera
<1>2. QED
  BY <1>1, Siempre, PTL

\* A mutex whose owner ended is on its way to somebody else: its EXIT has not
\* yet finished with the list of mutexes.
THEOREM HuerfanosNunca ==
    ASSUME AvisosOportunos
    PROVE  Spec => []SinHuerfanos
<1>1. Inv => SinHuerfanos
  BY DEF Inv, Repartidos
<1>2. QED
  BY <1>1, Siempre, PTL

\* A program that runs and owns no mutex has its own priority again: what it
\* inherited goes back with the last MUTEX_UNLOCK, whoever lent it and however
\* many times.
THEOREM DevuelveSiempre ==
    ASSUME AvisosOportunos
    PROVE  Spec => []DevuelvePrioridad
<1>1. Inv => DevuelvePrioridad
  BY InvDevuelve
<1>2. QED
  BY <1>1, Siempre, PTL

\* A live process is in one place: one CPU, one ready queue, one list of the
\* blocked ones, the hands of one thread or those of the planner; and whoever
\* buscar_y_sacar_de_block looks for is there.
THEOREM LugarSiempre ==
    ASSUME AvisosOportunos
    PROVE  Spec => []UnLugar
<1>1. Inv => UnLugar
  BY InvLugar
<1>2. QED
  BY <1>1, Siempre, PTL

-----------------------------------------------------------------------------
(* The mutexes are the lines of Turnos.                                      *)

\* Who is in line for the mutex m.
EnFila(m) == IF Tomado(m) THEN <<m.pid>> \o m.colaEspera ELSE <<>>

\* The line of a mutex is its owner and its queue,
LEMMA LineaEs ==
    ASSUME Cuentas, NEW i \in DOMAIN lista_mutex
    PROVE  Linea(lista_mutex[i].nombre) = EnFila(lista_mutex[i])
BY IndiceEs DEF Linea, EnFila

\* also after the step.
LEMMA LineaEsDespues ==
    ASSUME Cuentas', NEW i \in DOMAIN lista_mutex', NEW n, lista_mutex'[i].nombre = n
    PROVE  Linea(n)' = EnFila(lista_mutex'[i])
<1> DEFINE P(j) == j \in DOMAIN lista_mutex' /\ lista_mutex'[j].nombre = n
<1>1. P(i) /\ \A j : P(j) => j = i
  BY DEF Cuentas
<1>2. (CHOOSE j \in DOMAIN lista_mutex' : lista_mutex'[j].nombre = n) = i
  BY <1>1
<1>3. Indice(n)' = i
  BY <1>2 DEF Indice
<1>4. Creado(n)'
  BY DEF Creado
<1>5. QED
  BY <1>3, <1>4 DEF Linea, EnFila, Tomado

\* The lines depend on the list of mutexes only.
LEMMA LineaQuieta ==
    ASSUME UNCHANGED lista_mutex, NEW n
    PROVE  Linea(n)' = Linea(n)
<1>1. Indice(n)' = Indice(n) /\ (Creado(n)' <=> Creado(n))
  BY DEF Indice, Creado
<1>2. QED
  BY <1>1 DEF Linea, Tomado

\* One mutex changes.
LEMMA LineaCambia ==
    ASSUME Cuentas, Cuentas', NEW i, Cambia(i), NEW n
    PROVE  Linea(n)' = IF n = lista_mutex[i].nombre THEN EnFila(lista_mutex'[i]) ELSE Linea(n)
<1>1. /\ i \in DOMAIN lista_mutex /\ DOMAIN lista_mutex' = DOMAIN lista_mutex
      /\ \A j \in DOMAIN lista_mutex : j # i => lista_mutex'[j] = lista_mutex[j]
      /\ lista_mutex'[i].nombre = lista_mutex[i].nombre
  BY DEF Cambia
<1>2. CASE n = lista_mutex[i].nombre
  BY <1>1, <1>2, LineaEsDespues
<1>3. CASE n # lista_mutex[i].nombre /\ Creado(n)
  <2>1. PICK j \in DOMAIN lista_mutex : lista_mutex[j].nombre = n
    BY <1>3 DEF Creado
  <2>2. j # i /\ lista_mutex'[j] = lista_mutex[j]
    BY <1>1, <1>3, <2>1
  <2>3. Linea(n) = EnFila(lista_mutex[j])
    BY <2>1, LineaEs
  <2>4. Linea(n)' = EnFila(lista_mutex'[j])
    BY <1>1, <2>1, <2>2, LineaEsDespues
  <2>5. QED
    BY <1>3, <2>2, <2>3, <2>4
<1>4. CASE n # lista_mutex[i].nombre /\ ~Creado(n)
  <2>1. ~Creado(n)'
    BY <1>1, <1>4 DEF Creado
  <2>2. QED
    BY <1>4, <2>1 DEF Linea
<1>5. QED
  BY <1>2, <1>3, <1>4

\* One more mutex is nobody's turn.
LEMMA LineaAgrega ==
    ASSUME Cuentas, Cuentas', NEW m, Agrega(m), NEW n
    PROVE  Linea(n)' = Linea(n)
<1>1. CASE Creado(n)
  <2>1. PICK j \in DOMAIN lista_mutex : lista_mutex[j].nombre = n
    BY <1>1 DEF Creado
  <2>2. j \in DOMAIN lista_mutex' /\ lista_mutex'[j] = lista_mutex[j]
    BY DEF Agrega
  <2>3. Linea(n) = EnFila(lista_mutex[j])
    BY <2>1, LineaEs
  <2>4. Linea(n)' = EnFila(lista_mutex'[j])
    BY <2>1, <2>2, LineaEsDespues
  <2>5. QED
    BY <2>2, <2>3, <2>4
<1>2. CASE ~Creado(n) /\ Creado(n)'
  <2>1. PICK j \in DOMAIN lista_mutex' : lista_mutex'[j].nombre = n
    BY <1>2 DEF Creado
  <2>2. j \notin DOMAIN lista_mutex
    BY <1>2, <2>1 DEF Creado, Agrega
  <2>3. lista_mutex'[j] = Mutex(m)
    BY <2>1, <2>2 DEF Agrega
  <2>4. EnFila(lista_mutex'[j]) = <<>>
    BY <2>3 DEF EnFila, Mutex, Tomado
  <2>5. Linea(n)' = <<>>
    BY <2>1, <2>4, LineaEsDespues
  <2>6. QED
    BY <1>2, <2>5 DEF Linea
<1>3. CASE ~Creado(n) /\ ~Creado(n)'
  BY <1>3 DEF Linea
<1>4. QED
  BY <1>1, <1>2, <1>3

\* The lines as Turnos sees them.
Turno == [n \in MUTEX |-> Linea(n)]

\* If no line changes neither does the function of them,
LEMMA TurnoQuieto ==
    ASSUME \A n \in MUTEX : Linea(n)' = Linea(n)
    PROVE  Turno' = Turno
BY DEF Turno

\* and if one does it changes there.
LEMMA TurnoPone ==
    ASSUME NEW n \in MUTEX, NEW s, \A k \in MUTEX : Linea(k)' = IF k = n THEN s ELSE Linea(k)
    PROVE  Turno' = [Turno EXCEPT ![n] = s]
BY DEF Turno

\* A step that Turnos does not see.
LEMMA RefinaQuieto ==
    ASSUME \A n \in MUTEX : Linea(n)' = Linea(n), UNCHANGED <<tiene, vivos>>
    PROVE  UNCHANGED Abstracto!vars
<1>1. Turno' = Turno
  BY TurnoQuieto
<1>2. QED
  BY <1>1 DEF Turno, Abstracto!vars

\* MUTEX_LOCK takes a turn at the end of the line.
LEMMA RefinaLock ==
    ASSUME Inv, Inv', NEW c \in CPUS, NEW n \in MUTEX, Lock(c, n)
    PROVE  Abstracto!Next
<1> DEFINE i == Indice(n)
<1>0. PICK p \in PIDS : p = cpu[c]
  BY LockPaso DEF Inv
<1>1. /\ manejador[c] = Libre /\ p \in PIDS /\ lista_mutex[i].nombre = n
      /\ UNCHANGED vivos
      /\ \/ /\ Toma(i, p) /\ tiene' = [tiene EXCEPT ![p] = @ \cup {n}]
         \/ /\ Une(i, p) /\ UNCHANGED tiene
  BY <1>0, LockPaso DEF Inv
<1>2. /\ Cuentas /\ Cuentas' /\ Cambia(i) /\ i \in DOMAIN lista_mutex
  BY <1>1 DEF Inv, Toma, Une, Cambia
<1>3. p \in vivos /\ pide[p] = Nadie
  BY <1>0, <1>1, SupuestosMutex, CorreSinPedir DEF Inv, Sitios, Vivos, Ejecutando
<1>4. Linea(n) = EnFila(lista_mutex[i])
  BY <1>1, <1>2, LineaEs
<1>5. lista_mutex[i].colaEspera \in Seq(PIDS)
  BY <1>2, UnMutex DEF Inv
<1>6. p \notin ToSet(lista_mutex[i].colaEspera)
  BY <1>2, <1>3, QuienEspera DEF Inv, Esperan
<1> HIDE DEF i
<1>7. EnFila(lista_mutex'[i]) = Append(Linea(n), p)
  <2>1. CASE Toma(i, p)
    <3>1. EnFila(lista_mutex[i]) = <<>> /\ EnFila(lista_mutex'[i]) = <<p>> \o <<>>
      BY <2>1 DEF Toma, EnFila
    <3>2. QED
      BY <1>4, <3>1
  <2>2. CASE Une(i, p)
    <3> DEFINE s == lista_mutex[i].colaEspera
               o == lista_mutex[i].pid
    <3>1. /\ EnFila(lista_mutex[i]) = <<o>> \o s
          /\ EnFila(lista_mutex'[i]) = <<o>> \o Append(s, p)
      BY <2>2 DEF Une, EnFila
    <3>2. o \in PIDS
      BY <1>2, <2>2 DEF Cuentas, Une
    <3> HIDE DEF s, o
    <3>3. s \in Seq(PIDS)
      BY <1>5 DEF s
    <3>4. <<o>> \o Append(s, p) = Append(<<o>> \o s, p)
      BY <1>1, <3>2, <3>3
    <3>5. QED
      BY <1>4, <3>1, <3>4
  <2>3. QED
    BY <1>1, <2>1, <2>2
<1>8. \A k \in DOMAIN Linea(n) : Linea(n)[k] # p
  <2>1. CASE Toma(i, p)
    <3>1. Linea(n) = <<>>
      BY <1>4, <2>1 DEF Toma, EnFila
    <3>2. QED
      BY <3>1
  <2>2. CASE Une(i, p)
    <3>1. lista_mutex[i].pid # p
      <4>1. SUFFICES ASSUME lista_mutex[i].pid = p PROVE FALSE
        OBVIOUS
      <4>2. n \in tiene[p] \/ pide[p] = n
        BY <1>1, <1>2, <1>3, <2>2, <4>1 DEF Inv, Espera, Une
      <4>3. n # Nadie
        BY SupuestosMutex
      <4>4. n \notin tiene[p]
        BY <1>0, LockPaso DEF Inv
      <4>5. QED
        BY <1>3, <4>2, <4>3, <4>4
    <3> DEFINE s == lista_mutex[i].colaEspera
               o == lista_mutex[i].pid
    <3>2. Linea(n) = <<o>> \o s
      BY <1>4, <2>2 DEF Une, EnFila
    <3>3. \A k \in DOMAIN s : s[k] # p
      BY <1>6 DEF ToSet
    <3> HIDE DEF s
    <3>4. s \in Seq(PIDS)
      BY <1>5 DEF s
    <3>5. DOMAIN (<<o>> \o s) = 1 .. Len(s) + 1 /\ Len(s) \in Nat
      BY <3>4
    <3>6. ASSUME NEW k \in DOMAIN (<<o>> \o s) PROVE (<<o>> \o s)[k] # p
      <4>1. CASE k = 1
        BY <3>1, <3>4, <4>1
      <4>2. CASE k # 1
        <5>1. k - 1 \in 1 .. Len(s) /\ (<<o>> \o s)[k] = s[k - 1]
          BY <3>4, <3>5, <3>6, <4>2
        <5>2. QED
          BY <3>3, <3>4, <5>1
      <4>3. QED
        BY <4>1, <4>2
    <3>7. QED
      BY <3>2, <3>6
  <2>3. QED
    BY <1>1, <2>1, <2>2
<1>9. \A k \in MUTEX : Linea(k)' = IF k = n THEN Append(Linea(n), p) ELSE Linea(k)
  BY <1>1, <1>2, <1>7, LineaCambia
<1>10. Turno' = [Turno EXCEPT ![n] = Append(@, p)]
  <2>1. Turno' = [Turno EXCEPT ![n] = Append(Linea(n), p)]
    BY <1>9, TurnoPone
  <2>2. Turno[n] = Linea(n)
    BY DEF Turno
  <2>3. QED
    BY <2>1, <2>2
<1>11. UNCHANGED tiene \/ /\ tiene' = [tiene EXCEPT ![p] = @ \cup {n}]
                          /\ Linea(n)' # <<>> /\ Head(Linea(n)') = p
  <2>1. CASE Toma(i, p) /\ tiene' = [tiene EXCEPT ![p] = @ \cup {n}]
    <3>1. Linea(n) = <<>>
      BY <1>4, <2>1 DEF Toma, EnFila
    <3>2. Linea(n)' = <<p>>
      BY <1>9, <3>1
    <3>3. QED
      BY <2>1, <3>2
  <2>2. QED
    BY <1>1, <2>1
<1>12. Abstracto!Pedir(p, n)
  BY <1>1, <1>3, <1>8, <1>10, <1>11 DEF Turno, Abstracto!Pedir, Abstracto!EnLinea, Abstracto!Primero
<1>13. QED
  BY <1>1, <1>12 DEF Abstracto!Next

\* A mutex passes on, or is freed: the line moves.
LEMMA LineaCede ==
    ASSUME TypeOK, Cuentas, Cuentas', NEW i, Entrega(i) \/ Suelta(i), NEW n \in MUTEX,
           lista_mutex[i].nombre = n
    PROVE  /\ Linea(n) # <<>> /\ Head(Linea(n)) = lista_mutex[i].pid
           /\ Turno' = [Turno EXCEPT ![n] = Tail(@)]
<1> DEFINE s == lista_mutex[i].colaEspera
           o == lista_mutex[i].pid
<1>1. i \in DOMAIN lista_mutex /\ Cambia(i) /\ Tomado(lista_mutex[i])
  BY DEF Entrega, Suelta, Cambia
<1>2. s \in Seq(PIDS)
  BY <1>1, UnMutex
<1>3. Linea(n) = <<o>> \o s
  BY <1>1, LineaEs DEF EnFila
<1>4. EnFila(lista_mutex'[i]) = s
  <2>1. CASE Suelta(i)
    BY <2>1 DEF Suelta, EnFila
  <2>2. CASE Entrega(i)
    <3>1. EnFila(lista_mutex'[i]) = <<Head(s)>> \o Tail(s) /\ s # <<>>
      BY <2>2 DEF Entrega, EnFila
    <3> HIDE DEF s
    <3>2. <<Head(s)>> \o Tail(s) = s
      BY <1>2, <3>1
    <3>3. QED
      BY <3>1, <3>2
  <2>3. QED
    BY <2>1, <2>2
<1>5. \A k \in MUTEX : Linea(k)' = IF k = n THEN s ELSE Linea(k)
  BY <1>1, <1>4, LineaCambia
<1> HIDE DEF s, o
<1>6. Tail(<<o>> \o s) = s /\ Head(<<o>> \o s) = o /\ <<o>> \o s # <<>>
  BY <1>2
<1>7. Turno' = [Turno EXCEPT ![n] = s]
  BY <1>5, TurnoPone
<1>8. Turno[n] = Linea(n)
  BY DEF Turno
<1>9. QED
  BY <1>3, <1>6, <1>7, <1>8 DEF o

\* MUTEX_UNLOCK leaves the head of the line.
LEMMA RefinaUnlock ==
    ASSUME Inv, Inv', NEW c \in CPUS, NEW n \in MUTEX, Unlock(c, n)
    PROVE  Abstracto!Next
<1> DEFINE p == cpu[c]
           i == Indice(n)
<1>1. /\ p \in PIDS /\ lista_mutex[i].nombre = n /\ n \in tiene[p] /\ lista_mutex[i].pid = p
      /\ tiene' = [tiene EXCEPT ![p] = @ \ {n}] /\ UNCHANGED vivos
      /\ Entrega(i) \/ Suelta(i)
  BY UnlockPaso DEF Inv
<1> HIDE DEF i, p
<1>2. Turno' = [Turno EXCEPT ![n] = Tail(@)]
  BY <1>1, LineaCede DEF Inv
<1>3. Abstracto!Soltar(p, n)
  BY <1>1, <1>2 DEF Turno, Abstracto!Soltar
<1>4. QED
  BY <1>1, <1>3 DEF Abstracto!Next

\* So does each mutex that the death of its owner frees.
LEMMA RefinaMuerte ==
    ASSUME Inv, Inv', NEW c \in CPUS, LiberarPorMuerte(c)
    PROVE  Abstracto!Next
<1> DEFINE p == manejador[c].pid
<1>1. /\ manejador[c].paso = "muerte" /\ UNCHANGED <<tiene, vivos>> /\ c \in HILOS
      /\ \E i \in DOMAIN lista_mutex : Libera(c, i)
  BY MuertePaso DEF Inv, programa, HILOS
<1>2. PICK i \in DOMAIN lista_mutex : Libera(c, i)
  BY <1>1
<1>3. lista_mutex[i].pid = p /\ (Entrega(i) \/ Suelta(i))
  BY <1>2 DEF Libera
<1>4. p \in PIDS /\ p \notin vivos
  BY <1>1, LlamadaDe DEF Inv
<1>5. PICK n \in MUTEX : n = lista_mutex[i].nombre
  BY UnMutex DEF Inv
<1> HIDE DEF p
<1>6. Linea(n) # <<>> /\ Head(Linea(n)) = p /\ Turno' = [Turno EXCEPT ![n] = Tail(@)]
  BY <1>3, <1>5, LineaCede DEF Inv
<1>7. Abstracto!Heredar(p, n)
  BY <1>1, <1>4, <1>6 DEF Turno, Abstracto!Heredar, Abstracto!Primero
<1>8. QED
  BY <1>4, <1>7 DEF Abstracto!Next

\* EXIT ends the program.
LEMMA RefinaExit ==
    ASSUME Inv, NEW c \in CPUS, Exit(c)
    PROVE  Abstracto!Next
<1>1. /\ cpu[c] \in PIDS /\ vivos' = vivos \ {cpu[c]} /\ tiene' = [tiene EXCEPT ![cpu[c]] = {}]
      /\ UNCHANGED lista_mutex
  BY ExitEfecto DEF Inv
<1>2. Turno' = Turno
  BY <1>1, LineaQuieta, TurnoQuieto
<1>3. Abstracto!Morir(cpu[c])
  BY <1>1, <1>2 DEF Turno, Abstracto!Morir
<1>4. QED
  BY <1>1, <1>3 DEF Abstracto!Next

\* Who comes back from MUTEX_LOCK is first in the line.
LEMMA RefinaEnviar ==
    ASSUME Inv, NEW c \in CPUS, Enviar(c)
    PROVE  Abstracto!Next
<1> DEFINE p == planif.pcb
           ms == {pide[p]} \ {Nadie}
<1>1. /\ p \in EnPlanif /\ p \in PIDS /\ tiene' = [tiene EXCEPT ![p] = @ \cup ms]
      /\ UNCHANGED <<lista_mutex, vivos>>
  BY EnviarEfecto DEF Inv
<1> HIDE DEF p
<1>2. \A i \in DOMAIN lista_mutex : p \notin Esperan(lista_mutex[i])
  BY <1>1, EnviadoNoEspera DEF Inv
<1>3. ASSUME NEW n \in ms PROVE n \in MUTEX /\ Linea(n) # <<>> /\ Head(Linea(n)) = p
  <2>1. n = pide[p] /\ n # Nadie /\ n \in MUTEX
    BY <1>1, <1>3 DEF Inv, TypeOK
  <2>2. PICK i \in DOMAIN lista_mutex :
           lista_mutex[i].nombre = n /\ Tomado(lista_mutex[i]) /\ lista_mutex[i].pid = p
    BY <1>1, <1>2, <2>1 DEF Inv, Espera, Duenio
  <2>3. Linea(n) = <<p>> \o lista_mutex[i].colaEspera
    BY <2>2, LineaEs DEF EnFila, Inv
  <2>4. lista_mutex[i].colaEspera \in Seq(PIDS)
    BY UnMutex DEF Inv
  <2>5. QED
    BY <2>1, <2>3, <2>4
<1> HIDE DEF ms
<1>4. Turno' = Turno
  BY <1>1, LineaQuieta, TurnoQuieto
<1>5. ms \in SUBSET MUTEX
  BY <1>3
<1>6. Abstracto!Entrar(p, ms)
  BY <1>1, <1>3, <1>4 DEF Turno, Abstracto!Entrar, Abstracto!Primero
<1>7. QED
  BY <1>1, <1>5, <1>6 DEF Abstracto!Next

\* Every step is one of Turnos, or none.
LEMMA RefinaPaso ==
    ASSUME Inv, Inv', [Next]_vars
    PROVE  [Abstracto!Next]_(Abstracto!vars)
<1>1. CASE UNCHANGED vars
  <2>1. UNCHANGED <<lista_mutex, tiene, vivos>>
    BY <1>1 DEF vars, programa
  <2>2. QED
    BY <2>1, LineaQuieta, RefinaQuieto
<1>2. CASE Sosiego
  <2>1. UNCHANGED <<lista_mutex, tiene, vivos>>
    BY <1>2 DEF Sosiego, programa
  <2>2. QED
    BY <2>1, LineaQuieta, RefinaQuieto
<1>3. ASSUME NEW c \in CPUS, NEW n \in MUTEX, Crear(c, n) PROVE UNCHANGED Abstracto!vars
  <2>1. Agrega(n) /\ UNCHANGED <<tiene, vivos>>
    BY <1>3, CrearPaso DEF Inv, programa
  <2>2. QED
    BY <2>1, LineaAgrega, RefinaQuieto DEF Inv
<1>4. ASSUME NEW c \in CPUS, Escribe(c) PROVE [Abstracto!Next]_(Abstracto!vars)
  BY <1>3, <1>4, RefinaExit, RefinaMuerte, RefinaEnviar, RefinaLock, RefinaUnlock DEF Escribe
<1>5. CASE Next
  BY <1>2, <1>4, <1>5, SosiegoOEscribe DEF Inv
<1>6. QED
  BY <1>1, <1>5

\* The list of mutexes begins empty, and so does every line.
LEMMA RefinaInicio == ASSUME Init PROVE Abstracto!Init
<1>1. Inv
  BY InicioInv
<1>2. \A i \in DOMAIN lista_mutex : ~Tomado(lista_mutex[i])
  <2>1. PICK orden \in SetToSeqs(CREADOS) : lista_mutex = [i \in DOMAIN orden |-> Mutex(orden[i])]
    BY DEF Init
  <2>2. QED
    BY <2>1 DEF Mutex, Tomado
<1>3. ASSUME NEW n \in MUTEX PROVE Linea(n) = <<>>
  <2>1. CASE Creado(n)
    <3>1. PICK i \in DOMAIN lista_mutex : lista_mutex[i].nombre = n
      BY <2>1 DEF Creado
    <3>2. QED
      BY <1>1, <1>2, <3>1, LineaEs DEF EnFila, Inv
  <2>2. CASE ~Creado(n)
    BY <2>2 DEF Linea
  <2>3. QED
    BY <2>1, <2>2
<1>4. tiene = [p \in PIDS |-> {}] /\ vivos = PIDS
  BY DEF Init
<1>5. QED
  BY <1>3, <1>4 DEF Abstracto!Init

\* The mutexes of the scheduler are lines in which each program takes its turn:
\* MUTEX_LOCK joins the end, and only the head, which has the mutex, leaves.
THEOREM SonTurnos ==
    ASSUME AvisosOportunos
    PROVE  Spec => ImplementaTurnos
<1>1. Init => Abstracto!Init
  BY RefinaInicio
<1>2. Inv /\ Inv' /\ [Next]_vars => [Abstracto!Next]_(Abstracto!vars)
  BY RefinaPaso
<1>3. QED
  BY <1>1, <1>2, Siempre, PTL DEF Spec, ImplementaTurnos, Abstracto!Spec
=============================================================================
