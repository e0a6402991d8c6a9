-------------------------- MODULE SuspensionProofs --------------------------
(***************************************************************************)
(* The properties of Suspension proved for any number of processes, CPUs,  *)
(* devices and notices.  In the order of the proofs:                       *)
(*                                                                         *)
(*   TypeOK            on its own: what kernel_memory does to its holes    *)
(*                     stays within the memory;                            *)
(*   CadaUnoEnSuLugar  every process is in one list, and in swap just      *)
(*                     while that list says so;                            *)
(*   Pedidos           every request is of a blocked process, in one place *)
(*   SinPerderse       and with both of them, every device is accounted    *)
(*                     for;                                                *)
(*   Texto             a text is in memory, or carried by the process;     *)
(*   NadieOlvidado     is inductive given CadaUnoEnSuLugar.                *)
(***************************************************************************)
EXTENDS Suspension, ListasProofs

(* The lists of the scheduler.                                             *)

\* list_add_sorted puts the process in the list, wherever its priority says.
LEMMA OrdenadaAgrega ==
    ASSUME NEW s \in Seq(PIDS), NEW p \in PIDS
    PROVE  /\ Ordenada(s, p) \in Seq(PIDS)
           /\ ToSet(Ordenada(s, p)) = ToSet(s) \cup {p}
           /\ IsInjective(s) /\ p \notin ToSet(s) => IsInjective(Ordenada(s, p))
<1> DEFINE T == {i \in 1 .. Len(s) : prioridad[p] < prioridad[s[i]]}
           i == IF T # {} THEN Min(T) ELSE 0
<1>1. Ordenada(s, p) = IF i = 0 THEN Append(s, p) ELSE InsertAt(s, i, p)
  BY Zenon DEF Ordenada, SelectInSeq
<1>2. i = 0 \/ i \in 1 .. Len(s)
  <2>1. T \in SUBSET Nat
    OBVIOUS
  <2>2. QED
    BY <2>1, HayPrimero
<1> HIDE DEF i, T
<1>3. CASE i = 0
  BY <1>1, <1>3, AlFinal
<1>4. CASE i \in 1 .. Len(s)
  BY <1>1, <1>4, EnMedio
<1>5. QED
  BY <1>2, <1>3, <1>4

\* The scan of susp_ready finds the first process of the notice, if it names one of the list.
LEMMA NombradoEs ==
    ASSUME susp_ready \in Seq(PIDS)
    PROVE  /\ Nombrado # 0 => /\ Nombrado \in 1 .. Len(susp_ready)
                              /\ susp_ready[Nombrado] \in Head(avisos)
           /\ Nombrado = 0 => ToSet(susp_ready) \cap Head(avisos) = {}
<1> DEFINE T == {i \in 1 .. Len(susp_ready) : susp_ready[i] \in Head(avisos)}
<1>1. Nombrado = IF T # {} THEN Min(T) ELSE 0
  BY Zenon DEF Nombrado, SelectInSeq
<1>2. T # {} => Min(T) \in T
  <2>1. T \in SUBSET Nat
    OBVIOUS
  <2> HIDE DEF T
  <2>2. QED
    BY <2>1, HayPrimero
<1>3. T = {} => ToSet(susp_ready) \cap Head(avisos) = {}
  BY DEF ToSet
<1>4. \A i \in T : i # 0 /\ i \in 1 .. Len(susp_ready) /\ susp_ready[i] \in Head(avisos)
  OBVIOUS
<1> HIDE DEF T
<1>5. QED
  BY <1>1, <1>2, <1>3, <1>4

-----------------------------------------------------------------------------
(* The parts of the inductive invariants.                                  *)

\* Every process is in one list: those that a process can leave only for another one are
\* disjoint, no CPU shares its process, and none is twice in SUSP READY.
Lugares ==
    /\ \A c, e \in CPUS : exec[c] # NULL /\ exec[c] = exec[e] => c = e
    /\ \A c \in CPUS : exec[c] \notin ready \cup block \cup susp_block \cup EnTraslado
                                      \cup EnSuspReady \cup rechazados
    /\ ready \cap (block \cup susp_block \cup EnTraslado \cup EnSuspReady \cup rechazados) = {}
    /\ block \cap (susp_block \cup EnTraslado \cup EnSuspReady \cup rechazados) = {}
    /\ susp_block \cap (EnTraslado \cup EnSuspReady \cup rechazados) = {}
    /\ EnTraslado \cap (EnSuspReady \cup rechazados) = {}
    /\ EnSuspReady \cap rechazados = {}
    /\ IsInjective(susp_ready)

\* What a thread has in hand: a device's thread the process it takes to SUSP READY, which is
\* there once it only has to ask for it; the thread of a CPU in STDOUT the process that runs.
Hilos ==
    /\ \A d, e \in DISPOSITIVOS :
          hilo_io[d].paso \in {"agregar", "pedir"} /\ hilo_io[d] = hilo_io[e] => d = e
    /\ \A d \in DISPOSITIVOS : hilo_io[d].paso = "pedir" => hilo_io[d].pid \in EnSuspReady
    /\ \A c \in CPUS : hilo_cpu[c].paso \in {"espera_stdout", "bloquear"} =>
                          exec[c] = hilo_cpu[c].pid

\* The processes that wait for device d or are being served by it.
Pendientes(d) == ToSet(cola[d]) \cup ToSet(en_io[d])

\* A request is somewhere once, and of a process in BLOCK or SUSP BLOCK: in the queue of a
\* device, sent to it, or in the hands of the thread of a CPU that has not queued it yet.
Pedidos ==
    /\ \A d \in DISPOSITIVOS :
          /\ IsInjective(cola[d]) /\ IsInjective(en_io[d])
          /\ ToSet(cola[d]) \cap ToSet(en_io[d]) = {}
          /\ Pendientes(d) \subseteq block \cup susp_block
    /\ \A d, e \in DISPOSITIVOS : d # e => Pendientes(d) \cap Pendientes(e) = {}
    /\ \A c \in CPUS : hilo_cpu[c].paso \in {"armar", "leer"} =>
          /\ hilo_cpu[c].pid \in block \cup susp_block
          /\ \A d \in DISPOSITIVOS : hilo_cpu[c].pid \notin Pendientes(d)
    /\ \A c, e \in CPUS :
          /\ hilo_cpu[c].paso \in {"armar", "leer"} /\ hilo_cpu[e].paso \in {"armar", "leer"}
          /\ hilo_cpu[c].pid = hilo_cpu[e].pid
          => c = e

\* Who waits for a text at an address he holds.
ConDestino == espera_texto \ destino_invalido

\* He does not run, asks for nothing but the text and, on the way back from swap, carries it whole
\* in cadenaStdin.
Texto ==
    /\ ConDestino \cap (ready \cup {exec[c] : c \in CPUS}) = {}
    /\ \A d \in DISPOSITIVOS : d # "STDIN" => Pendientes(d) \cap ConDestino = {}
    /\ \A c \in CPUS : hilo_cpu[c].paso \in {"armar", "leer"} /\ hilo_cpu[c].io # "STDIN" =>
          hilo_cpu[c].pid \notin ConDestino
    /\ \A p \in ConDestino \cap (EnTraslado \cup EnSuspReady) : cadena[p] = "entero"

\* The answer to DESUSPENDER_PROCESO, whichever it is.
Reanuda(p) == Desuspender(p) \/ DesuspensionRechazada(p)

-----------------------------------------------------------------------------
(* Types.                                                                  *)

\* Handing out the first bytes of a hole stays within the memory.
LEMMA TomarTipo ==
    ASSUME NEW hs \in SUBSET EnMemoria, NEW tamanio \in Nat, NEW h \in EncontrarHueco(hs, tamanio)
    PROVE  /\ Achicar(hs, h, tamanio) \in SUBSET EnMemoria
           /\ [base |-> h.base, limite |-> tamanio] \in EnMemoria
<1>1. h \in hs /\ h \in Hueco /\ h.limite >= tamanio /\ h.base + h.limite <= MEMORIA
  BY DEF EncontrarHueco, Elegido, Caben, EnMemoria, Fin
<1>2. /\ h.base \in Nat /\ h.limite \in Nat /\ h.limite - tamanio \in Nat /\ h.base + tamanio \in Nat
      /\ MEMORIA \in Nat
  BY <1>1, SuspensionAssumption DEF Hueco
<1>3. [base |-> h.base + tamanio, limite |-> h.limite - tamanio] \in EnMemoria
  BY <1>1, <1>2 DEF Hueco, EnMemoria, Fin
<1>4. [base |-> h.base, limite |-> tamanio] \in EnMemoria
  BY <1>1, <1>2 DEF Hueco, EnMemoria, Fin
<1>5. QED
  BY <1>3, <1>4 DEF Achicar

\* So does giving a range back.
LEMMA DevolverTipo ==
    ASSUME NEW hs \in SUBSET EnMemoria, NEW n \in EnMemoria
    PROVE  InsertarYFusionar(hs, n) \in SUBSET EnMemoria
<1> DEFINE sig == Siguiente(hs, n)
           ant == Anterior(hs, n)
           desde == IF ant = {} THEN n.base ELSE (CHOOSE h \in ant : TRUE).base
           hasta == IF sig = {} THEN Fin(n) ELSE Fin(CHOOSE h \in sig : TRUE)
<1>1. MEMORIA \in Nat
  BY SuspensionAssumption
<1>2. desde \in Nat /\ desde <= n.base
  <2>1. CASE ant = {}
    BY <2>1 DEF Hueco, EnMemoria
  <2>2. CASE ant # {}
    <3>1. (CHOOSE h \in ant : TRUE) \in ant
      BY <2>2
    <3>2. \A h \in ant : h \in Hueco /\ h.base <= n.base
      BY DEF Anterior, EnMemoria
    <3>3. QED
      BY <2>2, <3>1, <3>2 DEF Hueco
  <2>3. QED
    BY <2>1, <2>2
<1>3. hasta \in Nat /\ hasta >= Fin(n) /\ hasta <= MEMORIA
  <2>1. CASE sig = {}
    BY <1>1, <2>1 DEF Hueco, EnMemoria, Fin
  <2>2. CASE sig # {}
    <3>1. (CHOOSE h \in sig : TRUE) \in sig
      BY <2>2
    <3>2. \A h \in sig : h \in Hueco /\ Fin(n) = h.base /\ Fin(h) <= MEMORIA
      BY DEF Siguiente, EnMemoria
    <3>3. QED
      BY <1>1, <2>2, <3>1, <3>2 DEF Hueco, Fin
  <2>3. QED
    BY <2>1, <2>2
<1>4. [base |-> desde, limite |-> hasta - desde] \in EnMemoria
  <2>1. n.base \in Nat /\ n.limite \in Nat /\ hasta - desde \in Nat
    BY <1>2, <1>3 DEF Hueco, Fin, EnMemoria
  <2>2. QED
    BY <1>2, <1>3, <2>1 DEF Hueco, Fin, EnMemoria
<1>5. QED
  BY <1>4 DEF InsertarYFusionar

\* MEM_FREE, EXIT and a suspension give back a segment of the process, if it has one.
LEMMA DevolverDe ==
    ASSUME TypeOK, NEW p \in PIDS, Devolver(p)
    PROVE  lista_huecos' \in SUBSET EnMemoria
<1>1. CASE segmento[p] = {} /\ UNCHANGED lista_huecos
  BY <1>1 DEF TypeOK
<1>2. ASSUME NEW s \in segmento[p], lista_huecos' = InsertarYFusionar(lista_huecos, s)
      PROVE  lista_huecos' \in SUBSET EnMemoria
  BY <1>2, DevolverTipo DEF TypeOK
<1>3. QED
  BY <1>1, <1>2 DEF Devolver

\* A notice is one more set of processes in the queue.
LEMMA AvisosTipo ==
    ASSUME TypeOK, notificar_desuspendibles(avisos), en_swap' \in SUBSET PIDS
    PROVE  avisos' \in Seq(SUBSET PIDS)
<1>1. Desuspendibles \in SUBSET PIDS
  BY DEF Desuspendibles
<1>2. QED
  BY <1>1, AppendProperties DEF notificar_desuspendibles, TypeOK

\* A resumption leaves the holes and the segment of the process within the memory.
LEMMA DelSwapTipo ==
    ASSUME TypeOK, NEW p \in PIDS, DelSwap(p)
    PROVE  /\ en_swap' \in SUBSET PIDS /\ lista_huecos' \in SUBSET EnMemoria
           /\ segmento' \in [PIDS -> SUBSET EnMemoria]
           /\ \A q \in PIDS : \A s, t \in segmento'[q] : s = t
<1>1. en_swap' \in SUBSET PIDS
  BY DEF DelSwap, Presente, TypeOK
<1>2. CASE UNCHANGED <<lista_huecos, segmento>>
  BY <1>1, <1>2 DEF TypeOK
<1>3. ASSUME NEW s \in segmento[p], NEW h \in EncontrarHueco(lista_huecos, s.limite),
             lista_huecos' = Achicar(lista_huecos, h, s.limite),
             segmento' = [segmento EXCEPT ![p] = {[base |-> h.base, limite |-> s.limite]}]
      PROVE  /\ lista_huecos' \in SUBSET EnMemoria
             /\ segmento' \in [PIDS -> SUBSET EnMemoria]
             /\ \A q \in PIDS : \A x, y \in segmento'[q] : x = y
  <2>1. s.limite \in Nat
    BY DEF TypeOK, EnMemoria, Hueco
  <2>2. lista_huecos \in SUBSET EnMemoria
    BY DEF TypeOK
  <2>3. /\ lista_huecos' \in SUBSET EnMemoria
        /\ [base |-> h.base, limite |-> s.limite] \in EnMemoria
    BY <1>3, <2>1, <2>2, TomarTipo
  <2>4. QED
    BY <1>3, <2>3 DEF TypeOK
<1>4. QED
  BY <1>1, <1>2, <1>3 DEF DelSwap

\* A resumption keeps the types, whether kernel_memory accepts or refuses.
LEMMA DesuspenderTipo ==
    ASSUME TypeOK, NEW p \in PIDS, Reanuda(p)
    PROVE  /\ {ready', rechazados', espera_texto', destino_invalido', en_swap'} \subseteq SUBSET PIDS
           /\ cadena' \in [PIDS -> TEXTOS \cup {NULL}]
           /\ lista_huecos' \in SUBSET EnMemoria
           /\ segmento' \in [PIDS -> SUBSET EnMemoria]
           /\ \A q \in PIDS : \A s, t \in segmento'[q] : s = t
<1>1. CASE Desuspender(p)
  <2>1. /\ en_swap' \in SUBSET PIDS /\ lista_huecos' \in SUBSET EnMemoria
        /\ segmento' \in [PIDS -> SUBSET EnMemoria]
        /\ \A q \in PIDS : \A s, t \in segmento'[q] : s = t
    BY <1>1, DelSwapTipo DEF Desuspender
  <2>2. {ready', rechazados', espera_texto', destino_invalido'} \subseteq SUBSET PIDS
    BY <1>1 DEF TypeOK, Desuspender, EscribirAlVolver
  <2>3. cadena' \in [PIDS -> TEXTOS \cup {NULL}]
    BY <1>1 DEF TypeOK, Desuspender, EscribirAlVolver
  <2>4. QED
    BY <2>1, <2>2, <2>3
<1>2. CASE DesuspensionRechazada(p)
  BY <1>2 DEF TypeOK, DesuspensionRechazada, memoria
<1>3. QED
  BY <1>1, <1>2 DEF Reanuda

\* Every variable has its type, and holes and segments lie within the memory.
LEMMA TipoInicial == Init => TypeOK
<1>1. SUFFICES ASSUME Init PROVE TypeOK
  OBVIOUS
<1>2. /\ MEMORIA \in Nat /\ [base |-> 0, limite |-> MEMORIA] \in EnMemoria
  BY SuspensionAssumption DEF EnMemoria, Hueco, Fin
<1>3. Cardinality(CPUS) \in Nat
  BY SuspensionAssumption, FS_CardinalityType
<1>4. <<>> \in Seq(PIDS) /\ <<>> \in Seq(SUBSET PIDS)
  OBVIOUS
<1>5. QED
  BY <1>1, <1>2, <1>3, <1>4 DEF Init, TypeOK, Pasos, PasosIO, Libre

\* The steps of a program keep the types.
LEMMA TipoPrograma ==
    ASSUME TypeOK, NEW c \in CPUS, NEW p \in PIDS, Despachar(c, p) \/ Programa(c, p)
    PROVE  TypeOK'
<1> USE DEF ejecucion, listas, dispositivos, texto, memoria, escucha
<1>1. CASE Despachar(c, p)
  BY <1>1 DEF TypeOK, Despachar
<1>2. ASSUME NEW tamanio \in TAMANIOS, MEM_ALLOC(c, p, tamanio) PROVE TypeOK'
  <2>1. PICK h \in EncontrarHueco(lista_huecos, tamanio) :
            /\ lista_huecos' = Achicar(lista_huecos, h, tamanio)
            /\ segmento' = [segmento EXCEPT ![p] = {[base |-> h.base, limite |-> tamanio]}]
    BY <1>2 DEF MEM_ALLOC
  <2>2. tamanio \in Nat /\ lista_huecos \in SUBSET EnMemoria
    BY SuspensionAssumption DEF TypeOK
  <2>3. lista_huecos' \in SUBSET EnMemoria /\ [base |-> h.base, limite |-> tamanio] \in EnMemoria
    BY <2>1, <2>2, TomarTipo
  <2>4. /\ segmento' \in [PIDS -> SUBSET EnMemoria]
        /\ \A q \in PIDS : \A s, t \in segmento'[q] : s = t
    BY <2>1, <2>3 DEF TypeOK
  <2>5. QED
    BY <1>2, <2>3, <2>4 DEF TypeOK, MEM_ALLOC
<1>3. CASE MEM_FREE(c, p) \/ EXIT(c, p)
  <2>1. lista_huecos' \in SUBSET EnMemoria
    BY <1>3, DevolverDe DEF MEM_FREE, EXIT
  <2>2. avisos' \in Seq(SUBSET PIDS)
    BY <1>3, AvisosTipo DEF MEM_FREE, EXIT, TypeOK
  <2>3. /\ segmento' \in [PIDS -> SUBSET EnMemoria]
        /\ \A q \in PIDS : \A s, t \in segmento'[q] : s = t
    BY <1>3 DEF TypeOK, MEM_FREE, EXIT
  <2>4. exec' \in [CPUS -> PIDS \cup {NULL}] /\ cpus_libres' \in Nat
    <3>1. /\ exec' = exec \/ exec' = [exec EXCEPT ![c] = NULL]
          /\ cpus_libres' = cpus_libres \/ cpus_libres' = cpus_libres + 1
      BY <1>3 DEF MEM_FREE, EXIT
    <3>2. exec \in [CPUS -> PIDS \cup {NULL}] /\ cpus_libres \in Nat
      BY DEF TypeOK
    <3>3. exec' \in [CPUS -> PIDS \cup {NULL}]
      BY <3>1, <3>2
    <3>4. cpus_libres' \in Nat
      BY <3>1, <3>2
    <3>5. QED
      BY <3>3, <3>4
  <2>5. {espera_texto', destino_invalido'} \subseteq SUBSET PIDS
    BY <1>3 DEF TypeOK, MEM_FREE, EXIT
  <2>6. UNCHANGED <<ready, listas, timers, hilo_cpu, dispositivos, hilo_io, cadena, en_swap,
                    hilo_escucha, roto>>
    BY <1>3 DEF MEM_FREE, EXIT
  <2>7. QED
    BY <2>1, <2>2, <2>3, <2>4, <2>5, <2>6 DEF TypeOK
<1>4. ASSUME NEW d \in DISPOSITIVOS, Bloquear(c, p, d) PROVE TypeOK'
  <2>1. [paso |-> "armar", pid |-> p, io |-> d] \in Pasos
    BY DEF Pasos
  <2>2. {espera_texto', destino_invalido'} \subseteq SUBSET PIDS
    BY <1>4 DEF TypeOK, Bloquear, NombraDestino
  <2>3. QED
    BY <1>4, <2>1, <2>2 DEF TypeOK, Bloquear, Bloqueado
<1>5. CASE "STDOUT" \in DISPOSITIVOS /\ STDOUT(c, p)
  <2>1. [paso |-> "espera_stdout", pid |-> p, io |-> "STDOUT"] \in Pasos
    BY <1>5 DEF Pasos
  <2>2. QED
    BY <1>5, <2>1 DEF TypeOK, STDOUT
<1>6. QED
  BY <1>1, <1>2, <1>3, <1>4, <1>5 DEF Programa

\* The thread of a CPU that is in the middle of something has its record.
LEMMA PasoDe ==
    ASSUME TypeOK, NEW c \in CPUS, hilo_cpu[c].paso # "libre"
    PROVE  /\ hilo_cpu[c] = [paso |-> hilo_cpu[c].paso, pid |-> hilo_cpu[c].pid, io |-> hilo_cpu[c].io]
           /\ hilo_cpu[c].pid \in PIDS /\ hilo_cpu[c].io \in DISPOSITIVOS
           /\ hilo_cpu[c].paso \in {"armar", "espera_stdout", "bloquear", "leer"}
           /\ hilo_cpu[c].paso # "armar" => hilo_cpu[c].io = "STDOUT"
<1>1. hilo_cpu[c] \in Pasos /\ hilo_cpu[c] # Libre
  BY DEF TypeOK, Libre
<1>2. QED
  BY <1>1 DEF Pasos

\* The step a thread of a CPU is about to make is all of its record that changes.
LEMMA OtroPaso ==
    ASSUME TypeOK, NEW c \in CPUS, hilo_cpu[c].paso # "libre", NEW x \in {"bloquear", "leer"},
           hilo_cpu[c].io = "STDOUT"
    PROVE  /\ [hilo_cpu EXCEPT ![c].paso = x] \in [CPUS -> Pasos]
           /\ [hilo_cpu EXCEPT ![c].paso = x]
                = [hilo_cpu EXCEPT ![c] = [paso |-> x, pid |-> hilo_cpu[c].pid, io |-> "STDOUT"]]
<1> DEFINE r == hilo_cpu[c]
           n == [paso |-> x, pid |-> hilo_cpu[c].pid, io |-> "STDOUT"]
<1>1. /\ r = [paso |-> r.paso, pid |-> r.pid, io |-> r.io]
      /\ r.pid \in PIDS /\ "STDOUT" \in DISPOSITIVOS
  BY PasoDe
<1>2. n \in Pasos
  BY <1>1 DEF Pasos
<1>3. [r EXCEPT !.paso = x] = n
  BY <1>1
<1>4. [hilo_cpu EXCEPT ![c].paso = x] = [hilo_cpu EXCEPT ![c] = n]
  BY <1>3 DEF TypeOK
<1>5. QED
  BY <1>2, <1>4 DEF TypeOK

\* What a handler leaves its thread in names no process.
LEMMA TerminadoEs ==
    ASSUME NEW d
    PROVE  /\ AlTerminar(d) \in {Libre, PorDesocupar} /\ AlTerminar(d) \in PasosIO
           /\ AlTerminar(d).paso \in {"libre", "desocupar"}
           /\ d # "STDOUT" => AlTerminar(d) = Libre
  BY DEF AlTerminar, Libre, PorDesocupar, PasosIO

\* The thread of a device that is in the middle of something has its record.
LEMMA PasoIODe ==
    ASSUME TypeOK, NEW d \in DISPOSITIVOS, hilo_io[d].paso \notin {"libre", "desocupar"}
    PROVE  /\ hilo_io[d] = [paso |-> hilo_io[d].paso, pid |-> hilo_io[d].pid]
           /\ hilo_io[d].pid \in PIDS
           /\ hilo_io[d].paso \in {"agregar", "pedir", "pedir_liberado", "pedir_mas"}
<1>1. hilo_io[d] \in PasosIO /\ hilo_io[d] \notin {Libre, PorDesocupar}
  BY DEF TypeOK, Libre, PorDesocupar
<1>2. QED
  BY <1>1 DEF PasosIO

\* The steps of the thread of a CPU keep the types.
LEMMA TipoHiloCpu ==
    ASSUME TypeOK, NEW c \in CPUS, HiloCpu(c)
    PROVE  TypeOK'
<1> USE DEF ejecucion, listas, dispositivos, texto, memoria, escucha
<1>1. /\ hilo_cpu[c].paso # "libre"
      /\ hilo_cpu[c].pid \in PIDS /\ hilo_cpu[c].io \in DISPOSITIVOS
      /\ hilo_cpu[c].paso # "armar" => hilo_cpu[c].io = "STDOUT"
  BY PasoDe DEF HiloCpu, TomarStdout, BloquearStdout, Armar, LeerSalida
<1>2. Libre \in Pasos
  BY DEF Pasos
<1>3. \A d \in DISPOSITIVOS : [cola EXCEPT ![d] = Append(@, hilo_cpu[c].pid)] \in [DISPOSITIVOS -> Seq(PIDS)]
  BY <1>1, AppendProperties DEF TypeOK
<1>4. CASE TomarStdout(c)
  BY <1>1, <1>4, OtroPaso DEF TypeOK, TomarStdout
<1>5. CASE BloquearStdout(c)
  <2>1. [paso |-> "armar", pid |-> hilo_cpu[c].pid, io |-> "STDOUT"] \in Pasos
    BY <1>1, <1>5 DEF Pasos, BloquearStdout
  <2>2. QED
    BY <1>1, <1>5, <2>1 DEF TypeOK, BloquearStdout, Bloqueado
<1>6. CASE Armar(c)
  <2>1. hilo_cpu' \in [CPUS -> Pasos] /\ cola' \in [DISPOSITIVOS -> Seq(PIDS)]
    <3>1. CASE hilo_cpu[c].io = "STDOUT"
      <4>1. hilo_cpu' = [hilo_cpu EXCEPT ![c].paso = "leer"] /\ cola' = cola
        BY <1>6, <3>1 DEF Armar
      <4>2. QED
        BY <1>1, <3>1, <4>1, OtroPaso DEF TypeOK
    <3>2. CASE hilo_cpu[c].io # "STDOUT"
      <4>1. hilo_cpu' = [hilo_cpu EXCEPT ![c] = Libre]
        BY <1>6, <3>2 DEF Armar
      <4>2. cola' = [cola EXCEPT ![hilo_cpu[c].io] = Append(@, hilo_cpu[c].pid)]
        BY <1>6, <3>2 DEF Armar
      <4>3. hilo_cpu' \in [CPUS -> Pasos]
        BY <1>2, <4>1 DEF TypeOK
      <4>4. QED
        BY <1>1, <1>3, <4>2, <4>3
    <3>3. QED
      BY <3>1, <3>2
  <2>2. timers' \in SUBSET PIDS /\ cpus_libres' \in Nat
    BY <1>1, <1>6 DEF TypeOK, Armar
  <2>3. QED
    BY <1>6, <2>1, <2>2 DEF TypeOK, Armar
<1>7. CASE LeerSalida(c)
  <2>1. cola' \in [DISPOSITIVOS -> Seq(PIDS)]
    <3>1. "STDOUT" \in DISPOSITIVOS
      BY <1>1, <1>7 DEF LeerSalida
    <3>2. cola' = cola \/ cola' = [cola EXCEPT !["STDOUT"] = Append(@, hilo_cpu[c].pid)]
      BY <1>7 DEF LeerSalida
    <3>3. QED
      BY <1>3, <3>1, <3>2 DEF TypeOK
  <2>2. QED
    BY <1>2, <1>7, <2>1 DEF TypeOK, LeerSalida
<1>8. QED
  BY <1>4, <1>5, <1>6, <1>7 DEF HiloCpu

\* The steps of a timer keep the types.
LEMMA TipoHiloTimer ==
    ASSUME TypeOK, NEW p \in PIDS, HiloTimer(p)
    PROVE  TypeOK'
<1> USE DEF ejecucion, listas, dispositivos, texto, memoria, escucha
<1>1. CASE TimerObsoleto(p)
  BY <1>1 DEF TypeOK, TimerObsoleto
<1>2. CASE Suspender(p)
  <2>1. AlSwap(p)
    BY <1>2 DEF Suspender
  <2>2. lista_huecos' \in SUBSET EnMemoria /\ en_swap' \in SUBSET PIDS /\ segmento' = segmento
    BY <2>1, DevolverDe DEF AlSwap, TypeOK
  <2>3. avisos' \in Seq(SUBSET PIDS)
    BY <2>1, <2>2, AvisosTipo DEF AlSwap, TypeOK
  <2>4. QED
    BY <1>2, <2>2, <2>3 DEF TypeOK, Suspender
<1>3. CASE SuspensionRechazada(p)
  BY <1>3 DEF TypeOK, SuspensionRechazada
<1>4. QED
  BY <1>1, <1>2, <1>3 DEF HiloTimer

\* Sending a request to a device keeps the types.
LEMMA TipoEnviar ==
    ASSUME TypeOK, NEW d \in DISPOSITIVOS, EnviarAlDispositivo(d)
    PROVE  TypeOK'
<1>1. /\ cola[d] \in Seq(PIDS) /\ en_io[d] \in Seq(PIDS) /\ cola[d] # <<>>
      /\ disponible[d] \in Nat /\ disponible[d] > 0
  BY DEF TypeOK, EnviarAlDispositivo
<1>2. Tail(cola[d]) \in Seq(PIDS) /\ Append(en_io[d], Head(cola[d])) \in Seq(PIDS)
  BY <1>1, HeadTailProperties, AppendProperties
<1>3. disponible' \in [DISPOSITIVOS -> Nat]
  BY <1>1 DEF TypeOK, EnviarAlDispositivo
<1>4. {cola', en_io'} \subseteq [DISPOSITIVOS -> Seq(PIDS)]
  BY <1>2 DEF TypeOK, EnviarAlDispositivo, Desencolar
<1>5. QED
  BY <1>3, <1>4 DEF TypeOK, EnviarAlDispositivo, ejecucion, listas, texto, memoria, escucha

\* The steps of the thread that reads the answers of a device keep the types.
LEMMA TipoHiloIO ==
    ASSUME TypeOK, NEW d \in DISPOSITIVOS, HiloIO(d)
    PROVE  TypeOK'
<1> USE DEF ejecucion, listas, dispositivos, texto, memoria, escucha
<1>1. ASSUME NEW e \in DISPOSITIVOS, NEW p, Finaliza(e, p)
      PROVE  en_io' \in [DISPOSITIVOS -> Seq(PIDS)] /\ p \in PIDS
  <2>1. en_io[e] \in Seq(PIDS) /\ en_io[e] # <<>>
    BY <1>1 DEF TypeOK, Finaliza
  <2>2. Tail(en_io[e]) \in Seq(PIDS) /\ Head(en_io[e]) \in PIDS
    BY <2>1, HeadTailProperties
  <2>3. QED
    BY <1>1, <2>2 DEF TypeOK, Finaliza
<1>2. disponible[d] + 1 \in Nat /\ [disponible EXCEPT ![d] = @ + 1] \in [DISPOSITIVOS -> Nat]
  BY DEF TypeOK
<1>3. /\ [hilo_io EXCEPT ![d] = AlTerminar(d)] \in [DISPOSITIVOS -> PasosIO]
      /\ [hilo_io EXCEPT ![d] = Libre] \in [DISPOSITIVOS -> PasosIO]
  BY TerminadoEs DEF TypeOK, PasosIO
<1> DEFINE sigue(x) == [hilo_io EXCEPT ![d].paso = x]
<1>12. ASSUME hilo_io[d].paso \notin {"libre", "desocupar"}, NEW x \in {"pedir", "pedir_mas"}
       PROVE  hilo_io[d].pid \in PIDS /\ sigue(x) \in [DISPOSITIVOS -> PasosIO]
  <2>1. hilo_io[d] = [paso |-> hilo_io[d].paso, pid |-> hilo_io[d].pid] /\ hilo_io[d].pid \in PIDS
    BY <1>12, PasoIODe
  <2>2. [hilo_io[d] EXCEPT !.paso = x] = [paso |-> x, pid |-> hilo_io[d].pid]
    BY <2>1
  <2>3. [paso |-> x, pid |-> hilo_io[d].pid] \in PasosIO
    BY <2>1 DEF PasosIO
  <2>4. QED
    BY <2>1, <2>2, <2>3 DEF TypeOK
<1>4. ASSUME NEW p \in PIDS, FinalizarEnBlock(d, p) PROVE TypeOK'
  BY <1>1, <1>2, <1>3, <1>4 DEF TypeOK, FinalizarEnBlock
<1>5. ASSUME NEW p \in PIDS, SacarDeSuspBlock(d, p) PROVE TypeOK'
  <2>1. [paso |-> "agregar", pid |-> p] \in PasosIO
    BY DEF PasosIO
  <2>2. cadena' \in [PIDS -> TEXTOS \cup {NULL}]
    BY <1>5 DEF TypeOK, SacarDeSuspBlock
  <2>3. QED
    BY <1>1, <1>5, <2>1, <2>2 DEF TypeOK, SacarDeSuspBlock
<1>6. ASSUME d = "STDIN", NEW p \in PIDS, EscrituraFallida(p) PROVE TypeOK'
  BY <1>1, <1>6 DEF TypeOK, EscrituraFallida
<1>7. CASE AgregarASuspReady(d)
  <2>1. susp_ready' \in Seq(PIDS)
    BY <1>7, <1>12, OrdenadaAgrega DEF TypeOK, AgregarASuspReady
  <2>2. QED
    BY <1>7, <1>12, <2>1 DEF TypeOK, AgregarASuspReady
<1>8. CASE PedirLugar(d) \/ PedirMas(d)
  <2>1. avisos' \in Seq(SUBSET PIDS)
    BY <1>8, AvisosTipo DEF TypeOK, PedirLugar, PedirAlEntrar, PedirMas, PedirDesuspendibles
  <2>2. /\ disponible' \in [DISPOSITIVOS -> Nat] /\ hilo_io' \in [DISPOSITIVOS -> PasosIO]
        /\ UNCHANGED <<ejecucion, listas, timers, hilo_cpu, cola, en_io, texto, memoria,
                       hilo_escucha, roto>>
    BY <1>2, <1>3, <1>8 DEF PedirLugar, PedirMas, TerminarHandler
  <2>3. QED
    BY <2>1, <2>2 DEF TypeOK
<1>9. CASE DesuspenderSinBytes(d)
  <2>1. susp_ready' \in Seq(PIDS)
    BY <1>9, <1>12, SacarQuita DEF TypeOK, DesuspenderSinBytes
  <2>2. hilo_io[d].pid \in PIDS /\ Reanuda(hilo_io[d].pid)
    BY <1>9, <1>12 DEF DesuspenderSinBytes, Reanuda
  <2>3. /\ {ready', rechazados', espera_texto', destino_invalido', en_swap'} \subseteq SUBSET PIDS
        /\ cadena' \in [PIDS -> TEXTOS \cup {NULL}]
        /\ lista_huecos' \in SUBSET EnMemoria
        /\ segmento' \in [PIDS -> SUBSET EnMemoria]
        /\ \A q \in PIDS : \A s, t \in segmento'[q] : s = t
    BY <2>2, DesuspenderTipo
  <2>4. QED
    BY <1>9, <1>12, <2>1, <2>3 DEF TypeOK, DesuspenderSinBytes
<1>10. CASE UsarLiberado(d)
  BY <1>10 DEF TypeOK, UsarLiberado
<1>11. CASE Desocupar(d)
  BY <1>3, <1>11 DEF TypeOK, Desocupar
<1>13. QED
  BY <1>4, <1>5, <1>6, <1>7, <1>8, <1>9, <1>10, <1>11 DEF HiloIO

\* The steps of hilo_escuchar_memory keep the types.
LEMMA TipoEscucha ==
    ASSUME TypeOK, HiloEscucha
    PROVE  TypeOK'
<1> USE DEF ejecucion, listas, dispositivos, texto, memoria, escucha
<1>1. avisos # <<>> => Tail(avisos) \in Seq(SUBSET PIDS)
  BY HeadTailProperties DEF TypeOK
<1>2. CASE AvisoSinEfecto
  BY <1>1, <1>2 DEF TypeOK, AvisoSinEfecto
<1>3. CASE AtenderAviso
  <2> DEFINE p == susp_ready[Nombrado]
  <2>1. /\ susp_ready' = RemoveAt(susp_ready, Nombrado)
        /\ hilo_io' = [d \in DISPOSITIVOS |->
                          IF hilo_io[d] = [paso |-> "pedir", pid |-> p]
                          THEN [paso |-> "pedir_liberado", pid |-> p] ELSE hilo_io[d]]
        /\ Reanuda(p) /\ avisos # <<>> /\ avisos' = Tail(avisos)
        /\ hilo_escucha' \in {"libre", "pedir"}
        /\ UNCHANGED <<exec, cpus_libres, block, susp_block, timers, hilo_cpu, dispositivos, roto>>
        /\ Nombrado # 0
    BY <1>3 DEF AtenderAviso, Reanuda, TypeOK
  <2>2. susp_ready \in Seq(PIDS)
    BY DEF TypeOK
  <2>3. Nombrado \in 1 .. Len(susp_ready)
    BY <2>1, <2>2, NombradoEs
  <2>4. p \in PIDS /\ susp_ready' \in Seq(PIDS)
    <3> HIDE DEF p
    <3>1. susp_ready' \in Seq(PIDS)
      BY <2>1, <2>2, <2>3, SinEl
    <3>2. susp_ready[Nombrado] \in PIDS
      BY <2>2, <2>3, ElementOfSeq
    <3>3. QED
      BY <3>1, <3>2 DEF p
  <2> HIDE DEF p
  <2>5. /\ {ready', rechazados', espera_texto', destino_invalido', en_swap'} \subseteq SUBSET PIDS
        /\ cadena' \in [PIDS -> TEXTOS \cup {NULL}]
        /\ lista_huecos' \in SUBSET EnMemoria
        /\ segmento' \in [PIDS -> SUBSET EnMemoria]
        /\ \A q \in PIDS : \A s, t \in segmento'[q] : s = t
    BY <2>1, <2>4, DesuspenderTipo
  <2>6. hilo_io' \in [DISPOSITIVOS -> PasosIO]
    <3>1. [paso |-> "pedir_liberado", pid |-> p] \in PasosIO
      BY <2>4 DEF PasosIO
    <3>2. QED
      BY <2>1, <3>1 DEF TypeOK
  <2>7. QED
    BY <1>1, <2>1, <2>4, <2>5, <2>6 DEF TypeOK
<1>4. CASE PedirTrasAviso
  <2>1. avisos' \in Seq(SUBSET PIDS)
    BY <1>4, AvisosTipo DEF TypeOK, PedirTrasAviso, PedirDesuspendibles
  <2>2. QED
    BY <1>4, <2>1 DEF TypeOK, PedirTrasAviso
<1>5. QED
  BY <1>2, <1>3, <1>4 DEF HiloEscucha

\* No step leaves the types.
LEMMA TipoPaso == TypeOK /\ [Next]_vars => TypeOK'
<1>1. SUFFICES ASSUME TypeOK, [Next]_vars PROVE TypeOK'
  OBVIOUS
<1>2. CASE UNCHANGED vars
  BY <1>1, <1>2 DEF TypeOK, vars, ejecucion, listas, dispositivos, texto, memoria, escucha
<1>3. ASSUME NEW c \in CPUS, NEW p \in PIDS, Despachar(c, p) \/ Programa(c, p) PROVE TypeOK'
  BY <1>1, <1>3, TipoPrograma
<1>4. ASSUME NEW c \in CPUS, HiloCpu(c) PROVE TypeOK'
  BY <1>1, <1>4, TipoHiloCpu
<1>5. ASSUME NEW p \in PIDS, HiloTimer(p) PROVE TypeOK'
  BY <1>1, <1>5, TipoHiloTimer
<1>6. ASSUME NEW d \in DISPOSITIVOS, EnviarAlDispositivo(d) \/ HiloIO(d) PROVE TypeOK'
  BY <1>1, <1>6, TipoEnviar, TipoHiloIO
<1>7. CASE HiloEscucha
  BY <1>1, <1>7, TipoEscucha
<1>8. QED
  BY <1>1, <1>2, <1>3, <1>4, <1>5, <1>6, <1>7 DEF Next

\* Every variable has its type in every reachable state: the semaphores of scheduler.c do not go
\* below zero, a process has one segment at most, and the holes and segments of kernel_memory lie
\* within memory_total_size, whatever is allocated, released, suspended and resumed.
THEOREM TipoCorrecto == Spec => []TypeOK
<1>1. QED
  BY TipoInicial, TipoPaso, PTL DEF Spec

-----------------------------------------------------------------------------
(* Every process is in one list, and the two programs agree on it.         *)

\* The inductive invariant of MismaSuspension.
CadaUnoEnSuLugar == Lugares /\ Hilos /\ MismaSuspension

\* Who is on the way from SUSP BLOCK to SUSP READY depends on hilo_io alone.
LEMMA TrasladoEs ==
    /\ \A p : p \in EnTraslado <=>
            \E d \in DISPOSITIVOS : hilo_io[d].paso = "agregar" /\ hilo_io[d].pid = p
    /\ \A p : p \in EnTraslado' <=>
            \E d \in DISPOSITIVOS : hilo_io'[d].paso = "agregar" /\ hilo_io'[d].pid = p
  BY DEF EnTraslado

\* A thread of a device that neither begins nor ends such a way leaves them as they are.
LEMMA TrasladoIgual ==
    ASSUME \A d \in DISPOSITIVOS :
              \/ hilo_io'[d] = hilo_io[d]
              \/ hilo_io'[d].paso # "agregar" /\ hilo_io[d].paso # "agregar"
    PROVE  EnTraslado' = EnTraslado
<1>1. \A q : q \in EnTraslado' => q \in EnTraslado
  BY TrasladoEs
<1>2. \A q : q \in EnTraslado => q \in EnTraslado'
  BY TrasladoEs
<1>3. QED
  BY <1>1, <1>2

\* A step of a thread of a CPU that takes nobody out of his list and asks kernel_memory for
\* nothing that changes who is in swap.
LEMMA LugarIgual ==
    ASSUME CadaUnoEnSuLugar,
           UNCHANGED <<ready, exec, block, susp_block, hilo_io, susp_ready, rechazados, en_swap>>,
           \A c \in CPUS : hilo_cpu'[c].paso \in {"espera_stdout", "bloquear"} =>
                              exec[c] = hilo_cpu'[c].pid
    PROVE  CadaUnoEnSuLugar'
  BY DEF CadaUnoEnSuLugar, Lugares, Hilos, MismaSuspension, EnTraslado, EnSuspReady, ToSet,
         IsInjective

\* The lists hold processes.
LEMMA LugaresTipo ==
    ASSUME TypeOK
    PROVE  ready \cup block \cup susp_block \cup EnTraslado \cup EnSuspReady \cup rechazados
              \subseteq PIDS
<1>1. ASSUME NEW p \in EnTraslado PROVE p \in PIDS
  <2>1. PICK d \in DISPOSITIVOS : hilo_io[d].paso = "agregar" /\ hilo_io[d].pid = p
    BY TrasladoEs
  <2>2. QED
    BY <2>1, PasoIODe
<1>2. EnSuspReady \subseteq PIDS
  BY DEF EnSuspReady, ToSet, TypeOK
<1>3. QED
  BY <1>1, <1>2 DEF TypeOK

\* bloquear_proceso moves the process of the CPU to BLOCK.
LEMMA LugarBloqueado ==
    ASSUME TypeOK, CadaUnoEnSuLugar,
           NEW c \in CPUS, NEW p \in PIDS, NEW d, exec[c] = p, Bloqueado(c, p, d),
           UNCHANGED <<ready, susp_block, hilo_io, susp_ready, rechazados, en_swap>>
    PROVE  CadaUnoEnSuLugar'
<1>1. NULL \notin PIDS
  BY SuspensionAssumption
<1>2. /\ exec' = [exec EXCEPT ![c] = NULL] /\ block' = block \cup {p}
      /\ hilo_cpu' = [hilo_cpu EXCEPT ![c] = [paso |-> "armar", pid |-> p, io |-> d]]
  BY DEF Bloqueado
<1>3. EnTraslado' = EnTraslado /\ EnSuspReady' = EnSuspReady
  BY DEF EnTraslado, EnSuspReady
<1>4. ready \cup block \cup susp_block \cup EnTraslado \cup EnSuspReady \cup rechazados \subseteq PIDS
  BY LugaresTipo
<1>5. Lugares'
  BY <1>1, <1>2, <1>3, <1>4 DEF CadaUnoEnSuLugar, Lugares, TypeOK, IsInjective
<1>6. Hilos'
  BY <1>2, <1>3 DEF CadaUnoEnSuLugar, Hilos, TypeOK
<1>7. QED
  BY <1>3, <1>5, <1>6 DEF CadaUnoEnSuLugar, MismaSuspension

\* The steps of a program keep every process in one list.
LEMMA LugarPrograma ==
    ASSUME TypeOK, TypeOK', CadaUnoEnSuLugar,
           NEW c \in CPUS, NEW p \in PIDS, Despachar(c, p) \/ Programa(c, p)
    PROVE  CadaUnoEnSuLugar'
<1> USE DEF ejecucion, listas, dispositivos, texto, memoria, escucha
<1>1. NULL \notin PIDS
  BY SuspensionAssumption
<1>2. CASE Despachar(c, p)
  <2>1. /\ exec[c] = NULL /\ exec' = [exec EXCEPT ![c] = p] /\ p \in ready
        /\ ready' = ready \ {p}
        /\ UNCHANGED <<block, susp_block, susp_ready, rechazados, hilo_io, hilo_cpu, en_swap>>
    BY <1>2 DEF Despachar
  <2>2. EnTraslado' = EnTraslado /\ EnSuspReady' = EnSuspReady
    BY <2>1 DEF EnTraslado, EnSuspReady
  <2>3. Lugares'
    BY <1>1, <2>1, <2>2 DEF CadaUnoEnSuLugar, Lugares, TypeOK, IsInjective
  <2>4. Hilos'
    <3>1. \A e \in CPUS : hilo_cpu[e].paso \in {"espera_stdout", "bloquear"} => hilo_cpu[e].pid \in PIDS
      BY PasoDe
    <3>2. QED
      BY <1>1, <2>1, <2>2, <3>1 DEF CadaUnoEnSuLugar, Hilos, TypeOK
  <2>5. QED
    BY <2>1, <2>2, <2>3, <2>4 DEF CadaUnoEnSuLugar, MismaSuspension
<1>3. ASSUME NEW tamanio \in TAMANIOS, MEM_ALLOC(c, p, tamanio) PROVE CadaUnoEnSuLugar'
  <2>1. UNCHANGED <<ready, exec, block, susp_block, hilo_io, susp_ready, rechazados, en_swap, hilo_cpu>>
    BY <1>3 DEF MEM_ALLOC
  <2>2. QED
    BY <2>1, LugarIgual DEF CadaUnoEnSuLugar, Hilos
<1>4. CASE MEM_FREE(c, p)
  <2>1. UNCHANGED <<ready, exec, block, susp_block, hilo_io, susp_ready, rechazados, en_swap, hilo_cpu>>
    BY <1>4 DEF MEM_FREE
  <2>2. QED
    BY <2>1, LugarIgual DEF CadaUnoEnSuLugar, Hilos
<1>5. CASE EXIT(c, p)
  <2>1. /\ exec[c] = p /\ hilo_cpu[c] = Libre /\ exec' = [exec EXCEPT ![c] = NULL]
        /\ UNCHANGED <<ready, block, susp_block, hilo_io, susp_ready, rechazados, en_swap, hilo_cpu>>
    BY <1>5 DEF EXIT, Pide
  <2>2. EnTraslado' = EnTraslado /\ EnSuspReady' = EnSuspReady
    BY <2>1 DEF EnTraslado, EnSuspReady
  <2>3. ready \cup block \cup susp_block \cup EnTraslado \cup EnSuspReady \cup rechazados \subseteq PIDS
    BY LugaresTipo
  <2>4. Lugares'
    BY <1>1, <2>1, <2>2, <2>3 DEF CadaUnoEnSuLugar, Lugares, TypeOK, IsInjective
  <2>5. Hilos'
    BY <2>1, <2>2 DEF CadaUnoEnSuLugar, Hilos, TypeOK, Libre
  <2>6. QED
    BY <2>1, <2>2, <2>4, <2>5 DEF CadaUnoEnSuLugar, MismaSuspension
<1>6. ASSUME NEW d \in DISPOSITIVOS, Bloquear(c, p, d) PROVE CadaUnoEnSuLugar'
  <2>1. exec[c] = p /\ Bloqueado(c, p, d)
        /\ UNCHANGED <<ready, susp_block, hilo_io, susp_ready, rechazados, en_swap>>
    BY <1>6 DEF Bloquear, Pide
  <2>2. QED
    BY <2>1, LugarBloqueado
<1>7. CASE "STDOUT" \in DISPOSITIVOS /\ STDOUT(c, p)
  <2>1. /\ exec[c] = p /\ hilo_cpu' = [hilo_cpu EXCEPT ![c] = [paso |-> "espera_stdout", pid |-> p, io |-> "STDOUT"]]
        /\ UNCHANGED <<ready, exec, block, susp_block, hilo_io, susp_ready, rechazados, en_swap>>
    BY <1>7 DEF STDOUT, Pide
  <2>2. \A e \in CPUS : hilo_cpu'[e].paso \in {"espera_stdout", "bloquear"} => exec[e] = hilo_cpu'[e].pid
    BY <2>1 DEF CadaUnoEnSuLugar, Hilos, TypeOK
  <2>3. QED
    BY <2>1, <2>2, LugarIgual
<1>8. QED
  BY <1>2, <1>3, <1>4, <1>5, <1>6, <1>7 DEF Programa

\* The steps of the thread of a CPU keep every process in one list.
LEMMA LugarHiloCpu ==
    ASSUME TypeOK, TypeOK', CadaUnoEnSuLugar, NEW c \in CPUS, HiloCpu(c)
    PROVE  CadaUnoEnSuLugar'
<1> USE DEF ejecucion, listas, dispositivos, texto, memoria, escucha
<1>1. CASE TomarStdout(c)
  <2>1. hilo_cpu[c].paso = "espera_stdout"
        /\ hilo_cpu' = [hilo_cpu EXCEPT ![c].paso = "bloquear"]
        /\ UNCHANGED <<ready, exec, block, susp_block, hilo_io, susp_ready, rechazados, en_swap>>
    BY <1>1 DEF TomarStdout
  <2>2. hilo_cpu[c].io = "STDOUT"
    BY <2>1, PasoDe
  <2>3. hilo_cpu' = [hilo_cpu EXCEPT ![c] = [paso |-> "bloquear", pid |-> hilo_cpu[c].pid, io |-> "STDOUT"]]
    BY <2>1, <2>2, OtroPaso
  <2>4. QED
    BY <2>1, <2>3, LugarIgual DEF CadaUnoEnSuLugar, Hilos, TypeOK
<1>2. CASE BloquearStdout(c)
  <2>1. exec[c] = hilo_cpu[c].pid /\ hilo_cpu[c].pid \in PIDS
    BY <1>2, PasoDe DEF BloquearStdout, CadaUnoEnSuLugar, Hilos
  <2>2. QED
    BY <1>2, <2>1, LugarBloqueado DEF BloquearStdout
<1>3. CASE Armar(c)
  <2>1. UNCHANGED <<ready, exec, block, susp_block, hilo_io, susp_ready, rechazados, en_swap>>
    BY <1>3 DEF Armar
  <2>2. hilo_cpu'[c].paso \in {"libre", "leer"} /\ \A e \in CPUS \ {c} : hilo_cpu'[e] = hilo_cpu[e]
    <3>1. CASE hilo_cpu[c].io = "STDOUT"
      <4>1. hilo_cpu' = [hilo_cpu EXCEPT ![c].paso = "leer"] /\ hilo_cpu[c].paso # "libre"
        BY <1>3, <3>1 DEF Armar
      <4>2. hilo_cpu' = [hilo_cpu EXCEPT ![c] = [paso |-> "leer", pid |-> hilo_cpu[c].pid, io |-> "STDOUT"]]
        BY <3>1, <4>1, OtroPaso
      <4>3. QED
        BY <4>2 DEF TypeOK
    <3>2. CASE hilo_cpu[c].io # "STDOUT"
      <4>1. hilo_cpu' = [hilo_cpu EXCEPT ![c] = Libre]
        BY <1>3, <3>2 DEF Armar
      <4>2. QED
        BY <4>1 DEF TypeOK, Libre
    <3>3. QED
      BY <3>1, <3>2
  <2>3. QED
    BY <2>1, <2>2, LugarIgual DEF CadaUnoEnSuLugar, Hilos
<1>4. CASE LeerSalida(c)
  <2>1. UNCHANGED <<ready, exec, block, susp_block, hilo_io, susp_ready, rechazados, en_swap>>
        /\ hilo_cpu' = [hilo_cpu EXCEPT ![c] = Libre]
    BY <1>4 DEF LeerSalida
  <2>2. QED
    BY <2>1, LugarIgual DEF CadaUnoEnSuLugar, Hilos, TypeOK, Libre
<1>5. QED
  BY <1>1, <1>2, <1>3, <1>4 DEF HiloCpu

\* The timer takes a process from BLOCK to SUSP BLOCK and to swap, in one step.
LEMMA LugarHiloTimer ==
    ASSUME TypeOK, TypeOK', CadaUnoEnSuLugar, NEW p \in PIDS, HiloTimer(p)
    PROVE  CadaUnoEnSuLugar'
<1> USE DEF ejecucion, listas, dispositivos, texto, memoria, escucha
<1>1. CASE TimerObsoleto(p) \/ SuspensionRechazada(p)
  <2>1. UNCHANGED <<ready, exec, block, susp_block, hilo_io, susp_ready, rechazados, en_swap, hilo_cpu>>
    BY <1>1 DEF TimerObsoleto, SuspensionRechazada
  <2>2. QED
    BY <2>1, LugarIgual DEF CadaUnoEnSuLugar, Hilos
<1>2. CASE Suspender(p)
  <2>1. /\ p \in block /\ block' = block \ {p} /\ susp_block' = susp_block \cup {p}
        /\ en_swap' = en_swap \cup {p}
        /\ UNCHANGED <<ready, exec, susp_ready, rechazados, hilo_io, hilo_cpu>>
    BY <1>2 DEF Suspender, Vencido, AlSwap
  <2>2. EnTraslado' = EnTraslado /\ EnSuspReady' = EnSuspReady
    BY <2>1 DEF EnTraslado, EnSuspReady
  <2>3. Lugares'
    BY <2>1, <2>2 DEF CadaUnoEnSuLugar, Lugares, TypeOK, IsInjective
  <2>4. Hilos'
    BY <2>1, <2>2 DEF CadaUnoEnSuLugar, Hilos
  <2>5. MismaSuspension'
    BY <2>1, <2>2 DEF CadaUnoEnSuLugar, MismaSuspension
  <2>6. QED
    BY <2>3, <2>4, <2>5 DEF CadaUnoEnSuLugar
<1>3. QED
  BY <1>1, <1>2 DEF HiloTimer

\* What a resumption does to the lists.
LEMMA DesuspenderLugar ==
    ASSUME NEW p, Reanuda(p)
    PROVE  \/ ready' = ready \cup {p} /\ en_swap' = en_swap \ {p} /\ rechazados' = rechazados
           \/ rechazados' = rechazados \cup {p} /\ UNCHANGED <<ready, en_swap>>
  BY DEF Reanuda, Desuspender, DesuspensionRechazada, DelSwap, Presente, memoria

\* A resumption takes p from SUSP READY to READY, or gives it up.
LEMMA LugarDesuspender ==
    ASSUME TypeOK, TypeOK', CadaUnoEnSuLugar, NEW p \in PIDS, Reanuda(p), p \in EnSuspReady,
           EnSuspReady' = EnSuspReady \ {p}, IsInjective(susp_ready)', EnTraslado' = EnTraslado,
           \A d \in DISPOSITIVOS :
                \/ hilo_io'[d] = hilo_io[d] /\ hilo_io[d] # [paso |-> "pedir", pid |-> p]
                \/ hilo_io'[d].paso \in {"pedir_mas", "pedir_liberado"},
           UNCHANGED <<exec, block, susp_block, hilo_cpu>>
    PROVE  CadaUnoEnSuLugar'
<1>1. NULL \notin PIDS
  BY SuspensionAssumption
<1>2. Lugares'
  BY <1>1, DesuspenderLugar DEF CadaUnoEnSuLugar, Lugares
<1>3. Hilos'
  <2>1. \A c \in CPUS : hilo_cpu'[c].paso \in {"espera_stdout", "bloquear"} => exec'[c] = hilo_cpu'[c].pid
    BY DEF CadaUnoEnSuLugar, Hilos
  <2>2. ASSUME NEW d \in DISPOSITIVOS, NEW e \in DISPOSITIVOS,
               hilo_io'[d].paso \in {"agregar", "pedir"}, hilo_io'[d] = hilo_io'[e]
        PROVE  d = e
    BY <2>2 DEF CadaUnoEnSuLugar, Hilos
  <2>3. ASSUME NEW d \in DISPOSITIVOS, hilo_io'[d].paso = "pedir"
        PROVE  hilo_io'[d].pid \in EnSuspReady'
    <3>1. hilo_io'[d] = hilo_io[d] /\ hilo_io[d] # [paso |-> "pedir", pid |-> p]
      BY <2>3
    <3>2. hilo_io[d].pid \in EnSuspReady /\ hilo_io[d] = [paso |-> "pedir", pid |-> hilo_io[d].pid]
      BY <2>3, <3>1, PasoIODe DEF CadaUnoEnSuLugar, Hilos
    <3>3. QED
      BY <3>1, <3>2
  <2>4. QED
    BY <2>1, <2>2, <2>3 DEF Hilos
<1>4. MismaSuspension'
  BY DesuspenderLugar DEF CadaUnoEnSuLugar, Lugares, MismaSuspension
<1>5. QED
  BY <1>2, <1>3, <1>4 DEF CadaUnoEnSuLugar

\* Sending a request to a device moves nobody.
LEMMA LugarEnviar ==
    ASSUME CadaUnoEnSuLugar, NEW d \in DISPOSITIVOS, EnviarAlDispositivo(d)
    PROVE  CadaUnoEnSuLugar'
<1>1. UNCHANGED <<ready, exec, block, susp_block, hilo_io, susp_ready, rechazados, en_swap, hilo_cpu>>
  BY DEF EnviarAlDispositivo, ejecucion, listas, memoria
<1>2. QED
  BY <1>1, LugarIgual DEF CadaUnoEnSuLugar, Hilos

\* The end of an operation moves its process from one list to the next.
LEMMA LugarHiloIO ==
    ASSUME TypeOK, TypeOK', CadaUnoEnSuLugar, NEW d \in DISPOSITIVOS, HiloIO(d)
    PROVE  CadaUnoEnSuLugar'
<1> USE DEF ejecucion, listas, dispositivos, texto, memoria, escucha
<1>1. NULL \notin PIDS
  BY SuspensionAssumption
<1>10. ASSUME hilo_io' = [hilo_io EXCEPT ![d] = AlTerminar(d)]
       PROVE  /\ hilo_io'[d].paso \in {"libre", "desocupar"}
              /\ \A e \in DISPOSITIVOS : e # d => hilo_io'[e] = hilo_io[e]
  BY <1>10, TerminadoEs DEF TypeOK
<1>2. ASSUME NEW p \in PIDS, FinalizarEnBlock(d, p) PROVE CadaUnoEnSuLugar'
  <2>1. /\ p \in block /\ block' = block \ {p} /\ ready' = ready \cup {p}
        /\ hilo_io[d] = Libre /\ hilo_io' = [hilo_io EXCEPT ![d] = AlTerminar(d)]
        /\ UNCHANGED <<exec, susp_block, susp_ready, rechazados, hilo_cpu, en_swap>>
    BY <1>2 DEF FinalizarEnBlock, Finaliza
  <2>2. /\ hilo_io[d].paso = "libre" /\ hilo_io'[d].paso \in {"libre", "desocupar"}
        /\ \A e \in DISPOSITIVOS : e # d => hilo_io'[e] = hilo_io[e]
    BY <1>10, <2>1 DEF Libre
  <2>3. EnTraslado' = EnTraslado /\ EnSuspReady' = EnSuspReady
    BY <2>1, <2>2, TrasladoIgual DEF EnSuspReady
  <2>4. Lugares'
    BY <2>1, <2>3 DEF CadaUnoEnSuLugar, Lugares, TypeOK, IsInjective
  <2>5. Hilos'
    BY <2>1, <2>2, <2>3 DEF CadaUnoEnSuLugar, Hilos
  <2>6. QED
    BY <2>1, <2>3, <2>4, <2>5 DEF CadaUnoEnSuLugar, MismaSuspension
<1>3. ASSUME d = "STDIN", NEW p \in PIDS, EscrituraFallida(p) PROVE CadaUnoEnSuLugar'
  <2>1. /\ p \in block /\ block' = block \ {p}
        /\ UNCHANGED <<ready, exec, susp_block, susp_ready, rechazados, hilo_io, hilo_cpu, en_swap>>
    BY <1>3 DEF EscrituraFallida
  <2>2. EnTraslado' = EnTraslado /\ EnSuspReady' = EnSuspReady
    BY <2>1 DEF EnTraslado, EnSuspReady
  <2>3. Lugares'
    BY <2>1, <2>2 DEF CadaUnoEnSuLugar, Lugares, TypeOK, IsInjective
  <2>4. QED
    BY <2>1, <2>2, <2>3 DEF CadaUnoEnSuLugar, Hilos, MismaSuspension
<1>4. ASSUME NEW p \in PIDS, SacarDeSuspBlock(d, p) PROVE CadaUnoEnSuLugar'
  <2>1. /\ p \in susp_block /\ susp_block' = susp_block \ {p} /\ hilo_io[d] = Libre
        /\ hilo_io' = [hilo_io EXCEPT ![d] = [paso |-> "agregar", pid |-> p]]
        /\ UNCHANGED <<ready, exec, block, susp_ready, rechazados, hilo_cpu, en_swap>>
    BY <1>4 DEF SacarDeSuspBlock, Finaliza
  <2>2. EnSuspReady' = EnSuspReady
    BY <2>1 DEF EnSuspReady
  <2>3. /\ hilo_io'[d] = [paso |-> "agregar", pid |-> p]
        /\ \A e \in DISPOSITIVOS : e # d => hilo_io'[e] = hilo_io[e]
        /\ hilo_io[d].paso = "libre"
    BY <2>1 DEF TypeOK, Libre
  <2>4. EnTraslado' = EnTraslado \cup {p}
    BY <2>3, TrasladoEs
  <2>5. Lugares'
    BY <1>1, <2>1, <2>2, <2>4 DEF CadaUnoEnSuLugar, Lugares, TypeOK, IsInjective
  <2>6. Hilos'
    <3>1. \A e \in DISPOSITIVOS : hilo_io[e] # [paso |-> "agregar", pid |-> p]
      BY <2>1, TrasladoEs DEF CadaUnoEnSuLugar, Lugares
    <3>2. \A e, f \in DISPOSITIVOS :
              hilo_io'[e].paso \in {"agregar", "pedir"} /\ hilo_io'[e] = hilo_io'[f] => e = f
      BY <2>3, <3>1 DEF CadaUnoEnSuLugar, Hilos
    <3>3. QED
      BY <2>1, <2>2, <2>3, <3>2 DEF CadaUnoEnSuLugar, Hilos
  <2>7. MismaSuspension'
    BY <2>1, <2>2, <2>4 DEF CadaUnoEnSuLugar, MismaSuspension
  <2>8. QED
    BY <2>5, <2>6, <2>7 DEF CadaUnoEnSuLugar
<1>5. CASE AgregarASuspReady(d)
  <2> DEFINE p == hilo_io[d].pid
  <2>1. /\ hilo_io[d].paso = "agregar" /\ susp_ready' = Ordenada(susp_ready, p)
        /\ hilo_io' = [hilo_io EXCEPT ![d].paso = "pedir"]
        /\ UNCHANGED <<ready, exec, block, susp_block, rechazados, hilo_cpu, en_swap>>
    BY <1>5 DEF AgregarASuspReady
  <2>2. p \in PIDS /\ p \in EnTraslado /\ hilo_io[d] = [paso |-> "agregar", pid |-> p]
    BY <2>1, TrasladoEs, PasoIODe
  <2>3. p \notin EnSuspReady
    BY <2>2 DEF CadaUnoEnSuLugar, Lugares
  <2> HIDE DEF p
  <2>4. EnSuspReady' = EnSuspReady \cup {p} /\ IsInjective(susp_ready')
    <3>1. susp_ready \in Seq(PIDS) /\ IsInjective(susp_ready)
      BY DEF TypeOK, CadaUnoEnSuLugar, Lugares
    <3>2. QED
      BY <2>1, <2>2, <2>3, <3>1, OrdenadaAgrega DEF EnSuspReady
  <2>5. /\ hilo_io'[d] = [paso |-> "pedir", pid |-> p]
        /\ \A e \in DISPOSITIVOS : e # d => hilo_io'[e] = hilo_io[e]
    BY <2>1, <2>2 DEF TypeOK
  <2>6. \A e \in DISPOSITIVOS : e # d => hilo_io[e] # [paso |-> "agregar", pid |-> p]
    BY <2>2 DEF CadaUnoEnSuLugar, Hilos
  <2>7. EnTraslado' = EnTraslado \ {p}
    <3>1. \A e \in DISPOSITIVOS : hilo_io[e].paso = "agregar" =>
              hilo_io[e] = [paso |-> "agregar", pid |-> hilo_io[e].pid]
      BY PasoIODe
    <3>2. \A q : q \in EnTraslado' => q \in EnTraslado /\ q # p
      BY <2>5, <2>6, <3>1, TrasladoEs
    <3>3. \A q : q \in EnTraslado /\ q # p => q \in EnTraslado'
      BY <2>2, <2>5, TrasladoEs
    <3>4. p \notin EnTraslado'
      BY <3>2
    <3>5. QED
      BY <3>2, <3>3, <3>4
  <2>8. Lugares'
    BY <2>1, <2>2, <2>4, <2>7 DEF CadaUnoEnSuLugar, Lugares
  <2>9. Hilos'
    <3>1. \A e \in DISPOSITIVOS : hilo_io[e].paso = "pedir" => hilo_io[e].pid # p
      BY <2>3 DEF CadaUnoEnSuLugar, Hilos
    <3>2. \A e, f \in DISPOSITIVOS :
              hilo_io'[e].paso \in {"agregar", "pedir"} /\ hilo_io'[e] = hilo_io'[f] => e = f
      BY <2>5, <3>1 DEF CadaUnoEnSuLugar, Hilos
    <3>3. \A e \in DISPOSITIVOS : hilo_io'[e].paso = "pedir" => hilo_io'[e].pid \in EnSuspReady'
      BY <2>4, <2>5 DEF CadaUnoEnSuLugar, Hilos
    <3>4. QED
      BY <2>1, <3>2, <3>3 DEF CadaUnoEnSuLugar, Hilos
  <2>10. MismaSuspension'
    BY <2>1, <2>2, <2>4, <2>7 DEF CadaUnoEnSuLugar, MismaSuspension
  <2>11. QED
    BY <2>8, <2>9, <2>10 DEF CadaUnoEnSuLugar
<1>6. CASE PedirLugar(d) \/ PedirMas(d) \/ Desocupar(d)
  <2>1. /\ hilo_io[d].paso # "agregar"
        /\ hilo_io' = [hilo_io EXCEPT ![d] = AlTerminar(d)] \/ hilo_io' = [hilo_io EXCEPT ![d] = Libre]
        /\ UNCHANGED <<ready, exec, block, susp_block, susp_ready, rechazados, hilo_cpu, en_swap>>
    BY <1>6 DEF PedirLugar, PedirMas, TerminarHandler, Desocupar, PorDesocupar
  <2>2. /\ hilo_io'[d].paso \in {"libre", "desocupar"}
        /\ \A e \in DISPOSITIVOS : e # d => hilo_io'[e] = hilo_io[e]
    BY <1>10, <2>1 DEF TypeOK, Libre
  <2>3. EnTraslado' = EnTraslado
    BY <2>1, <2>2, TrasladoIgual
  <2>4. EnSuspReady' = EnSuspReady
    BY <2>1 DEF EnSuspReady
  <2>5. Lugares' /\ MismaSuspension'
    BY <2>1, <2>3, <2>4 DEF CadaUnoEnSuLugar, Lugares, MismaSuspension, IsInjective
  <2>6. Hilos'
    BY <2>1, <2>2, <2>4 DEF CadaUnoEnSuLugar, Hilos
  <2>7. QED
    BY <2>5, <2>6 DEF CadaUnoEnSuLugar
<1>7. CASE DesuspenderSinBytes(d)
  <2> DEFINE p == hilo_io[d].pid
  <2>1. /\ hilo_io[d].paso = "pedir" /\ susp_ready' = RemoveFirst(susp_ready, p)
        /\ Reanuda(p) /\ hilo_io' = [hilo_io EXCEPT ![d].paso = "pedir_mas"]
        /\ UNCHANGED <<exec, block, susp_block, hilo_cpu>>
    BY <1>7 DEF DesuspenderSinBytes, Reanuda
  <2>2. p \in PIDS /\ p \in EnSuspReady /\ hilo_io[d] = [paso |-> "pedir", pid |-> p]
    BY <2>1, PasoIODe DEF CadaUnoEnSuLugar, Hilos
  <2> HIDE DEF p
  <2>3. EnSuspReady' = EnSuspReady \ {p} /\ IsInjective(susp_ready')
    <3>1. susp_ready \in Seq(PIDS) /\ IsInjective(susp_ready)
      BY DEF TypeOK, CadaUnoEnSuLugar, Lugares
    <3>2. QED
      BY <2>1, <2>2, <3>1, SacarQuita DEF EnSuspReady
  <2>4. /\ hilo_io'[d].paso = "pedir_mas"
        /\ \A e \in DISPOSITIVOS : e # d => hilo_io'[e] = hilo_io[e]
    BY <2>1, <2>2 DEF TypeOK
  <2>5. EnTraslado' = EnTraslado
    BY <2>1, <2>4, TrasladoIgual
  <2>6. \A e \in DISPOSITIVOS : e # d => hilo_io[e] # [paso |-> "pedir", pid |-> p]
    BY <2>2 DEF CadaUnoEnSuLugar, Hilos
  <2>7. QED
    BY <2>1, <2>2, <2>3, <2>4, <2>5, <2>6, LugarDesuspender
<1>8. CASE UsarLiberado(d)
  <2>1. UNCHANGED <<ready, exec, block, susp_block, hilo_io, susp_ready, rechazados, en_swap, hilo_cpu>>
    BY <1>8 DEF UsarLiberado
  <2>2. QED
    BY <2>1, LugarIgual DEF CadaUnoEnSuLugar, Hilos
<1>9. QED
  BY <1>2, <1>3, <1>4, <1>5, <1>6, <1>7, <1>8 DEF HiloIO

\* A notice resumes one process of SUSP READY, or none.
LEMMA LugarEscucha ==
    ASSUME TypeOK, TypeOK', CadaUnoEnSuLugar, HiloEscucha
    PROVE  CadaUnoEnSuLugar'
<1>1. CASE AvisoSinEfecto \/ PedirTrasAviso
  <2>1. UNCHANGED <<ready, exec, block, susp_block, hilo_io, susp_ready, rechazados, en_swap, hilo_cpu>>
    BY <1>1 DEF AvisoSinEfecto, PedirTrasAviso, ejecucion, listas, memoria
  <2>2. QED
    BY <2>1, LugarIgual DEF CadaUnoEnSuLugar, Hilos
<1>2. CASE AtenderAviso
  <2> DEFINE p == susp_ready[Nombrado]
  <2>1. /\ susp_ready' = RemoveAt(susp_ready, Nombrado)
        /\ hilo_io' = [d \in DISPOSITIVOS |->
                          IF hilo_io[d] = [paso |-> "pedir", pid |-> p]
                          THEN [paso |-> "pedir_liberado", pid |-> p] ELSE hilo_io[d]]
        /\ Reanuda(p) /\ Nombrado # 0
        /\ UNCHANGED <<exec, block, susp_block, hilo_cpu>>
    BY <1>2 DEF AtenderAviso, Reanuda
  <2>2. susp_ready \in Seq(PIDS) /\ IsInjective(susp_ready)
    BY DEF TypeOK, CadaUnoEnSuLugar, Lugares
  <2>3. Nombrado \in 1 .. Len(susp_ready)
    BY <2>1, <2>2, NombradoEs
  <2>4. p \in EnSuspReady /\ EnSuspReady' = EnSuspReady \ {p} /\ IsInjective(susp_ready')
    BY <2>1, <2>2, <2>3, SinEl DEF EnSuspReady
  <2> HIDE DEF p
  <2>5. p \in PIDS
    BY <2>4, LugaresTipo
  <2>6. \A d \in DISPOSITIVOS :
            \/ hilo_io'[d] = hilo_io[d] /\ hilo_io[d] # [paso |-> "pedir", pid |-> p]
            \/ hilo_io'[d] = [paso |-> "pedir_liberado", pid |-> p] /\ hilo_io[d] = [paso |-> "pedir", pid |-> p]
    BY <2>1
  <2>7. \A d \in DISPOSITIVOS :
            \/ hilo_io'[d] = hilo_io[d] /\ hilo_io[d] # [paso |-> "pedir", pid |-> p]
            \/ hilo_io'[d].paso = "pedir_liberado" /\ hilo_io[d].paso = "pedir"
    BY <2>6
  <2>8. EnTraslado' = EnTraslado
    BY <2>7, TrasladoIgual
  <2>9. QED
    BY <2>1, <2>4, <2>5, <2>7, <2>8, LugarDesuspender
<1>3. QED
  BY <1>1, <1>2 DEF HiloEscucha

\* At first everybody is in READY.
LEMMA LugarInicial == Init => CadaUnoEnSuLugar
<1>1. SUFFICES ASSUME Init PROVE CadaUnoEnSuLugar
  OBVIOUS
<1>2. EnTraslado = {} /\ EnSuspReady = {}
  BY <1>1, TrasladoEs DEF Init, Libre, EnSuspReady, ToSet
<1>3. IsInjective(susp_ready)
  BY <1>1 DEF Init, IsInjective
<1>4. Lugares
  BY <1>1, <1>2, <1>3, SuspensionAssumption DEF Init, Lugares
<1>5. QED
  BY <1>1, <1>2, <1>4 DEF Init, CadaUnoEnSuLugar, Hilos, MismaSuspension, Libre

\* No step of any thread breaks it.
LEMMA LugarPaso == TypeOK /\ TypeOK' /\ CadaUnoEnSuLugar /\ [Next]_vars => CadaUnoEnSuLugar'
<1>1. SUFFICES ASSUME TypeOK, TypeOK', CadaUnoEnSuLugar, [Next]_vars PROVE CadaUnoEnSuLugar'
  OBVIOUS
<1>2. CASE UNCHANGED vars
  <2>1. UNCHANGED <<ready, exec, block, susp_block, hilo_io, susp_ready, rechazados, en_swap, hilo_cpu>>
    BY <1>2 DEF vars, ejecucion, listas, memoria
  <2>2. QED
    BY <1>1, <2>1, LugarIgual DEF CadaUnoEnSuLugar, Hilos
<1>3. ASSUME NEW c \in CPUS, NEW p \in PIDS, Despachar(c, p) \/ Programa(c, p)
      PROVE  CadaUnoEnSuLugar'
  BY <1>1, <1>3, LugarPrograma
<1>4. ASSUME NEW c \in CPUS, HiloCpu(c) PROVE CadaUnoEnSuLugar'
  BY <1>1, <1>4, LugarHiloCpu
<1>5. ASSUME NEW p \in PIDS, HiloTimer(p) PROVE CadaUnoEnSuLugar'
  BY <1>1, <1>5, LugarHiloTimer
<1>6. ASSUME NEW d \in DISPOSITIVOS, EnviarAlDispositivo(d) \/ HiloIO(d) PROVE CadaUnoEnSuLugar'
  BY <1>1, <1>6, LugarEnviar, LugarHiloIO
<1>7. CASE HiloEscucha
  BY <1>1, <1>7, LugarEscucha
<1>8. QED
  BY <1>1, <1>2, <1>3, <1>4, <1>5, <1>6, <1>7 DEF Next

\* MismaSuspension, for any number of processes, CPUs, devices and notices: scheduler.c and
\* swap_gestor.c agree on who is in swap, whatever timer, answer and notice cross.
THEOREM SuspensionExacta == Spec => []MismaSuspension
<1>1. CadaUnoEnSuLugar => MismaSuspension
  BY DEF CadaUnoEnSuLugar
<1>2. QED
  BY <1>1, TipoCorrecto, LugarInicial, LugarPaso, PTL DEF Spec

-----------------------------------------------------------------------------
(* The requests to the devices.                                            *)

\* A step that leaves the requests and the threads of the CPUs alone, and takes nobody out of
\* BLOCK and SUSP BLOCK.
LEMMA PedidosIgual ==
    ASSUME Pedidos, UNCHANGED <<cola, en_io, hilo_cpu>>,
           block \cup susp_block \subseteq block' \cup susp_block'
    PROVE  Pedidos'
<1>1. \A d : Pendientes(d)' = Pendientes(d)
  BY DEF Pendientes, ToSet
<1>2. QED
  BY <1>1 DEF Pedidos, IsInjective, ToSet

\* A thread of a CPU that had no request in hand goes on without one.
LEMMA PedidosSinPedido ==
    ASSUME Pedidos, NEW c \in CPUS, UNCHANGED <<cola, en_io, block, susp_block>>,
           hilo_cpu'[c].paso \notin {"armar", "leer"},
           \A e \in CPUS : e # c => hilo_cpu'[e] = hilo_cpu[e]
    PROVE  Pedidos'
<1>1. \A d : Pendientes(d)' = Pendientes(d)
  BY DEF Pendientes, ToSet
<1>2. QED
  BY <1>1 DEF Pedidos, IsInjective, ToSet

\* bloquear_proceso puts a request in the hands of the thread: the process ran, so it had none.
LEMMA PedidosBloqueado ==
    ASSUME TypeOK, CadaUnoEnSuLugar, Pedidos,
           NEW c \in CPUS, NEW p \in PIDS, NEW d, exec[c] = p, Bloqueado(c, p, d),
           UNCHANGED <<cola, en_io, susp_block>>
    PROVE  Pedidos'
<1>1. p \notin block \cup susp_block
  BY DEF CadaUnoEnSuLugar, Lugares
<1>2. \A e : Pendientes(e)' = Pendientes(e)
  BY DEF Pendientes, ToSet
<1>3. /\ hilo_cpu'[c].paso = "armar" /\ hilo_cpu'[c].pid = p
      /\ \A e \in CPUS : e # c => hilo_cpu'[e] = hilo_cpu[e]
      /\ block' = block \cup {p}
  BY DEF Bloqueado, TypeOK
<1>4. \A e \in DISPOSITIVOS :
          /\ IsInjective(cola[e])' /\ IsInjective(en_io[e])'
          /\ ToSet(cola[e])' \cap ToSet(en_io[e])' = {}
          /\ Pendientes(e)' \subseteq block' \cup susp_block'
  BY <1>2, <1>3 DEF Pedidos, IsInjective, ToSet
<1>5. \A e, f \in DISPOSITIVOS : e # f => Pendientes(e)' \cap Pendientes(f)' = {}
  BY <1>2 DEF Pedidos
<1>6. \A e \in CPUS : hilo_cpu'[e].paso \in {"armar", "leer"} =>
          /\ hilo_cpu'[e].pid \in block' \cup susp_block'
          /\ \A f \in DISPOSITIVOS : hilo_cpu'[e].pid \notin Pendientes(f)'
  BY <1>1, <1>2, <1>3 DEF Pedidos
<1>7. \A e, f \in CPUS :
          /\ hilo_cpu'[e].paso \in {"armar", "leer"} /\ hilo_cpu'[f].paso \in {"armar", "leer"}
          /\ hilo_cpu'[e].pid = hilo_cpu'[f].pid
          => e = f
  BY <1>1, <1>3 DEF Pedidos
<1>8. QED
  BY <1>4, <1>5, <1>6, <1>7 DEF Pedidos

\* The request of a thread enters the queue of a device.
LEMMA PedidosEncola ==
    ASSUME TypeOK, Pedidos, NEW c \in CPUS, NEW d \in DISPOSITIVOS,
           hilo_cpu[c].paso \in {"armar", "leer"},
           cola' = [cola EXCEPT ![d] = Append(@, hilo_cpu[c].pid)],
           hilo_cpu' = [hilo_cpu EXCEPT ![c] = Libre],
           UNCHANGED <<en_io, block, susp_block>>
    PROVE  Pedidos'
<1> DEFINE p == hilo_cpu[c].pid
<1>1. /\ p \in PIDS /\ p \in block \cup susp_block
      /\ \A e \in DISPOSITIVOS : p \notin Pendientes(e)
  BY PasoDe DEF Pedidos
<1>2. \A e \in CPUS : e # c /\ hilo_cpu[e].paso \in {"armar", "leer"} => hilo_cpu[e].pid # p
  BY DEF Pedidos
<1> HIDE DEF p
<1>3. /\ cola'[d] = Append(cola[d], p) /\ \A e \in DISPOSITIVOS : e # d => cola'[e] = cola[e]
      /\ cola[d] \in Seq(PIDS)
  BY DEF TypeOK, p
<1>4. /\ ToSet(cola'[d]) = ToSet(cola[d]) \cup {p}
      /\ IsInjective(cola'[d])
  BY <1>1, <1>3, AlFinal DEF Pendientes, Pedidos
<1>5. /\ Pendientes(d)' = Pendientes(d) \cup {p}
      /\ \A e \in DISPOSITIVOS : e # d => Pendientes(e)' = Pendientes(e)
  BY <1>3, <1>4 DEF Pendientes, ToSet
<1>6. hilo_cpu'[c].paso = "libre" /\ \A e \in CPUS : e # c => hilo_cpu'[e] = hilo_cpu[e]
  BY DEF TypeOK, Libre
<1>7. ASSUME NEW e \in DISPOSITIVOS
      PROVE  /\ IsInjective(cola'[e]) /\ IsInjective(en_io'[e])
             /\ ToSet(cola'[e]) \cap ToSet(en_io'[e]) = {}
             /\ Pendientes(e)' \subseteq block' \cup susp_block'
  <2>1. CASE e = d
    BY <1>1, <1>4, <1>5, <2>1 DEF Pedidos, Pendientes
  <2>2. CASE e # d
    BY <1>3, <1>5, <2>2 DEF Pedidos
  <2>3. QED
    BY <2>1, <2>2
<1>8. \A e, f \in DISPOSITIVOS : e # f => Pendientes(e)' \cap Pendientes(f)' = {}
  BY <1>1, <1>5 DEF Pedidos
<1>9. \A e \in CPUS : hilo_cpu'[e].paso \in {"armar", "leer"} =>
          /\ hilo_cpu'[e].pid \in block' \cup susp_block'
          /\ \A f \in DISPOSITIVOS : hilo_cpu'[e].pid \notin Pendientes(f)'
  BY <1>2, <1>5, <1>6 DEF Pedidos
<1>10. \A e, f \in CPUS :
          /\ hilo_cpu'[e].paso \in {"armar", "leer"} /\ hilo_cpu'[f].paso \in {"armar", "leer"}
          /\ hilo_cpu'[e].pid = hilo_cpu'[f].pid
          => e = f
  BY <1>6 DEF Pedidos
<1>11. QED
  BY <1>7, <1>8, <1>9, <1>10 DEF Pedidos

\* The thread of the device sends the first request of its queue.
LEMMA PedidosEnviar ==
    ASSUME TypeOK, Pedidos, NEW d \in DISPOSITIVOS, EnviarAlDispositivo(d)
    PROVE  Pedidos' /\ \A e \in DISPOSITIVOS : Pendientes(e)' = Pendientes(e)
<1> DEFINE p == Head(cola[d])
<1>1. /\ cola[d] # <<>> /\ cola[d] \in Seq(PIDS) /\ en_io[d] \in Seq(PIDS)
      /\ cola'[d] = Tail(cola[d]) /\ en_io'[d] = Append(en_io[d], p)
      /\ \A e \in DISPOSITIVOS : e # d => cola'[e] = cola[e] /\ en_io'[e] = en_io[e]
      /\ UNCHANGED <<block, susp_block, hilo_cpu>>
  BY DEF TypeOK, EnviarAlDispositivo, Desencolar, ejecucion, listas
<1>2. /\ IsInjective(cola[d]) /\ IsInjective(en_io[d]) /\ ToSet(cola[d]) \cap ToSet(en_io[d]) = {}
  BY DEF Pedidos
<1>3. /\ p \in PIDS /\ ToSet(cola[d]) = ToSet(Tail(cola[d])) \cup {p}
      /\ p \notin ToSet(Tail(cola[d])) /\ IsInjective(Tail(cola[d]))
  BY <1>1, <1>2, SinElPrimero
<1> HIDE DEF p
<1>4. ToSet(en_io'[d]) = ToSet(en_io[d]) \cup {p} /\ IsInjective(en_io'[d])
  BY <1>1, <1>2, <1>3, AlFinal
<1>5. ASSUME NEW e \in DISPOSITIVOS PROVE Pendientes(e)' = Pendientes(e)
  <2>1. CASE e = d
    BY <1>1, <1>3, <1>4, <2>1 DEF Pendientes
  <2>2. CASE e # d
    BY <1>1, <2>2 DEF Pendientes, ToSet
  <2>3. QED
    BY <2>1, <2>2
<1>6. ASSUME NEW e \in DISPOSITIVOS
      PROVE  /\ IsInjective(cola'[e]) /\ IsInjective(en_io'[e])
             /\ ToSet(cola'[e]) \cap ToSet(en_io'[e]) = {}
             /\ Pendientes(e)' \subseteq block' \cup susp_block'
  <2>1. CASE e = d
    BY <1>1, <1>2, <1>3, <1>4, <1>5, <2>1 DEF Pedidos
  <2>2. CASE e # d
    BY <1>1, <1>5, <2>2 DEF Pedidos
  <2>3. QED
    BY <2>1, <2>2
<1>7. QED
  BY <1>1, <1>5, <1>6 DEF Pedidos

\* The answer of a device takes its request and its process out together.
LEMMA PedidosTermina ==
    ASSUME TypeOK, Pedidos, NEW d \in DISPOSITIVOS, NEW p, Finaliza(d, p),
           UNCHANGED <<cola, hilo_cpu>>,
           (block \cup susp_block) \ {p} \subseteq block' \cup susp_block'
    PROVE  /\ Pedidos' /\ p \in Pendientes(d) /\ p \in PIDS
           /\ Pendientes(d)' = Pendientes(d) \ {p}
           /\ \A e \in DISPOSITIVOS : e # d => Pendientes(e)' = Pendientes(e) /\ p \notin Pendientes(e)
<1>1. /\ en_io[d] # <<>> /\ en_io[d] \in Seq(PIDS) /\ p = Head(en_io[d])
      /\ en_io'[d] = Tail(en_io[d])
      /\ \A e \in DISPOSITIVOS : e # d => en_io'[e] = en_io[e]
  BY DEF TypeOK, Finaliza
<1>2. /\ IsInjective(cola[d]) /\ IsInjective(en_io[d]) /\ ToSet(cola[d]) \cap ToSet(en_io[d]) = {}
  BY DEF Pedidos
<1>3. /\ p \in PIDS /\ ToSet(en_io[d]) = ToSet(Tail(en_io[d])) \cup {p}
      /\ p \notin ToSet(Tail(en_io[d])) /\ IsInjective(Tail(en_io[d]))
  BY <1>1, <1>2, SinElPrimero
<1>4. /\ p \in Pendientes(d) /\ Pendientes(d)' = Pendientes(d) \ {p}
  BY <1>1, <1>2, <1>3 DEF Pendientes
<1>5. \A e \in DISPOSITIVOS : e # d => Pendientes(e)' = Pendientes(e) /\ p \notin Pendientes(e)
  BY <1>1, <1>4 DEF Pendientes, Pedidos
<1>6. \A e \in CPUS : hilo_cpu[e].paso \in {"armar", "leer"} => hilo_cpu[e].pid # p
  BY <1>4 DEF Pedidos
<1>7. ASSUME NEW e \in DISPOSITIVOS
      PROVE  /\ IsInjective(cola'[e]) /\ IsInjective(en_io'[e])
             /\ ToSet(cola'[e]) \cap ToSet(en_io'[e]) = {}
             /\ Pendientes(e)' \subseteq block' \cup susp_block'
  <2>1. CASE e = d
    BY <1>1, <1>2, <1>3, <1>4, <2>1 DEF Pedidos
  <2>2. CASE e # d
    BY <1>1, <1>5, <2>2 DEF Pedidos
  <2>3. QED
    BY <2>1, <2>2
<1>8. \A e, f \in DISPOSITIVOS : e # f => Pendientes(e)' \cap Pendientes(f)' = {}
  BY <1>4, <1>5 DEF Pedidos
<1>9. \A e \in CPUS : hilo_cpu'[e].paso \in {"armar", "leer"} =>
          /\ hilo_cpu'[e].pid \in block' \cup susp_block'
          /\ \A f \in DISPOSITIVOS : hilo_cpu'[e].pid \notin Pendientes(f)'
  BY <1>4, <1>5, <1>6 DEF Pedidos
<1>10. Pedidos'
  BY <1>7, <1>8, <1>9 DEF Pedidos
<1>11. QED
  BY <1>3, <1>4, <1>5, <1>10

\* What a thread of a CPU does with the request in its hands.
LEMMA ArmarEs ==
    ASSUME TypeOK, NEW c \in CPUS, Armar(c)
    PROVE  /\ hilo_cpu[c].paso = "armar" /\ hilo_cpu[c].pid \in PIDS /\ hilo_cpu[c].io \in DISPOSITIVOS
           /\ UNCHANGED <<en_io, block, susp_block>>
           /\ \/ /\ hilo_cpu[c].io = "STDOUT" /\ cola' = cola
                 /\ hilo_cpu' = [hilo_cpu EXCEPT
                                   ![c] = [paso |-> "leer", pid |-> hilo_cpu[c].pid, io |-> "STDOUT"]]
              \/ /\ hilo_cpu[c].io # "STDOUT"
                 /\ cola' = [cola EXCEPT ![hilo_cpu[c].io] = Append(@, hilo_cpu[c].pid)]
                 /\ hilo_cpu' = [hilo_cpu EXCEPT ![c] = Libre]
<1>1. /\ hilo_cpu[c].paso = "armar" /\ UNCHANGED <<en_io, block, susp_block>>
  BY DEF Armar, listas
<1>2. hilo_cpu[c].pid \in PIDS /\ hilo_cpu[c].io \in DISPOSITIVOS
  BY <1>1, PasoDe
<1>3. CASE hilo_cpu[c].io = "STDOUT"
  <2>1. hilo_cpu' = [hilo_cpu EXCEPT ![c].paso = "leer"] /\ cola' = cola
    BY <1>3 DEF Armar
  <2>2. [hilo_cpu EXCEPT ![c].paso = "leer"]
          = [hilo_cpu EXCEPT ![c] = [paso |-> "leer", pid |-> hilo_cpu[c].pid, io |-> "STDOUT"]]
    BY <1>1, <1>3, OtroPaso
  <2>3. QED
    BY <1>1, <1>2, <1>3, <2>1, <2>2
<1>4. CASE hilo_cpu[c].io # "STDOUT"
  <2>1. /\ cola' = [cola EXCEPT ![hilo_cpu[c].io] = Append(@, hilo_cpu[c].pid)]
        /\ hilo_cpu' = [hilo_cpu EXCEPT ![c] = Libre]
    BY <1>4 DEF Armar
  <2>2. QED
    BY <1>1, <1>2, <1>4, <2>1
<1>5. QED
  BY <1>3, <1>4

\* The steps of a program keep the requests as Pedidos says.
LEMMA PedidosPrograma ==
    ASSUME TypeOK, CadaUnoEnSuLugar, Pedidos,
           NEW c \in CPUS, NEW p \in PIDS, Despachar(c, p) \/ Programa(c, p)
    PROVE  Pedidos'
<1> USE DEF ejecucion, listas, dispositivos, texto, memoria, escucha
<1>1. ASSUME UNCHANGED <<cola, en_io, hilo_cpu, block, susp_block>> PROVE Pedidos'
  BY <1>1, PedidosIgual
<1>2. CASE Despachar(c, p) \/ MEM_FREE(c, p) \/ EXIT(c, p)
  BY <1>1, <1>2 DEF Despachar, MEM_FREE, EXIT
<1>3. ASSUME NEW tamanio \in TAMANIOS, MEM_ALLOC(c, p, tamanio) PROVE Pedidos'
  BY <1>1, <1>3 DEF MEM_ALLOC
<1>4. ASSUME NEW d \in DISPOSITIVOS, Bloquear(c, p, d) PROVE Pedidos'
  <2>1. exec[c] = p /\ Bloqueado(c, p, d) /\ UNCHANGED <<cola, en_io, susp_block>>
    BY <1>4 DEF Bloquear, Pide
  <2>2. QED
    BY <2>1, PedidosBloqueado
<1>5. CASE STDOUT(c, p)
  <2>1. /\ hilo_cpu'[c].paso = "espera_stdout" /\ \A e \in CPUS : e # c => hilo_cpu'[e] = hilo_cpu[e]
        /\ UNCHANGED <<cola, en_io, block, susp_block>>
    BY <1>5 DEF STDOUT, TypeOK
  <2>2. QED
    BY <2>1, PedidosSinPedido
<1>6. QED
  BY <1>2, <1>3, <1>4, <1>5 DEF Programa

\* The thread of a CPU brings a request from bloquear_proceso to the queue of its device.
LEMMA PedidosHiloCpu ==
    ASSUME TypeOK, CadaUnoEnSuLugar, Pedidos, NEW c \in CPUS, HiloCpu(c)
    PROVE  Pedidos'
<1> USE DEF ejecucion, listas, dispositivos, texto, memoria, escucha
<1>1. CASE TomarStdout(c)
  <2>1. /\ hilo_cpu[c].paso = "espera_stdout" /\ hilo_cpu' = [hilo_cpu EXCEPT ![c].paso = "bloquear"]
        /\ UNCHANGED <<cola, en_io, block, susp_block>>
    BY <1>1 DEF TomarStdout
  <2>2. hilo_cpu[c].io = "STDOUT"
    BY <2>1, PasoDe
  <2>3. hilo_cpu' = [hilo_cpu EXCEPT ![c] = [paso |-> "bloquear", pid |-> hilo_cpu[c].pid, io |-> "STDOUT"]]
    BY <2>1, <2>2, OtroPaso
  <2>4. hilo_cpu'[c].paso = "bloquear" /\ \A e \in CPUS : e # c => hilo_cpu'[e] = hilo_cpu[e]
    BY <2>3 DEF TypeOK
  <2>5. QED
    BY <2>1, <2>4, PedidosSinPedido
<1>2. CASE BloquearStdout(c)
  <2>1. exec[c] = hilo_cpu[c].pid /\ hilo_cpu[c].pid \in PIDS
    BY <1>2, PasoDe DEF BloquearStdout, CadaUnoEnSuLugar, Hilos
  <2>2. QED
    BY <1>2, <2>1, PedidosBloqueado DEF BloquearStdout
<1>3. CASE Armar(c)
  <2>1. /\ hilo_cpu[c].paso = "armar" /\ hilo_cpu[c].io \in DISPOSITIVOS
        /\ UNCHANGED <<en_io, block, susp_block>>
    BY <1>3, ArmarEs
  <2>2. CASE /\ cola' = cola
             /\ hilo_cpu' = [hilo_cpu EXCEPT
                               ![c] = [paso |-> "leer", pid |-> hilo_cpu[c].pid, io |-> "STDOUT"]]
    <3>1. /\ hilo_cpu'[c].paso = "leer" /\ hilo_cpu'[c].pid = hilo_cpu[c].pid
          /\ \A e \in CPUS : e # c => hilo_cpu'[e] = hilo_cpu[e]
      BY <2>2 DEF TypeOK
    <3>2. \A d : Pendientes(d)' = Pendientes(d)
      BY <2>1, <2>2 DEF Pendientes, ToSet
    <3>3. \A e \in CPUS : hilo_cpu'[e].paso \in {"armar", "leer"} =>
              hilo_cpu[e].paso \in {"armar", "leer"} /\ hilo_cpu'[e].pid = hilo_cpu[e].pid
      BY <2>1, <3>1
    <3>4. \A e \in DISPOSITIVOS :
              /\ IsInjective(cola[e])' /\ IsInjective(en_io[e])'
              /\ ToSet(cola[e])' \cap ToSet(en_io[e])' = {}
              /\ Pendientes(e)' \subseteq block' \cup susp_block'
      BY <2>1, <2>2, <3>2 DEF Pedidos, IsInjective, ToSet
    <3>5. \A e, f \in CPUS :
              /\ hilo_cpu'[e].paso \in {"armar", "leer"} /\ hilo_cpu'[f].paso \in {"armar", "leer"}
              /\ hilo_cpu'[e].pid = hilo_cpu'[f].pid
              => e = f
      BY <3>3 DEF Pedidos
    <3>6. \A e \in CPUS : hilo_cpu'[e].paso \in {"armar", "leer"} =>
              /\ hilo_cpu'[e].pid \in block' \cup susp_block'
              /\ \A f \in DISPOSITIVOS : hilo_cpu'[e].pid \notin Pendientes(f)'
      BY <2>1, <3>2, <3>3 DEF Pedidos
    <3>7. \A e, f \in DISPOSITIVOS : e # f => Pendientes(e)' \cap Pendientes(f)' = {}
      BY <3>2 DEF Pedidos
    <3>8. QED
      BY <3>4, <3>5, <3>6, <3>7 DEF Pedidos
  <2>3. CASE /\ cola' = [cola EXCEPT ![hilo_cpu[c].io] = Append(@, hilo_cpu[c].pid)]
             /\ hilo_cpu' = [hilo_cpu EXCEPT ![c] = Libre]
    BY <2>1, <2>3, PedidosEncola
  <2>4. QED
    BY <1>3, <2>2, <2>3, ArmarEs
<1>4. CASE LeerSalida(c)
  <2>1. /\ hilo_cpu[c].paso = "leer" /\ hilo_cpu' = [hilo_cpu EXCEPT ![c] = Libre]
        /\ UNCHANGED <<en_io, block, susp_block>>
        /\ cola' = cola \/ cola' = [cola EXCEPT !["STDOUT"] = Append(@, hilo_cpu[c].pid)]
    BY <1>4 DEF LeerSalida
  <2>2. "STDOUT" \in DISPOSITIVOS
    BY <2>1, PasoDe
  <2>3. CASE cola' = cola
    <3>1. hilo_cpu'[c].paso = "libre" /\ \A e \in CPUS : e # c => hilo_cpu'[e] = hilo_cpu[e]
      BY <2>1 DEF TypeOK, Libre
    <3>2. QED
      BY <2>1, <2>3, <3>1, PedidosSinPedido
  <2>4. CASE cola' = [cola EXCEPT !["STDOUT"] = Append(@, hilo_cpu[c].pid)]
    BY <2>1, <2>2, <2>4, PedidosEncola
  <2>5. QED
    BY <2>1, <2>3, <2>4
<1>5. QED
  BY <1>1, <1>2, <1>3, <1>4 DEF HiloCpu

\* The thread of a device takes a request out with the process it was of.
LEMMA PedidosHiloIO ==
    ASSUME TypeOK, CadaUnoEnSuLugar, Pedidos, NEW d \in DISPOSITIVOS, HiloIO(d)
    PROVE  Pedidos'
<1> USE DEF ejecucion, listas, dispositivos, texto, memoria, escucha
<1>1. ASSUME NEW p \in PIDS, FinalizarEnBlock(d, p) PROVE Pedidos'
  BY <1>1, PedidosTermina DEF FinalizarEnBlock
<1>2. ASSUME NEW p \in PIDS, SacarDeSuspBlock(d, p) PROVE Pedidos'
  BY <1>2, PedidosTermina DEF SacarDeSuspBlock
<1>3. ASSUME d = "STDIN", NEW p \in PIDS, EscrituraFallida(p) PROVE Pedidos'
  BY <1>3, PedidosTermina DEF EscrituraFallida
<1>4. CASE \/ AgregarASuspReady(d) \/ PedirLugar(d) \/ DesuspenderSinBytes(d) \/ PedirMas(d)
           \/ UsarLiberado(d) \/ Desocupar(d)
  <2>1. UNCHANGED <<cola, en_io, hilo_cpu, block, susp_block>>
    BY <1>4 DEF AgregarASuspReady, PedirLugar, DesuspenderSinBytes, PedirMas, UsarLiberado, Desocupar,
                TerminarHandler
  <2>2. QED
    BY <2>1, PedidosIgual
<1>5. QED
  BY <1>1, <1>2, <1>3, <1>4 DEF HiloIO

\* At first nobody has asked for anything.
LEMMA PedidosInicial == Init => Pedidos
<1>1. SUFFICES ASSUME Init PROVE Pedidos
  OBVIOUS
<1>2. \A d \in DISPOSITIVOS : cola[d] = <<>> /\ en_io[d] = <<>> /\ Pendientes(d) = {}
  BY <1>1 DEF Init, Pendientes, ToSet
<1>3. IsInjective(<<>>) /\ ToSet(<<>>) = {}
  BY DEF IsInjective, ToSet
<1>4. \A c \in CPUS : hilo_cpu[c].paso = "libre"
  BY <1>1 DEF Init, Libre
<1>5. QED
  BY <1>2, <1>3, <1>4 DEF Pedidos

\* No step breaks Pedidos.
LEMMA PedidosPaso ==
    TypeOK /\ CadaUnoEnSuLugar /\ Pedidos /\ [Next]_vars => Pedidos'
<1>1. SUFFICES ASSUME TypeOK, CadaUnoEnSuLugar, Pedidos, [Next]_vars PROVE Pedidos'
  OBVIOUS
<1> USE DEF ejecucion, listas, dispositivos, texto, memoria, escucha
<1>2. CASE UNCHANGED vars
  BY <1>1, <1>2, PedidosIgual DEF vars
<1>3. ASSUME NEW c \in CPUS, NEW p \in PIDS, Despachar(c, p) \/ Programa(c, p) PROVE Pedidos'
  BY <1>1, <1>3, PedidosPrograma
<1>4. ASSUME NEW c \in CPUS, HiloCpu(c) PROVE Pedidos'
  BY <1>1, <1>4, PedidosHiloCpu
<1>5. ASSUME NEW p \in PIDS, HiloTimer(p) PROVE Pedidos'
  <2>1. UNCHANGED <<cola, en_io, hilo_cpu>> /\ block \cup susp_block \subseteq block' \cup susp_block'
    BY <1>5 DEF HiloTimer, TimerObsoleto, Suspender, SuspensionRechazada
  <2>2. QED
    BY <1>1, <2>1, PedidosIgual
<1>6. ASSUME NEW d \in DISPOSITIVOS, EnviarAlDispositivo(d) \/ HiloIO(d) PROVE Pedidos'
  BY <1>1, <1>6, PedidosEnviar, PedidosHiloIO
<1>7. CASE HiloEscucha
  <2>1. UNCHANGED <<cola, en_io, hilo_cpu, block, susp_block>>
    BY <1>7 DEF HiloEscucha, AvisoSinEfecto, AtenderAviso, PedirTrasAviso
  <2>2. QED
    BY <1>1, <2>1, PedidosIgual
<1>8. QED
  BY <1>1, <1>2, <1>3, <1>4, <1>5, <1>6, <1>7 DEF Next

\* EsperaEnSuLista says it of the two lists of a device one after the other.
LEMMA PedidosBastan == TypeOK /\ Pedidos => EsperaEnSuLista
<1>1. SUFFICES ASSUME TypeOK, Pedidos PROVE EsperaEnSuLista
  OBVIOUS
<1> DEFINE pedidos(d) == cola[d] \o en_io[d]
<1>2. ASSUME NEW d \in DISPOSITIVOS
      PROVE  \A i \in DOMAIN pedidos(d) :
                \/ i \in DOMAIN cola[d] /\ pedidos(d)[i] = cola[d][i]
                \/ /\ i - Len(cola[d]) \in DOMAIN en_io[d]
                   /\ pedidos(d)[i] = en_io[d][i - Len(cola[d])]
  <2>1. cola[d] \in Seq(PIDS) /\ en_io[d] \in Seq(PIDS)
    BY <1>1 DEF TypeOK
  <2>2. QED
    BY <2>1, DosTramos
<1> HIDE DEF pedidos
<1>3. \A d \in DISPOSITIVOS : \A i \in DOMAIN pedidos(d) : pedidos(d)[i] \in Pendientes(d)
  BY <1>2 DEF Pendientes, ToSet
<1>4. ASSUME NEW d \in DISPOSITIVOS, NEW i \in DOMAIN pedidos(d), NEW j \in DOMAIN pedidos(d),
             pedidos(d)[i] = pedidos(d)[j]
      PROVE  i = j
  <2>1. /\ IsInjective(cola[d]) /\ IsInjective(en_io[d]) /\ ToSet(cola[d]) \cap ToSet(en_io[d]) = {}
    BY <1>1 DEF Pedidos
  <2>2. CASE i \in DOMAIN cola[d] /\ pedidos(d)[i] = cola[d][i]
             /\ j \in DOMAIN cola[d] /\ pedidos(d)[j] = cola[d][j]
    BY <1>4, <2>1, <2>2 DEF IsInjective
  <2>3. CASE /\ i - Len(cola[d]) \in DOMAIN en_io[d] /\ pedidos(d)[i] = en_io[d][i - Len(cola[d])]
             /\ j - Len(cola[d]) \in DOMAIN en_io[d] /\ pedidos(d)[j] = en_io[d][j - Len(cola[d])]
    <3>1. i - Len(cola[d]) = j - Len(cola[d])
      BY <1>4, <2>1, <2>3 DEF IsInjective
    <3>2. i \in Int /\ j \in Int /\ Len(cola[d]) \in Int
      <4>1. cola[d] \in Seq(PIDS) /\ en_io[d] \in Seq(PIDS)
        BY <1>1 DEF TypeOK
      <4>2. pedidos(d) \in Seq(PIDS)
        BY <4>1, ConcatProperties DEF pedidos
      <4>3. QED
        BY <4>1, <4>2
    <3>3. QED
      BY <3>1, <3>2
  <2>4. CASE \/ /\ i \in DOMAIN cola[d] /\ pedidos(d)[i] = cola[d][i]
                /\ j - Len(cola[d]) \in DOMAIN en_io[d] /\ pedidos(d)[j] = en_io[d][j - Len(cola[d])]
             \/ /\ j \in DOMAIN cola[d] /\ pedidos(d)[j] = cola[d][j]
                /\ i - Len(cola[d]) \in DOMAIN en_io[d] /\ pedidos(d)[i] = en_io[d][i - Len(cola[d])]
    BY <1>4, <2>1, <2>4 DEF ToSet
  <2>5. QED
    BY <1>2, <2>2, <2>3, <2>4
<1>5. QED
  BY <1>1, <1>3, <1>4 DEF EsperaEnSuLista, Pedidos, pedidos

\* EsperaEnSuLista, for any number of processes, CPUs and devices: the handlers of
\* FINALIZAR_SLEEP, FINALIZAR_STDIN and FINALIZAR_STDOUT (gestion_IO_scheduler.c) find the process
\* in BLOCK or in SUSP BLOCK, so that pasar_des_susp_block_a_ready never leaves with its mutex.
THEOREM EsperaDondeLoBuscan == Spec => []EsperaEnSuLista
<1> DEFINE J == CadaUnoEnSuLugar /\ Pedidos
<1>1. Init => J
  BY LugarInicial, PedidosInicial
<1>2. TypeOK /\ TypeOK' /\ J /\ [Next]_vars => J'
  BY LugarPaso, PedidosPaso
<1>3. TypeOK /\ J => EsperaEnSuLista
  BY PedidosBastan
<1> HIDE DEF J
<1>4. QED
  BY <1>1, <1>2, <1>3, TipoCorrecto, PTL DEF Spec

-----------------------------------------------------------------------------
(* The semaphores of the devices.                                          *)

\* How many times the semaphore of a device is accounted for.
Usos(d) == disponible[d] + Len(en_io[d])
             + (IF hilo_io[d] \in {Libre, PorDesocupar} THEN 0 ELSE 1)

\* Who named an address he does not hold and is in no list, although nobody refused to resume him.
Perdidos == destino_invalido \cap (EnNingunLado \ rechazados)

\* UnUsoPorDispositivo with the names of this module.
LEMMA UnUsoEs ==
    UnUsoPorDispositivo <=>
        \A d \in DISPOSITIVOS : Usos(d) = 1 \/ (Usos(d) = 0 /\ d = "STDIN" /\ Perdidos # {})
  BY Zenon DEF UnUsoPorDispositivo, Usos, Perdidos

\* Who is in some list of the scheduler, on the way from one to another, or given up.
Enlistados == ready \cup {exec[c] : c \in CPUS} \cup block \cup susp_block \cup EnTraslado
              \cup EnSuspReady \cup rechazados

\* The lost are in none.
LEMMA PerdidosSon == Perdidos = (destino_invalido \cap PIDS) \ Enlistados
  BY DEF Perdidos, EnNingunLado, Enlistados

\* Nobody enters a list but from another one, and a resumption writes nothing of who is lost.
LEMMA DesuspenderEnlistados ==
    ASSUME NEW p, Reanuda(p), p \in EnSuspReady, EnSuspReady' \subseteq EnSuspReady,
           EnTraslado' = EnTraslado, UNCHANGED <<exec, block, susp_block>>
    PROVE  Enlistados' \subseteq Enlistados /\ UNCHANGED destino_invalido
<1>1. ready' \cup rechazados' \subseteq ready \cup rechazados \cup {p}
  BY DesuspenderLugar
<1>2. UNCHANGED destino_invalido
  BY DEF Reanuda, Desuspender, DesuspensionRechazada, EscribirAlVolver
<1>3. QED
  BY <1>1, <1>2 DEF Enlistados

\* A program that ends leaves the lists; nobody comes back to them.
LEMMA EnlistadosPrograma ==
    ASSUME TypeOK, NEW c \in CPUS, NEW p \in PIDS, Despachar(c, p) \/ Programa(c, p)
    PROVE  /\ Enlistados' \subseteq Enlistados \cup {NULL}
           /\ destino_invalido \ Enlistados \subseteq destino_invalido'
           /\ UNCHANGED <<disponible, en_io, hilo_io>>
<1> USE DEF ejecucion, listas, dispositivos, texto, memoria, escucha
<1>1. ASSUME UNCHANGED <<susp_ready, hilo_io>>
      PROVE  EnTraslado' = EnTraslado /\ EnSuspReady' = EnSuspReady
  BY <1>1 DEF EnTraslado, EnSuspReady
<1>2. CASE Despachar(c, p)
  <2>1. /\ p \in ready /\ ready' = ready \ {p} /\ exec' = [exec EXCEPT ![c] = p]
        /\ UNCHANGED <<block, susp_block, susp_ready, rechazados, hilo_io, destino_invalido, disponible, en_io>>
    BY <1>2 DEF Despachar
  <2>2. \A x \in {exec'[e] : e \in CPUS} : x = p \/ x \in {exec[e] : e \in CPUS}
    BY <2>1 DEF TypeOK
  <2>3. QED
    BY <1>1, <2>1, <2>2 DEF Enlistados
<1>3. ASSUME UNCHANGED <<ready, exec, block, susp_block, susp_ready, rechazados, hilo_io>>
      PROVE  Enlistados' = Enlistados
  BY <1>1, <1>3 DEF Enlistados
<1>4. CASE MEM_FREE(c, p) \/ STDOUT(c, p) \/ \E tamanio \in TAMANIOS : MEM_ALLOC(c, p, tamanio)
  <2>1. UNCHANGED <<ready, exec, block, susp_block, susp_ready, rechazados, hilo_io, destino_invalido, disponible, en_io>>
    BY <1>4 DEF MEM_FREE, STDOUT, MEM_ALLOC
  <2>2. QED
    BY <1>3, <2>1
<1>5. CASE EXIT(c, p)
  <2>1. /\ exec' = [exec EXCEPT ![c] = NULL]
        /\ exec[c] = p /\ destino_invalido' = destino_invalido \ {p}
        /\ UNCHANGED <<ready, block, susp_block, susp_ready, rechazados, hilo_io, disponible, en_io>>
    BY <1>5 DEF EXIT, Pide
  <2>2. \A x \in {exec'[e] : e \in CPUS} : x = NULL \/ x \in {exec[e] : e \in CPUS}
    BY <2>1 DEF TypeOK
  <2>3. p \in {exec[e] : e \in CPUS}
    BY <2>1
  <2>4. QED
    BY <1>1, <2>1, <2>2, <2>3 DEF Enlistados
<1>6. ASSUME NEW d \in DISPOSITIVOS, Bloquear(c, p, d)
      PROVE  /\ Enlistados' \subseteq Enlistados \cup {NULL}
             /\ destino_invalido \ Enlistados \subseteq destino_invalido'
             /\ UNCHANGED <<disponible, en_io, hilo_io>>
  <2>1. /\ exec[c] = p /\ exec' = [exec EXCEPT ![c] = NULL] /\ block' = block \cup {p}
        /\ UNCHANGED <<ready, susp_block, susp_ready, rechazados, hilo_io, disponible, en_io>>
    BY <1>6 DEF Bloquear, Bloqueado, Pide
  <2>2. destino_invalido \ {p} \subseteq destino_invalido'
    BY <1>6 DEF Bloquear, NombraDestino
  <2>3. \A x \in {exec'[e] : e \in CPUS} : x = NULL \/ x \in {exec[e] : e \in CPUS}
    BY <2>1 DEF TypeOK
  <2>4. p \in {exec[e] : e \in CPUS}
    BY <2>1
  <2>5. QED
    BY <1>1, <2>1, <2>2, <2>3, <2>4 DEF Enlistados
<1>7. QED
  BY <1>2, <1>4, <1>5, <1>6 DEF Programa

\* The thread of a CPU moves its process from EXEC to BLOCK.
LEMMA EnlistadosHiloCpu ==
    ASSUME TypeOK, CadaUnoEnSuLugar, NEW c \in CPUS, HiloCpu(c)
    PROVE  /\ Enlistados' \subseteq Enlistados \cup {NULL} /\ destino_invalido' = destino_invalido
           /\ UNCHANGED <<disponible, en_io, hilo_io>>
<1> USE DEF ejecucion, listas, dispositivos, texto, memoria, escucha
<1>1. ASSUME UNCHANGED <<susp_ready, hilo_io>>
      PROVE  EnTraslado' = EnTraslado /\ EnSuspReady' = EnSuspReady
  BY <1>1 DEF EnTraslado, EnSuspReady
<1>2. CASE TomarStdout(c) \/ Armar(c) \/ LeerSalida(c)
  <2>1. UNCHANGED <<ready, exec, block, susp_block, susp_ready, rechazados, hilo_io, destino_invalido, disponible, en_io>>
    BY <1>2 DEF TomarStdout, Armar, LeerSalida
  <2>2. QED
    BY <1>1, <2>1 DEF Enlistados
<1>3. CASE BloquearStdout(c)
  <2> DEFINE p == hilo_cpu[c].pid
  <2>1. exec[c] = p
    BY <1>3 DEF BloquearStdout, CadaUnoEnSuLugar, Hilos
  <2>2. /\ exec' = [exec EXCEPT ![c] = NULL] /\ block' = block \cup {p}
        /\ UNCHANGED <<ready, susp_block, susp_ready, rechazados, hilo_io, destino_invalido, disponible, en_io>>
    BY <1>3 DEF BloquearStdout, Bloqueado
  <2> HIDE DEF p
  <2>3. \A x \in {exec'[e] : e \in CPUS} : x = NULL \/ x \in {exec[e] : e \in CPUS}
    BY <2>2 DEF TypeOK
  <2>4. p \in {exec[e] : e \in CPUS}
    BY <2>1
  <2>5. QED
    BY <1>1, <2>2, <2>3, <2>4 DEF Enlistados
<1>4. QED
  BY <1>2, <1>3 DEF HiloCpu

\* Who is lost stays lost, so a device whose semaphore was lost with him has an excuse for ever.
LEMMA PerdidosQuedan ==
    ASSUME Enlistados' \subseteq Enlistados \cup {NULL},
           destino_invalido \ Enlistados \subseteq destino_invalido'
    PROVE  Perdidos \subseteq Perdidos'
<1>1. NULL \notin PIDS
  BY SuspensionAssumption
<1>2. Perdidos' = (destino_invalido' \cap PIDS) \ Enlistados'
  BY DEF Perdidos, EnNingunLado, Enlistados
<1>3. QED
  BY <1>1, <1>2, PerdidosSon

\* A step that leaves every device with as many uses.
LEMMA UsosIguales ==
    ASSUME UnUsoPorDispositivo, \A d \in DISPOSITIVOS : Usos(d)' = Usos(d), Perdidos \subseteq Perdidos'
    PROVE  UnUsoPorDispositivo'
<1>1. \A d \in DISPOSITIVOS : Usos(d) = 1 \/ (Usos(d) = 0 /\ d = "STDIN" /\ Perdidos # {})
  BY UnUsoEs
<1>2. \A d \in DISPOSITIVOS : Usos(d)' = 1 \/ (Usos(d)' = 0 /\ d = "STDIN" /\ Perdidos' # {})
  BY <1>1
<1>3. QED
  BY <1>2 DEF UnUsoPorDispositivo, Usos, Perdidos

\* Sending a request takes the semaphore and gives the device a request.
LEMMA UsosEnviar ==
    ASSUME TypeOK, UnUsoPorDispositivo, NEW d \in DISPOSITIVOS, EnviarAlDispositivo(d)
    PROVE  UnUsoPorDispositivo'
<1>1. /\ disponible' = [disponible EXCEPT ![d] = @ - 1]
      /\ en_io' = [en_io EXCEPT ![d] = Append(@, Head(cola[d]))]
      /\ UNCHANGED <<ready, exec, block, susp_block, susp_ready, rechazados, hilo_io, destino_invalido>>
      /\ cola[d] # <<>>
  BY DEF EnviarAlDispositivo, ejecucion, listas, texto
<1>2. /\ cola[d] \in Seq(PIDS) /\ en_io[d] \in Seq(PIDS) /\ Len(en_io[d]) \in Nat
      /\ disponible[d] \in Nat
  BY DEF TypeOK
<1>3. Len(Append(en_io[d], Head(cola[d]))) = Len(en_io[d]) + 1
  BY <1>1, <1>2, HeadTailProperties, AppendProperties
<1>4. disponible'[d] = disponible[d] - 1 /\ Len(en_io'[d]) = Len(en_io[d]) + 1
  BY <1>1, <1>3 DEF TypeOK
<1>5. Usos(d)' = Usos(d)
  BY <1>1, <1>2, <1>4 DEF Usos
<1>6. \A e \in DISPOSITIVOS : e # d => Usos(e)' = Usos(e)
  BY <1>1 DEF Usos, TypeOK
<1>7. Enlistados' = Enlistados
  BY <1>1 DEF Enlistados, EnTraslado, EnSuspReady
<1>8. Perdidos \subseteq Perdidos'
  BY <1>1, <1>7, PerdidosQuedan
<1>9. QED
  BY <1>5, <1>6, <1>8, UsosIguales

\* The answer of a device leaves it one use less, until its thread takes it back.
LEMMA UsosFinaliza ==
    ASSUME TypeOK, NEW d \in DISPOSITIVOS, NEW p, Finaliza(d, p)
    PROVE  /\ Len(en_io'[d]) = Len(en_io[d]) - 1 /\ Len(en_io[d]) \in Nat \ {0}
           /\ \A e \in DISPOSITIVOS : e # d => en_io'[e] = en_io[e]
           /\ hilo_io[d] = Libre /\ disponible[d] \in Nat
<1>1. en_io[d] \in Seq(PIDS) /\ en_io[d] # <<>>
  BY DEF TypeOK, Finaliza
<1>2. Len(Tail(en_io[d])) = Len(en_io[d]) - 1 /\ Len(en_io[d]) \in Nat \ {0}
  BY <1>1, SinElPrimero
<1>3. QED
  BY <1>1, <1>2 DEF TypeOK, Finaliza

\* The thread of a device gives the semaphore back when it ends with an answer; only
\* ESCRITURA_FALLIDA loses it, together with the process that waited for the text.
LEMMA UsosHiloIO ==
    ASSUME TypeOK, CadaUnoEnSuLugar, UnUsoPorDispositivo, NEW d \in DISPOSITIVOS, HiloIO(d)
    PROVE  UnUsoPorDispositivo'
<1> USE DEF ejecucion, listas, dispositivos, texto, memoria, escucha
<1>1. \A x : AlTerminar(x) \in {Libre, PorDesocupar}
  BY TerminadoEs
<1>2. ASSUME NEW p \in PIDS, FinalizarEnBlock(d, p) PROVE UnUsoPorDispositivo'
  <2>1. /\ Finaliza(d, p) /\ disponible' = [disponible EXCEPT ![d] = @ + 1]
        /\ hilo_io' = [hilo_io EXCEPT ![d] = AlTerminar(d)]
        /\ p \in block /\ block' = block \ {p} /\ ready' = ready \cup {p}
        /\ UNCHANGED <<exec, susp_block, susp_ready, rechazados, destino_invalido>>
    BY <1>2 DEF FinalizarEnBlock
  <2>2. /\ hilo_io'[d] \in {Libre, PorDesocupar} /\ disponible'[d] = disponible[d] + 1
        /\ \A e \in DISPOSITIVOS : e # d => hilo_io'[e] = hilo_io[e] /\ disponible'[e] = disponible[e]
    BY <1>1, <2>1 DEF TypeOK
  <2>3. Usos(d)' = Usos(d)
    BY <2>1, <2>2, UsosFinaliza DEF Usos
  <2>4. \A e \in DISPOSITIVOS : e # d => Usos(e)' = Usos(e)
    BY <2>1, <2>2, UsosFinaliza DEF Usos
  <2>5. EnTraslado' = EnTraslado
    BY <2>1, <2>2, UsosFinaliza, TrasladoIgual DEF Libre, PorDesocupar
  <2>6. Enlistados' \subseteq Enlistados \cup {NULL}
    BY <2>1, <2>5 DEF Enlistados, EnSuspReady
  <2>7. Perdidos \subseteq Perdidos'
    BY <2>1, <2>6, PerdidosQuedan
  <2>8. QED
    BY <2>3, <2>4, <2>7, UsosIguales
<1>3. ASSUME NEW p \in PIDS, SacarDeSuspBlock(d, p) PROVE UnUsoPorDispositivo'
  <2>1. /\ Finaliza(d, p) /\ hilo_io' = [hilo_io EXCEPT ![d] = [paso |-> "agregar", pid |-> p]]
        /\ p \in susp_block /\ susp_block' = susp_block \ {p}
        /\ UNCHANGED <<ready, exec, block, susp_ready, rechazados, destino_invalido, disponible>>
    BY <1>3 DEF SacarDeSuspBlock
  <2>2. /\ hilo_io'[d] \notin {Libre, PorDesocupar}
        /\ \A e \in DISPOSITIVOS : e # d => hilo_io'[e] = hilo_io[e]
    BY <2>1 DEF TypeOK, Libre, PorDesocupar
  <2>3. Usos(d)' = Usos(d)
    BY <2>1, <2>2, UsosFinaliza DEF Usos
  <2>4. \A e \in DISPOSITIVOS : e # d => Usos(e)' = Usos(e)
    BY <2>1, <2>2, UsosFinaliza DEF Usos
  <2>5. \A q : q \in EnTraslado' => q \in EnTraslado \cup {p}
    <3>1. hilo_io'[d].pid = p
      BY <2>1 DEF TypeOK
    <3>2. QED
      BY <2>2, <3>1, TrasladoEs
  <2>6. Enlistados' \subseteq Enlistados \cup {NULL}
    BY <2>1, <2>5 DEF Enlistados, EnSuspReady
  <2>7. Perdidos \subseteq Perdidos'
    BY <2>1, <2>6, PerdidosQuedan
  <2>8. QED
    BY <2>3, <2>4, <2>7, UsosIguales
<1>4. ASSUME d = "STDIN", NEW p \in PIDS, EscrituraFallida(p) PROVE UnUsoPorDispositivo'
  <2>1. /\ Finaliza(d, p) /\ p \in block /\ p \in destino_invalido /\ block' = block \ {p}
        /\ UNCHANGED <<ready, exec, susp_block, susp_ready, rechazados, hilo_io, destino_invalido,
                       disponible>>
    BY <1>4 DEF EscrituraFallida
  <2>2. Usos(d)' = Usos(d) - 1 /\ Usos(d) \in Nat \ {0}
    BY <2>1, UsosFinaliza DEF Usos
  <2>3. \A e \in DISPOSITIVOS : e # d => Usos(e)' = Usos(e)
    BY <2>1, UsosFinaliza DEF Usos
  <2>4. Usos(d)' = 0
    BY <2>2, UnUsoEs
  <2>5. EnTraslado' = EnTraslado /\ EnSuspReady' = EnSuspReady
    BY <2>1 DEF EnTraslado, EnSuspReady
  <2>6. p \notin EnTraslado' \cup EnSuspReady' \cup rechazados' \cup {exec'[c] : c \in CPUS}
    BY <2>1, <2>5 DEF CadaUnoEnSuLugar, Lugares
  <2>7. p \notin ready' \cup block' \cup susp_block'
    BY <2>1 DEF CadaUnoEnSuLugar, Lugares
  <2>8. p \in Perdidos'
    BY <2>1, <2>6, <2>7 DEF Perdidos, EnNingunLado
  <2>9. \A e \in DISPOSITIVOS : Usos(e) = 1 \/ e = d
    BY <1>4, UnUsoEs
  <2>10. \A e \in DISPOSITIVOS : Usos(e)' = 1 \/ (Usos(e)' = 0 /\ e = "STDIN" /\ Perdidos' # {})
    BY <1>4, <2>3, <2>4, <2>8, <2>9
  <2>11. QED
    BY <2>10 DEF UnUsoPorDispositivo, Usos, Perdidos
<1>5. CASE AgregarASuspReady(d)
  <2> DEFINE p == hilo_io[d].pid
  <2>1. /\ hilo_io[d].paso = "agregar" /\ susp_ready' = Ordenada(susp_ready, p)
        /\ hilo_io' = [hilo_io EXCEPT ![d].paso = "pedir"]
        /\ UNCHANGED <<ready, exec, block, susp_block, rechazados, destino_invalido, disponible, en_io>>
    BY <1>5 DEF AgregarASuspReady
  <2>2. p \in PIDS /\ p \in EnTraslado /\ hilo_io[d] = [paso |-> "agregar", pid |-> p]
    BY <2>1, TrasladoEs, PasoIODe
  <2> HIDE DEF p
  <2>3. hilo_io'[d] = [paso |-> "pedir", pid |-> p] /\ \A e \in DISPOSITIVOS : e # d => hilo_io'[e] = hilo_io[e]
    BY <2>1, <2>2 DEF TypeOK
  <2>4. hilo_io'[d].paso = "pedir" /\ {hilo_io'[d], hilo_io[d]} \cap {Libre, PorDesocupar} = {}
    BY <2>2, <2>3 DEF Libre, PorDesocupar
  <2>5. EnSuspReady' = EnSuspReady \cup {p}
    BY <2>1, <2>2, OrdenadaAgrega DEF TypeOK, EnSuspReady
  <2>6. EnTraslado' \subseteq EnTraslado
    BY <2>3, <2>4, TrasladoEs
  <2>7. Enlistados' \subseteq Enlistados \cup {NULL}
    BY <2>1, <2>2, <2>5, <2>6 DEF Enlistados
  <2>8. Perdidos \subseteq Perdidos'
    BY <2>1, <2>7, PerdidosQuedan
  <2>9. \A e \in DISPOSITIVOS : Usos(e)' = Usos(e)
    BY <2>1, <2>3, <2>4 DEF Usos
  <2>10. QED
    BY <2>8, <2>9, UsosIguales
<1>6. CASE PedirLugar(d) \/ PedirMas(d)
  <2>1. /\ hilo_io[d].paso \in {"pedir", "pedir_liberado", "pedir_mas"}
        /\ disponible' = [disponible EXCEPT ![d] = @ + 1]
        /\ hilo_io' = [hilo_io EXCEPT ![d] = AlTerminar(d)]
        /\ UNCHANGED <<ready, exec, block, susp_block, susp_ready, rechazados, destino_invalido, en_io>>
    BY <1>6 DEF PedirLugar, PedirMas, TerminarHandler
  <2>2. /\ hilo_io'[d] \in {Libre, PorDesocupar} /\ disponible'[d] = disponible[d] + 1
        /\ \A e \in DISPOSITIVOS : e # d => hilo_io'[e] = hilo_io[e] /\ disponible'[e] = disponible[e]
    BY <1>1, <2>1 DEF TypeOK
  <2>3. hilo_io'[d].paso # "agregar" /\ hilo_io[d].paso # "agregar" /\ hilo_io[d] \notin {Libre, PorDesocupar}
    BY <2>1, <2>2 DEF Libre, PorDesocupar
  <2>4. disponible[d] \in Nat /\ Len(en_io[d]) \in Nat
    BY DEF TypeOK
  <2>5. Usos(d)' = Usos(d)
    BY <2>1, <2>2, <2>3, <2>4 DEF Usos
  <2>6. \A e \in DISPOSITIVOS : e # d => Usos(e)' = Usos(e)
    BY <2>1, <2>2 DEF Usos
  <2>7. EnTraslado' = EnTraslado
    BY <2>2, <2>3, TrasladoIgual
  <2>8. Enlistados' \subseteq Enlistados \cup {NULL}
    BY <2>1, <2>7 DEF Enlistados, EnSuspReady
  <2>9. Perdidos \subseteq Perdidos'
    BY <2>1, <2>8, PerdidosQuedan
  <2>10. QED
    BY <2>5, <2>6, <2>9, UsosIguales
<1>7. CASE DesuspenderSinBytes(d)
  <2> DEFINE p == hilo_io[d].pid
  <2>1. /\ hilo_io[d].paso = "pedir" /\ Reanuda(p)
        /\ hilo_io' = [hilo_io EXCEPT ![d].paso = "pedir_mas"]
        /\ susp_ready' = RemoveFirst(susp_ready, p)
        /\ UNCHANGED <<exec, block, susp_block, disponible, en_io>>
    BY <1>7 DEF DesuspenderSinBytes, Reanuda
  <2>2. p \in PIDS /\ p \in EnSuspReady /\ hilo_io[d] = [paso |-> "pedir", pid |-> p]
    BY <2>1, PasoIODe DEF CadaUnoEnSuLugar, Hilos
  <2> HIDE DEF p
  <2>3. EnSuspReady' \subseteq EnSuspReady
    BY <2>1, <2>2, SacarQuita DEF TypeOK, CadaUnoEnSuLugar, Lugares, EnSuspReady
  <2>4. hilo_io'[d] = [paso |-> "pedir_mas", pid |-> p] /\ \A e \in DISPOSITIVOS : e # d => hilo_io'[e] = hilo_io[e]
    BY <2>1, <2>2 DEF TypeOK
  <2>5. /\ hilo_io'[d].paso = "pedir_mas" /\ hilo_io[d].paso = "pedir"
        /\ {hilo_io'[d], hilo_io[d]} \cap {Libre, PorDesocupar} = {}
    BY <2>2, <2>4 DEF Libre, PorDesocupar
  <2>6. EnTraslado' = EnTraslado
    BY <2>4, <2>5, TrasladoIgual
  <2>7. Enlistados' \subseteq Enlistados /\ UNCHANGED destino_invalido
    BY <2>1, <2>2, <2>3, <2>6, DesuspenderEnlistados
  <2>8. Perdidos \subseteq Perdidos'
    BY <2>7, PerdidosQuedan
  <2>9. \A e \in DISPOSITIVOS : Usos(e)' = Usos(e)
    BY <2>1, <2>4, <2>5 DEF Usos
  <2>10. QED
    BY <2>8, <2>9, UsosIguales
<1>8. CASE UsarLiberado(d) \/ Desocupar(d)
  <2>1. /\ UNCHANGED <<ready, exec, block, susp_block, susp_ready, rechazados, destino_invalido, en_io,
                       disponible>>
        /\ \/ hilo_io' = hilo_io
           \/ hilo_io[d] = PorDesocupar /\ hilo_io' = [hilo_io EXCEPT ![d] = Libre]
    BY <1>8 DEF UsarLiberado, Desocupar
  <2>2. \A e \in DISPOSITIVOS :
            hilo_io'[e] = hilo_io[e] \/ (hilo_io[e] = PorDesocupar /\ hilo_io'[e] = Libre)
    BY <2>1 DEF TypeOK
  <2>3. EnTraslado' = EnTraslado
    BY <2>2, TrasladoIgual DEF Libre, PorDesocupar
  <2>4. Enlistados' \subseteq Enlistados \cup {NULL}
    BY <2>1, <2>3 DEF Enlistados, EnSuspReady
  <2>5. Perdidos \subseteq Perdidos'
    BY <2>1, <2>4, PerdidosQuedan
  <2>6. \A e \in DISPOSITIVOS : Usos(e)' = Usos(e)
    BY <2>1, <2>2 DEF Usos
  <2>7. QED
    BY <2>5, <2>6, UsosIguales
<1>9. QED
  BY <1>2, <1>3, <1>4, <1>5, <1>6, <1>7, <1>8 DEF HiloIO

\* A notice that resumes the process a handler has in hand leaves it its device.
LEMMA UsosEscucha ==
    ASSUME TypeOK, CadaUnoEnSuLugar, UnUsoPorDispositivo, HiloEscucha
    PROVE  UnUsoPorDispositivo'
<1>1. CASE AvisoSinEfecto \/ PedirTrasAviso
  <2>1. UNCHANGED <<ready, exec, block, susp_block, susp_ready, rechazados, hilo_io, destino_invalido,
                    en_io, disponible>>
    BY <1>1 DEF AvisoSinEfecto, PedirTrasAviso, ejecucion, listas, dispositivos, texto
  <2>2. QED
    BY <2>1 DEF UnUsoPorDispositivo, EnNingunLado, EnTraslado, EnSuspReady
<1>2. CASE AtenderAviso
  <2> DEFINE p == susp_ready[Nombrado]
  <2>1. /\ susp_ready' = RemoveAt(susp_ready, Nombrado)
        /\ hilo_io' = [d \in DISPOSITIVOS |->
                          IF hilo_io[d] = [paso |-> "pedir", pid |-> p]
                          THEN [paso |-> "pedir_liberado", pid |-> p] ELSE hilo_io[d]]
        /\ Reanuda(p)
        /\ UNCHANGED <<exec, block, susp_block, disponible, en_io>>
        /\ Nombrado # 0
    BY <1>2 DEF AtenderAviso, Reanuda, dispositivos
  <2>2. susp_ready \in Seq(PIDS) /\ IsInjective(susp_ready)
    BY DEF TypeOK, CadaUnoEnSuLugar, Lugares
  <2>3. Nombrado \in 1 .. Len(susp_ready)
    BY <2>1, <2>2, NombradoEs
  <2>4. p \in EnSuspReady /\ EnSuspReady' = EnSuspReady \ {p}
    BY <2>1, <2>2, <2>3, SinEl DEF EnSuspReady
  <2> HIDE DEF p
  <2>5. \A d \in DISPOSITIVOS :
            \/ hilo_io'[d] = hilo_io[d]
            \/ hilo_io'[d] = [paso |-> "pedir_liberado", pid |-> p] /\ hilo_io[d] = [paso |-> "pedir", pid |-> p]
    BY <2>1
  <2>6. \A d \in DISPOSITIVOS :
            \/ hilo_io'[d] = hilo_io[d]
            \/ hilo_io'[d].paso = "pedir_liberado" /\ hilo_io[d].paso = "pedir"
    BY <2>5
  <2>7. EnTraslado' = EnTraslado
    BY <2>6, TrasladoIgual
  <2>8. \A d \in DISPOSITIVOS : Usos(d)' = Usos(d)
    BY <2>1, <2>6 DEF Usos, Libre, PorDesocupar
  <2>9. Enlistados' \subseteq Enlistados /\ UNCHANGED destino_invalido
    BY <2>1, <2>4, <2>7, DesuspenderEnlistados
  <2>10. Perdidos \subseteq Perdidos'
    BY <2>9, PerdidosQuedan
  <2>11. QED
    BY <2>8, <2>10, UsosIguales
<1>3. QED
  BY <1>1, <1>2 DEF HiloEscucha

\* No step breaks UnUsoPorDispositivo.
LEMMA UsosPaso ==
    ASSUME TypeOK, CadaUnoEnSuLugar, UnUsoPorDispositivo, [Next]_vars
    PROVE  UnUsoPorDispositivo'
<1>1. ASSUME UNCHANGED <<disponible, en_io, hilo_io>>,
             destino_invalido \ Enlistados \subseteq destino_invalido',
             Enlistados' \subseteq Enlistados \cup {NULL}
      PROVE  UnUsoPorDispositivo'
  <2>1. Perdidos \subseteq Perdidos'
    BY <1>1, PerdidosQuedan
  <2>2. \A d \in DISPOSITIVOS : Usos(d)' = Usos(d)
    BY <1>1 DEF Usos
  <2>3. QED
    BY <2>1, <2>2, UsosIguales
<1>2. CASE UNCHANGED vars
  BY <1>2 DEF vars, ejecucion, listas, dispositivos, texto, UnUsoPorDispositivo, EnNingunLado,
              EnTraslado, EnSuspReady
<1>3. ASSUME NEW c \in CPUS, NEW p \in PIDS, Despachar(c, p) \/ Programa(c, p)
      PROVE  UnUsoPorDispositivo'
  BY <1>1, <1>3, EnlistadosPrograma
<1>4. ASSUME NEW c \in CPUS, HiloCpu(c) PROVE UnUsoPorDispositivo'
  BY <1>1, <1>4, EnlistadosHiloCpu
<1>5. ASSUME NEW p \in PIDS, HiloTimer(p) PROVE UnUsoPorDispositivo'
  <2>1. /\ UNCHANGED <<ready, exec, susp_ready, rechazados, disponible, en_io, hilo_io,
                       destino_invalido>>
        /\ block' \cup susp_block' \subseteq block \cup susp_block
    BY <1>5 DEF HiloTimer, TimerObsoleto, Suspender, SuspensionRechazada, Vencido, ejecucion, listas,
                dispositivos, texto
  <2>2. Enlistados' \subseteq Enlistados \cup {NULL}
    BY <2>1 DEF Enlistados, EnTraslado, EnSuspReady
  <2>3. QED
    BY <1>1, <2>1, <2>2
<1>6. ASSUME NEW d \in DISPOSITIVOS, EnviarAlDispositivo(d) \/ HiloIO(d) PROVE UnUsoPorDispositivo'
  BY <1>6, UsosEnviar, UsosHiloIO
<1>7. CASE HiloEscucha
  BY <1>7, UsosEscucha
<1>8. QED
  BY <1>2, <1>3, <1>4, <1>5, <1>6, <1>7 DEF Next

\* At first every device is free.
LEMMA UsosInicial == Init => UnUsoPorDispositivo
<1>1. SUFFICES ASSUME Init PROVE UnUsoPorDispositivo
  OBVIOUS
<1>2. \A d \in DISPOSITIVOS : Usos(d) = 1
  BY <1>1 DEF Init, Usos
<1>3. QED
  BY <1>2, UnUsoEs

\* The inductive invariant of UnUsoPorDispositivo.
SinPerderse == CadaUnoEnSuLugar /\ Pedidos /\ UnUsoPorDispositivo

\* No step breaks it.
LEMMA SinPerdersePaso == TypeOK /\ TypeOK' /\ SinPerderse /\ [Next]_vars => SinPerderse'
  BY LugarPaso, PedidosPaso, UsosPaso DEF SinPerderse

\* Every process is in one list, every request is of a blocked process and in one place, and
\* every device is accounted for, in all reachable states of the scheduler.
THEOREM SinPerderseSiempre == Spec => []SinPerderse
<1>1. Init => SinPerderse
  BY LugarInicial, PedidosInicial, UsosInicial DEF SinPerderse
<1>2. QED
  BY <1>1, SinPerdersePaso, TipoCorrecto, PTL DEF Spec

\* UnUsoPorDispositivo, for any number of processes, CPUs and devices: the semaphore of a device
\* (gestion_IO_scheduler.c) is never posted twice nor kept by nobody, except by ESCRITURA_FALLIDA
\* (scheduler.c:372), which loses it with the process that named an address it does not hold.
THEOREM DispositivoContado == Spec => []UnUsoPorDispositivo
<1>1. SinPerderse => UnUsoPorDispositivo
  BY DEF SinPerderse
<1>2. QED
  BY <1>1, SinPerderseSiempre, PTL

-----------------------------------------------------------------------------
(* The text a process asked for.                                           *)

\* A request that enters the queue of a device is one more of those it has.
LEMMA Encolado ==
    ASSUME TypeOK, NEW d \in DISPOSITIVOS, NEW p \in PIDS,
           cola' = [cola EXCEPT ![d] = Append(@, p)], en_io' = en_io
    PROVE  \A e \in DISPOSITIVOS : \A q : q \in Pendientes(e)' => q \in Pendientes(e) \/ (q = p /\ e = d)
<1>1. ToSet(cola'[d]) = ToSet(cola[d]) \cup {p}
  BY AlFinal DEF TypeOK
<1>2. \A e \in DISPOSITIVOS : e # d => cola'[e] = cola[e]
  BY DEF TypeOK
<1>3. QED
  BY <1>1, <1>2 DEF Pendientes

\* A step that adds nobody to those that wait for a text, moves nobody and leaves the requests
\* and the threads of the CPUs alone.
LEMMA TextoIgual ==
    ASSUME Texto, UNCHANGED <<cola, en_io, hilo_cpu, cadena>>, ConDestino' \subseteq ConDestino,
           ready' \cup {exec'[c] : c \in CPUS} \subseteq ready \cup {exec[c] : c \in CPUS} \cup {NULL},
           NULL \notin ConDestino, EnTraslado' \cup EnSuspReady' \subseteq EnTraslado \cup EnSuspReady
    PROVE  Texto'
<1>1. \A d : Pendientes(d)' = Pendientes(d)
  BY DEF Pendientes, ToSet
<1>2. ConDestino' \cap (ready' \cup {exec'[c] : c \in CPUS}) = {}
  BY DEF Texto
<1>3. QED
  BY <1>1, <1>2 DEF Texto

\* A step of the thread of a CPU on the way of a request, from bloquear_proceso to the queue.
LEMMA TextoPedido ==
    ASSUME TypeOK, Texto, NEW c \in CPUS,
           UNCHANGED <<ready, hilo_io, susp_ready, cadena>>, ConDestino' = ConDestino,
           \A e \in CPUS : exec'[e] \in {exec[e], NULL},
           \A e \in CPUS : e # c => hilo_cpu'[e] = hilo_cpu[e],
           hilo_cpu'[c].paso \in {"armar", "leer"} /\ hilo_cpu'[c].io # "STDIN"
                => hilo_cpu'[c].pid \notin ConDestino,
           \A d \in DISPOSITIVOS \ {"STDIN"} : \A q \in Pendientes(d)' :
                q \in Pendientes(d) \/ q \notin ConDestino
    PROVE  Texto'
<1>1. NULL \notin ConDestino
  BY SuspensionAssumption DEF TypeOK, ConDestino
<1>2. ConDestino' \cap (ready' \cup {exec'[e] : e \in CPUS}) = {}
  BY <1>1 DEF Texto
<1>3. EnTraslado' = EnTraslado /\ EnSuspReady' = EnSuspReady
  BY DEF EnTraslado, EnSuspReady
<1>4. QED
  BY <1>2, <1>3 DEF Texto

\* The process that a resumption takes from SUSP READY has its text with it, unless its address
\* is not one it holds.
LEMMA TextoDesuspender ==
    ASSUME TypeOK, CadaUnoEnSuLugar, Texto, NEW p \in EnSuspReady, Reanuda(p),
           UNCHANGED <<exec, cola, en_io, hilo_cpu>>,
           EnTraslado' = EnTraslado, EnSuspReady' = EnSuspReady \ {p}
    PROVE  Texto'
<1>1. p \in PIDS
  BY LugaresTipo
<1>2. cadena' = [cadena EXCEPT ![p] = NULL]
  BY DEF Reanuda, Desuspender, DesuspensionRechazada, EscribirAlVolver
<1>3. \/ ready' = ready \cup {p} /\ ConDestino' = ConDestino \ {p}
      \/ ready' = ready /\ ConDestino' = ConDestino
  <2>1. p \in ConDestino => cadena[p] = "entero"
    BY DEF Texto
  <2>2. CASE Desuspender(p)
    <3>1. ready' = ready \cup {p} /\ EscribirAlVolver(p)
      BY <2>2 DEF Desuspender
    <3>2. CASE p \in ConDestino
      BY <2>1, <3>1, <3>2 DEF EscribirAlVolver, ConDestino
    <3>3. CASE p \notin ConDestino
      BY <3>1, <3>3 DEF EscribirAlVolver, ConDestino
    <3>4. QED
      BY <3>1, <3>2, <3>3
  <2>3. CASE DesuspensionRechazada(p)
    BY <2>3 DEF DesuspensionRechazada, ConDestino
  <2>4. QED
    BY <2>2, <2>3 DEF Reanuda
<1>4. ConDestino' \cap (ready' \cup {exec'[c] : c \in CPUS}) = {}
  BY <1>3 DEF Texto
<1>5. \A d : Pendientes(d)' = Pendientes(d)
  BY DEF Pendientes, ToSet
<1>6. \A q \in ConDestino' \cap (EnTraslado' \cup EnSuspReady') : cadena'[q] = "entero"
  <2>1. p \notin EnTraslado
    BY DEF CadaUnoEnSuLugar, Lugares
  <2>2. ASSUME NEW q \in ConDestino' \cap (EnTraslado' \cup EnSuspReady') PROVE cadena'[q] = "entero"
    <3>1. q # p /\ q \in ConDestino \cap (EnTraslado \cup EnSuspReady) /\ q \in PIDS
      BY <1>3, <2>1, <2>2, LugaresTipo
    <3>2. QED
      BY <1>2, <3>1 DEF Texto, TypeOK
  <2>3. QED
    BY <2>2
<1>7. QED
  BY <1>3, <1>4, <1>5, <1>6 DEF Texto

\* A program that asks for a text no longer runs; one that runs waits for none.
LEMMA TextoPrograma ==
    ASSUME TypeOK, CadaUnoEnSuLugar, Pedidos, Texto, NEW c \in CPUS, NEW p \in PIDS,
           Despachar(c, p) \/ Programa(c, p)
    PROVE  Texto'
<1> USE DEF ejecucion, listas, dispositivos, texto, memoria, escucha
<1>1. NULL \notin ConDestino
  BY SuspensionAssumption DEF TypeOK, ConDestino
<1>2. ASSUME UNCHANGED <<hilo_io, susp_ready>>
      PROVE  EnTraslado' = EnTraslado /\ EnSuspReady' = EnSuspReady
  BY <1>2 DEF EnTraslado, EnSuspReady
<1>3. CASE Despachar(c, p)
  <2>1. /\ UNCHANGED <<cola, en_io, hilo_cpu, ConDestino, cadena, hilo_io, susp_ready>>
        /\ ready' \subseteq ready /\ p \in ready /\ exec' = [exec EXCEPT ![c] = p]
    BY <1>3 DEF Despachar, ConDestino
  <2>2. ready' \cup {exec'[e] : e \in CPUS} \subseteq ready \cup {exec[e] : e \in CPUS} \cup {NULL}
    BY <2>1 DEF TypeOK
  <2>3. QED
    BY <1>1, <1>2, <2>1, <2>2, TextoIgual
<1>4. CASE MEM_FREE(c, p) \/ \E tamanio \in TAMANIOS : MEM_ALLOC(c, p, tamanio)
  <2>1. UNCHANGED <<ready, exec, cola, en_io, hilo_cpu, ConDestino, cadena, hilo_io, susp_ready>>
    BY <1>4 DEF MEM_FREE, MEM_ALLOC, ConDestino
  <2>2. QED
    BY <1>1, <1>2, <2>1, TextoIgual
<1>5. CASE EXIT(c, p)
  <2>1. /\ UNCHANGED <<ready, cola, en_io, hilo_cpu, cadena, hilo_io, susp_ready>>
        /\ exec' = [exec EXCEPT ![c] = NULL] /\ ConDestino' = ConDestino \ {p}
    BY <1>5 DEF EXIT, ConDestino
  <2>2. ready' \cup {exec'[e] : e \in CPUS} \subseteq ready \cup {exec[e] : e \in CPUS} \cup {NULL}
    BY <2>1 DEF TypeOK
  <2>3. QED
    BY <1>1, <1>2, <2>1, <2>2, TextoIgual
<1>6. ASSUME NEW d \in DISPOSITIVOS, Bloquear(c, p, d) PROVE Texto'
  <2>1. /\ UNCHANGED <<ready, cola, en_io, cadena, hilo_io, susp_ready>>
        /\ exec[c] = p /\ exec' = [exec EXCEPT ![c] = NULL]
        /\ hilo_cpu' = [hilo_cpu EXCEPT ![c] = [paso |-> "armar", pid |-> p, io |-> d]]
        /\ ConDestino' \subseteq ConDestino \cup {p}
        /\ d # "STDIN" => ConDestino' = ConDestino
    BY <1>6 DEF Bloquear, Bloqueado, NombraDestino, Pide, ConDestino
  <2>2. /\ \A e \in CPUS : exec'[e] = IF e = c THEN NULL ELSE exec[e]
        /\ hilo_cpu'[c].pid = p /\ hilo_cpu'[c].io = d
        /\ \A e \in CPUS : e # c => hilo_cpu'[e] = hilo_cpu[e]
    BY <2>1 DEF TypeOK
  <2>3. \A e : Pendientes(e)' = Pendientes(e)
    BY <2>1 DEF Pendientes, ToSet
  <2>4. CASE d = "STDIN"
    <3>1. p \notin ready \cup block \cup susp_block \cup EnTraslado \cup EnSuspReady
      BY <2>1 DEF CadaUnoEnSuLugar, Lugares
    <3>2. \A e \in CPUS : e # c => exec[e] # p
      BY <2>1, SuspensionAssumption DEF CadaUnoEnSuLugar, Lugares
    <3>3. p # NULL
      BY SuspensionAssumption
    <3>4. ConDestino' \cap (ready' \cup {exec'[e] : e \in CPUS}) = {}
      BY <1>1, <2>1, <2>2, <2>4, <3>1, <3>2, <3>3 DEF Texto
    <3>5. \A e \in DISPOSITIVOS : p \notin Pendientes(e)
      BY <3>1 DEF Pedidos
    <3>6. \A e \in CPUS : hilo_cpu[e].paso \in {"armar", "leer"} => hilo_cpu[e].pid # p
      BY <3>1 DEF Pedidos
    <3>7. \A e \in DISPOSITIVOS : e # "STDIN" => Pendientes(e)' \cap ConDestino' = {}
      BY <2>1, <2>3, <2>4, <3>5 DEF Texto
    <3>8. \A e \in CPUS : hilo_cpu'[e].paso \in {"armar", "leer"} /\ hilo_cpu'[e].io # "STDIN"
                              => hilo_cpu'[e].pid \notin ConDestino'
      BY <2>1, <2>2, <2>4, <3>6 DEF Texto
    <3>9. \A q \in ConDestino' \cap (EnTraslado' \cup EnSuspReady') : cadena'[q] = "entero"
      <4>1. EnTraslado' = EnTraslado /\ EnSuspReady' = EnSuspReady /\ cadena' = cadena
        BY <1>2, <2>1
      <4>2. QED
        BY <2>1, <3>1, <4>1 DEF Texto
    <3>10. QED
      BY <3>4, <3>7, <3>8, <3>9 DEF Texto
  <2>5. CASE d # "STDIN"
    <3>1. p \notin ConDestino
      BY <2>1 DEF Texto
    <3>2. QED
      BY <2>1, <2>2, <2>3, <2>5, <3>1, TextoPedido
  <2>6. QED
    BY <2>4, <2>5
<1>7. CASE "STDOUT" \in DISPOSITIVOS /\ STDOUT(c, p)
  <2>1. /\ UNCHANGED <<ready, exec, cola, en_io, cadena, hilo_io, susp_ready, ConDestino>>
        /\ hilo_cpu' = [hilo_cpu EXCEPT ![c] = [paso |-> "espera_stdout", pid |-> p, io |-> "STDOUT"]]
    BY <1>7 DEF STDOUT, ConDestino
  <2>2. hilo_cpu'[c].paso = "espera_stdout" /\ \A e \in CPUS : e # c => hilo_cpu'[e] = hilo_cpu[e]
    BY <2>1 DEF TypeOK
  <2>3. \A e : Pendientes(e)' = Pendientes(e)
    BY <2>1 DEF Pendientes, ToSet
  <2>4. QED
    BY <2>1, <2>2, <2>3, TextoPedido
<1>8. QED
  BY <1>3, <1>4, <1>5, <1>6, <1>7 DEF Programa

\* A request of another device is of a process that waits for no text.
LEMMA TextoHiloCpu ==
    ASSUME TypeOK, CadaUnoEnSuLugar, Texto, NEW c \in CPUS, HiloCpu(c)
    PROVE  Texto'
<1> USE DEF ejecucion, listas, dispositivos, texto, memoria, escucha
<1>1. /\ UNCHANGED <<ready, hilo_io, susp_ready, ConDestino, cadena, en_io>>
      /\ hilo_cpu[c].paso # "libre"
  BY DEF HiloCpu, TomarStdout, BloquearStdout, Armar, LeerSalida, Bloqueado, ConDestino
<1>2. CASE TomarStdout(c)
  <2>1. /\ hilo_cpu[c].paso = "espera_stdout" /\ hilo_cpu' = [hilo_cpu EXCEPT ![c].paso = "bloquear"]
        /\ UNCHANGED <<cola, exec>>
    BY <1>2 DEF TomarStdout
  <2>2. hilo_cpu[c].io = "STDOUT"
    BY <2>1, PasoDe
  <2>3. hilo_cpu' = [hilo_cpu EXCEPT ![c] = [paso |-> "bloquear", pid |-> hilo_cpu[c].pid, io |-> "STDOUT"]]
    BY <2>1, <2>2, OtroPaso
  <2>4. hilo_cpu'[c].paso = "bloquear" /\ \A e \in CPUS : e # c => hilo_cpu'[e] = hilo_cpu[e]
    BY <2>3 DEF TypeOK
  <2>5. \A e : Pendientes(e)' = Pendientes(e)
    BY <1>1, <2>1 DEF Pendientes, ToSet
  <2>6. QED
    BY <1>1, <2>1, <2>4, <2>5, TextoPedido
<1>3. CASE BloquearStdout(c)
  <2>1. /\ hilo_cpu[c].paso = "bloquear" /\ exec' = [exec EXCEPT ![c] = NULL] /\ UNCHANGED cola
        /\ hilo_cpu' = [hilo_cpu EXCEPT ![c] = [paso |-> "armar", pid |-> hilo_cpu[c].pid, io |-> "STDOUT"]]
    BY <1>3 DEF BloquearStdout, Bloqueado, dispositivos
  <2>2. /\ hilo_cpu'[c].pid = hilo_cpu[c].pid /\ \A e \in CPUS : e # c => hilo_cpu'[e] = hilo_cpu[e]
        /\ \A e \in CPUS : exec'[e] \in {exec[e], NULL}
    BY <2>1 DEF TypeOK
  <2>3. hilo_cpu[c].pid \notin ConDestino
    <3>1. exec[c] = hilo_cpu[c].pid
      BY <2>1 DEF CadaUnoEnSuLugar, Hilos
    <3>2. QED
      BY <3>1 DEF Texto
  <2>4. \A e : Pendientes(e)' = Pendientes(e)
    BY <1>1, <2>1 DEF Pendientes, ToSet
  <2>5. QED
    BY <1>1, <2>2, <2>3, <2>4, TextoPedido
<1>4. CASE Armar(c)
  <2>1. exec' = exec /\ hilo_cpu[c].paso = "armar"
    BY <1>4 DEF Armar
  <2>2. CASE /\ cola' = cola /\ hilo_cpu[c].io = "STDOUT"
             /\ hilo_cpu' = [hilo_cpu EXCEPT
                               ![c] = [paso |-> "leer", pid |-> hilo_cpu[c].pid, io |-> "STDOUT"]]
    <3>1. hilo_cpu'[c].pid = hilo_cpu[c].pid /\ \A e \in CPUS : e # c => hilo_cpu'[e] = hilo_cpu[e]
      BY <2>2 DEF TypeOK
    <3>2. \A e : Pendientes(e)' = Pendientes(e)
      BY <1>1, <2>2 DEF Pendientes, ToSet
    <3>3. hilo_cpu[c].pid \notin ConDestino
      BY <2>1, <2>2 DEF Texto
    <3>4. QED
      BY <1>1, <2>1, <3>1, <3>2, <3>3, TextoPedido
  <2>3. CASE /\ cola' = [cola EXCEPT ![hilo_cpu[c].io] = Append(@, hilo_cpu[c].pid)]
             /\ hilo_cpu' = [hilo_cpu EXCEPT ![c] = Libre]
    <3>1. hilo_cpu[c].pid \in PIDS /\ hilo_cpu[c].io \in DISPOSITIVOS
      BY <1>4, ArmarEs
    <3>2. \A d \in DISPOSITIVOS : \A q : q \in Pendientes(d)' =>
              q \in Pendientes(d) \/ (q = hilo_cpu[c].pid /\ d = hilo_cpu[c].io)
      BY <1>1, <2>3, <3>1, Encolado
    <3>3. hilo_cpu[c].io # "STDIN" => hilo_cpu[c].pid \notin ConDestino
      BY <2>1 DEF Texto
    <3>4. hilo_cpu'[c].paso = "libre" /\ \A e \in CPUS : e # c => hilo_cpu'[e] = hilo_cpu[e]
      BY <2>3 DEF TypeOK, Libre
    <3>5. QED
      BY <1>1, <2>1, <3>2, <3>3, <3>4, TextoPedido
  <2>4. QED
    BY <1>4, <2>2, <2>3, ArmarEs
<1>5. CASE LeerSalida(c)
  <2>1. /\ hilo_cpu[c].paso = "leer" /\ hilo_cpu' = [hilo_cpu EXCEPT ![c] = Libre] /\ exec' = exec
        /\ cola' = cola \/ cola' = [cola EXCEPT !["STDOUT"] = Append(@, hilo_cpu[c].pid)]
    BY <1>5 DEF LeerSalida
  <2>2. hilo_cpu[c].pid \in PIDS /\ hilo_cpu[c].io = "STDOUT" /\ "STDOUT" \in DISPOSITIVOS
    BY <2>1, PasoDe
  <2>3. hilo_cpu[c].pid \notin ConDestino
    BY <2>1, <2>2 DEF Texto
  <2>4. hilo_cpu'[c].paso = "libre" /\ \A e \in CPUS : e # c => hilo_cpu'[e] = hilo_cpu[e]
    BY <2>1 DEF TypeOK, Libre
  <2>5. \A d \in DISPOSITIVOS : \A q : q \in Pendientes(d)' => q \in Pendientes(d) \/ q = hilo_cpu[c].pid
    <3>1. CASE cola' = cola
      BY <1>1, <3>1 DEF Pendientes, ToSet
    <3>2. CASE cola' = [cola EXCEPT !["STDOUT"] = Append(@, hilo_cpu[c].pid)]
      BY <1>1, <2>2, <3>2, Encolado
    <3>3. QED
      BY <2>1, <3>1, <3>2
  <2>6. QED
    BY <1>1, <2>1, <2>3, <2>4, <2>5, TextoPedido
<1>6. QED
  BY <1>2, <1>3, <1>4, <1>5 DEF HiloCpu

\* FINALIZAR_STDIN writes the text or keeps it in cadenaStdin.
LEMMA TextoHiloIO ==
    ASSUME TypeOK, CadaUnoEnSuLugar, Pedidos, Texto, "corto" \notin TEXTOS,
           NEW d \in DISPOSITIVOS, HiloIO(d)
    PROVE  Texto'
<1> USE DEF ejecucion, listas, dispositivos, texto, memoria, escucha
<1>1. \A t \in TEXTOS : t = "entero"
  BY SuspensionAssumption
<1>2. NULL \notin ConDestino
  BY SuspensionAssumption DEF TypeOK, ConDestino
<1>3. ASSUME NEW p \in PIDS, Finaliza(d, p), p \in block \cup susp_block, UNCHANGED <<cola, hilo_cpu>>,
             (block \cup susp_block) \ {p} \subseteq block' \cup susp_block'
      PROVE  /\ \A e \in DISPOSITIVOS : Pendientes(e)' \subseteq Pendientes(e)
             /\ p \notin EnTraslado \cup EnSuspReady
             /\ d # "STDIN" => p \notin ConDestino
  <2>1. /\ Pendientes(d)' = Pendientes(d) \ {p} /\ p \in Pendientes(d)
        /\ \A e \in DISPOSITIVOS : e # d => Pendientes(e)' = Pendientes(e)
    BY <1>3, PedidosTermina
  <2>2. \A e \in DISPOSITIVOS : Pendientes(e)' \subseteq Pendientes(e)
    BY <2>1
  <2>3. p \notin EnTraslado \cup EnSuspReady
    BY <1>3 DEF CadaUnoEnSuLugar, Lugares
  <2>4. QED
    BY <2>1, <2>2, <2>3 DEF Texto
<1>4. ASSUME NEW p \in PIDS, FinalizarEnBlock(d, p) PROVE Texto'
  <2>1. /\ ready' = ready \cup {p} /\ UNCHANGED <<exec, susp_ready, cadena, hilo_cpu>>
        /\ ConDestino' = IF d = "STDIN" THEN ConDestino \ {p} ELSE ConDestino
    BY <1>1, <1>4 DEF FinalizarEnBlock, ConDestino
  <2>2. /\ \A e \in DISPOSITIVOS : Pendientes(e)' \subseteq Pendientes(e)
        /\ d # "STDIN" => p \notin ConDestino
    BY <1>3, <1>4 DEF FinalizarEnBlock
  <2>3. ConDestino' \cap (ready' \cup {exec'[e] : e \in CPUS}) = {}
    BY <2>1, <2>2 DEF Texto
  <2>4. EnTraslado' = EnTraslado
    <3>1. hilo_io[d] = Libre /\ hilo_io' = [hilo_io EXCEPT ![d] = AlTerminar(d)]
      BY <1>4 DEF FinalizarEnBlock, Finaliza
    <3>2. QED
      BY <3>1, TerminadoEs, TrasladoIgual DEF TypeOK, Libre
  <2>5. EnSuspReady' = EnSuspReady
    BY <2>1 DEF EnSuspReady
  <2>6. QED
    BY <2>1, <2>2, <2>3, <2>4, <2>5 DEF Texto
<1>5. ASSUME NEW p \in PIDS, SacarDeSuspBlock(d, p) PROVE Texto'
  <2>1. /\ UNCHANGED <<ready, exec, susp_ready, ConDestino, hilo_cpu>>
        /\ IF d = "STDIN" THEN cadena' = [cadena EXCEPT ![p] = "entero"] ELSE cadena' = cadena
        /\ hilo_io' = [hilo_io EXCEPT ![d] = [paso |-> "agregar", pid |-> p]]
    BY <1>1, <1>5 DEF SacarDeSuspBlock, ConDestino
  <2>2. /\ \A e \in DISPOSITIVOS : Pendientes(e)' \subseteq Pendientes(e)
        /\ p \notin EnTraslado \cup EnSuspReady
        /\ d # "STDIN" => p \notin ConDestino
    BY <1>3, <1>5 DEF SacarDeSuspBlock
  <2>3. ConDestino' \cap (ready' \cup {exec'[e] : e \in CPUS}) = {}
    BY <2>1 DEF Texto
  <2>4. EnTraslado' \subseteq EnTraslado \cup {p}
    <3>1. ASSUME NEW q \in EnTraslado', q # p PROVE q \in EnTraslado
      <4>1. PICK e \in DISPOSITIVOS : hilo_io'[e].paso = "agregar" /\ hilo_io'[e].pid = q
        BY TrasladoEs
      <4>2. e # d
        BY <2>1, <3>1, <4>1 DEF TypeOK
      <4>3. hilo_io[e] = hilo_io'[e]
        BY <2>1, <4>2 DEF TypeOK
      <4>4. QED
        BY <4>1, <4>3, TrasladoEs
    <3>2. QED
      BY <3>1
  <2>5. EnSuspReady' = EnSuspReady
    BY <2>1 DEF EnSuspReady
  <2>6. ASSUME NEW q \in ConDestino' \cap (EnTraslado' \cup EnSuspReady') PROVE cadena'[q] = "entero"
    <3>1. q \in PIDS /\ q \in ConDestino
      BY <2>1, <2>6 DEF TypeOK, ConDestino
    <3>2. CASE q = p
      BY <2>1, <2>2, <3>1, <3>2 DEF TypeOK
    <3>3. CASE q # p
      <4>1. cadena'[q] = cadena[q]
        BY <2>1, <3>1, <3>3 DEF TypeOK
      <4>2. QED
        BY <2>4, <2>5, <2>6, <3>1, <3>3, <4>1 DEF Texto
    <3>4. QED
      BY <3>2, <3>3
  <2>7. QED
    BY <2>1, <2>2, <2>3, <2>6 DEF Texto
<1>6. ASSUME d = "STDIN", NEW p \in PIDS, EscrituraFallida(p) PROVE Texto'
  <2>1. UNCHANGED <<ready, exec, susp_ready, ConDestino, hilo_cpu, hilo_io, cadena>>
    BY <1>6 DEF EscrituraFallida, ConDestino
  <2>2. \A e \in DISPOSITIVOS : Pendientes(e)' \subseteq Pendientes(e)
    BY <1>3, <1>6 DEF EscrituraFallida
  <2>3. EnTraslado' = EnTraslado /\ EnSuspReady' = EnSuspReady
    BY <2>1 DEF EnTraslado, EnSuspReady
  <2>4. QED
    BY <2>1, <2>2, <2>3 DEF Texto
<1>7. CASE AgregarASuspReady(d)
  <2>1. /\ hilo_io[d].paso = "agregar" /\ susp_ready' = Ordenada(susp_ready, hilo_io[d].pid)
        /\ hilo_io' = [hilo_io EXCEPT ![d].paso = "pedir"]
        /\ UNCHANGED <<ready, exec, cola, en_io, hilo_cpu, ConDestino, cadena>>
    BY <1>7 DEF AgregarASuspReady, ConDestino
  <2>2. hilo_io[d].pid \in PIDS
    BY <2>1, PasoIODe
  <2>3. EnSuspReady' = EnSuspReady \cup {hilo_io[d].pid}
    BY <2>1, <2>2, OrdenadaAgrega DEF EnSuspReady, TypeOK
  <2>4. hilo_io[d].pid \in EnTraslado
    BY <2>1, TrasladoEs
  <2>5. EnTraslado' \subseteq EnTraslado
    <3>1. \A e \in DISPOSITIVOS : e # d => hilo_io'[e] = hilo_io[e]
      BY <2>1 DEF TypeOK
    <3>2. hilo_io'[d].paso = "pedir"
      BY <2>1, PasoIODe DEF TypeOK
    <3>3. \A q \in EnTraslado' : q \in EnTraslado
      BY <3>1, <3>2, TrasladoEs
    <3>4. QED
      BY <3>3
  <2>6. QED
    BY <1>2, <2>1, <2>3, <2>4, <2>5, TextoIgual
<1>8. CASE PedirLugar(d) \/ PedirMas(d) \/ UsarLiberado(d) \/ Desocupar(d)
  <2>1. /\ UNCHANGED <<ready, exec, cola, en_io, hilo_cpu, ConDestino, cadena, susp_ready>>
        /\ \/ hilo_io' = hilo_io
           \/ /\ hilo_io[d].paso # "agregar"
              /\ \E x \in {AlTerminar(d), Libre} : hilo_io' = [hilo_io EXCEPT ![d] = x]
    BY <1>8 DEF PedirLugar, PedirMas, UsarLiberado, Desocupar, TerminarHandler, PorDesocupar, ConDestino
  <2>2. \A x \in {AlTerminar(d), Libre} : x.paso # "agregar"
    BY TerminadoEs DEF Libre
  <2>3. EnTraslado' = EnTraslado
    BY <2>1, <2>2, TrasladoIgual DEF TypeOK
  <2>4. EnSuspReady' = EnSuspReady
    BY <2>1 DEF EnSuspReady
  <2>5. QED
    BY <1>2, <2>1, <2>3, <2>4, TextoIgual
<1>9. CASE DesuspenderSinBytes(d)
  <2> DEFINE p == hilo_io[d].pid
  <2>1. /\ hilo_io[d].paso = "pedir" /\ Reanuda(p)
        /\ susp_ready' = RemoveFirst(susp_ready, p)
        /\ hilo_io' = [hilo_io EXCEPT ![d].paso = "pedir_mas"]
        /\ UNCHANGED <<exec, cola, en_io, hilo_cpu>>
    BY <1>9 DEF DesuspenderSinBytes, Reanuda
  <2>2. p \in EnSuspReady /\ p \in PIDS /\ hilo_io[d] = [paso |-> "pedir", pid |-> p]
    BY <2>1, PasoIODe DEF CadaUnoEnSuLugar, Hilos
  <2> HIDE DEF p
  <2>3. EnTraslado' = EnTraslado
    <3>1. hilo_io'[d] = [paso |-> "pedir_mas", pid |-> p] /\ \A e \in DISPOSITIVOS : e # d => hilo_io'[e] = hilo_io[e]
      BY <2>1, <2>2 DEF TypeOK
    <3>2. hilo_io'[d].paso = "pedir_mas"
      BY <3>1
    <3>3. QED
      BY <2>1, <3>1, <3>2, TrasladoIgual
  <2>4. EnSuspReady' = EnSuspReady \ {p}
    BY <2>1, <2>2, SacarQuita DEF TypeOK, CadaUnoEnSuLugar, Lugares, EnSuspReady
  <2>5. QED
    BY <2>1, <2>2, <2>3, <2>4, TextoDesuspender
<1>10. QED
  BY <1>4, <1>5, <1>6, <1>7, <1>8, <1>9 DEF HiloIO

\* No step breaks Texto, if what is typed is as long as what was asked for.
LEMMA TextoPaso ==
    ASSUME TypeOK, CadaUnoEnSuLugar, Pedidos, Texto, "corto" \notin TEXTOS, [Next]_vars
    PROVE  Texto'
<1> USE DEF ejecucion, listas, dispositivos, texto, memoria, escucha
<1>1. NULL \notin ConDestino
  BY SuspensionAssumption DEF TypeOK, ConDestino
<1>2. ASSUME UNCHANGED <<ready, exec, cola, en_io, hilo_cpu, ConDestino, cadena, hilo_io, susp_ready>>
      PROVE  Texto'
  <2>1. EnTraslado' = EnTraslado /\ EnSuspReady' = EnSuspReady
    BY <1>2 DEF EnTraslado, EnSuspReady
  <2>2. QED
    BY <1>1, <1>2, <2>1, TextoIgual
<1>3. CASE UNCHANGED vars
  BY <1>2, <1>3 DEF vars, ConDestino
<1>4. ASSUME NEW c \in CPUS, NEW p \in PIDS, Despachar(c, p) \/ Programa(c, p) PROVE Texto'
  BY <1>4, TextoPrograma
<1>5. ASSUME NEW c \in CPUS, HiloCpu(c) PROVE Texto'
  BY <1>5, TextoHiloCpu
<1>6. ASSUME NEW p \in PIDS, HiloTimer(p) PROVE Texto'
  BY <1>2, <1>6 DEF HiloTimer, TimerObsoleto, Suspender, SuspensionRechazada, ConDestino
<1>7. ASSUME NEW d \in DISPOSITIVOS, EnviarAlDispositivo(d) PROVE Texto'
  <2>1. \A e \in DISPOSITIVOS : Pendientes(e)' = Pendientes(e)
    BY <1>7, PedidosEnviar
  <2>2. UNCHANGED <<ready, exec, hilo_cpu, ConDestino, cadena, hilo_io, susp_ready>>
    BY <1>7 DEF EnviarAlDispositivo, ConDestino
  <2>3. EnTraslado' = EnTraslado /\ EnSuspReady' = EnSuspReady
    BY <2>2 DEF EnTraslado, EnSuspReady
  <2>4. QED
    BY <2>1, <2>2, <2>3 DEF Texto
<1>8. ASSUME NEW d \in DISPOSITIVOS, HiloIO(d) PROVE Texto'
  BY <1>8, TextoHiloIO
<1>9. CASE AvisoSinEfecto \/ PedirTrasAviso
  BY <1>2, <1>9 DEF AvisoSinEfecto, PedirTrasAviso, ConDestino
<1>10. CASE AtenderAviso
  <2> DEFINE p == susp_ready[Nombrado]
  <2>1. /\ Reanuda(p) /\ Nombrado # 0
        /\ susp_ready' = RemoveAt(susp_ready, Nombrado)
        /\ hilo_io' = [d \in DISPOSITIVOS |->
                            IF hilo_io[d] = [paso |-> "pedir", pid |-> p]
                            THEN [paso |-> "pedir_liberado", pid |-> p] ELSE hilo_io[d]]
        /\ UNCHANGED <<exec, cola, en_io, hilo_cpu>>
    BY <1>10 DEF AtenderAviso, Reanuda
  <2>2. p \in EnSuspReady /\ EnSuspReady' = EnSuspReady \ {p}
    BY <2>1, NombradoEs, SinEl DEF TypeOK, EnSuspReady, CadaUnoEnSuLugar, Lugares
  <2> HIDE DEF p
  <2>3. EnTraslado' = EnTraslado
    BY <2>1, TrasladoIgual
  <2>4. QED
    BY <2>1, <2>2, <2>3, TextoDesuspender
<1>11. QED
  BY <1>3, <1>4, <1>5, <1>6, <1>7, <1>8, <1>9, <1>10 DEF Next, HiloEscucha

\* At first nobody waits for a text.
LEMMA TextoInicial == Init => Texto
<1>1. SUFFICES ASSUME Init PROVE Texto
  OBVIOUS
<1>2. ConDestino = {} /\ \A d \in DISPOSITIVOS : Pendientes(d) = {}
  BY <1>1 DEF Init, Pendientes, ToSet, ConDestino
<1>3. QED
  BY <1>1, <1>2 DEF Texto

\* TextoAntesDeSeguir, for any number of processes, CPUs and devices, if every line typed is as
\* long as what was asked for: a process that called STDIN (scheduler.c, case STDIN) at an address
\* it holds runs again only once its memory has the text, written at FINALIZAR_STDIN or by
\* kernel_memory when it resumes.  SuspensionTextoCorto shows what a short line does, and
\* SuspensionSinTexto what becomes of the others, whose write nobody looks at (memory.c:377).
THEOREM TextoATiempo ==
    ASSUME "corto" \notin TEXTOS
    PROVE  Spec => []TextoAntesDeSeguir
<1> DEFINE Inv == CadaUnoEnSuLugar /\ Pedidos /\ Texto
<1>1. Init => Inv
  BY LugarInicial, PedidosInicial, TextoInicial
<1>2. TypeOK /\ TypeOK' /\ Inv /\ [Next]_vars => Inv'
  BY LugarPaso, PedidosPaso, TextoPaso
<1>3. Inv => TextoAntesDeSeguir
  BY DEF Texto, TextoAntesDeSeguir, ConDestino
<1> HIDE DEF Inv
<1>4. QED
  BY <1>1, <1>2, <1>3, TipoCorrecto, PTL DEF Spec

\* Without programs that name an address they do not hold, there is no such process.
LEMMA NadieSinDestino ==
    ASSUME DIRECCIONES_INVALIDAS = 0
    PROVE  Spec => [](destino_invalido = {})
<1> DEFINE Inv == destino_invalido = {}
<1>1. Init => Inv
  BY DEF Init
<1>2. Inv /\ [Next]_vars => Inv'
  <2> SUFFICES ASSUME destino_invalido = {}, [Next]_vars PROVE destino_invalido' = {}
    OBVIOUS
  <2> USE DEF ejecucion, listas, dispositivos, texto, memoria, escucha
  <2>1. ~(Cardinality({}) < DIRECCIONES_INVALIDAS)
    BY FS_EmptySet
  <2>2. ASSUME NEW c, NEW p, Despachar(c, p) \/ Programa(c, p) PROVE destino_invalido' = {}
    <3>1. \A q : destino_invalido \ {q} = {}
      OBVIOUS
    <3>2. ~NombraDestino(p) \/ destino_invalido' = {}
      BY <2>1, <3>1 DEF NombraDestino
    <3>3. QED
      BY <2>2, <3>2 DEF Despachar, Programa, MEM_ALLOC, MEM_FREE, EXIT, Bloquear, STDOUT
  <2>3. ASSUME NEW c, HiloCpu(c) PROVE destino_invalido' = {}
    BY <2>3 DEF HiloCpu, TomarStdout, BloquearStdout, Armar, LeerSalida
  <2>4. ASSUME NEW p, HiloTimer(p) PROVE destino_invalido' = {}
    BY <2>4 DEF HiloTimer, TimerObsoleto, Suspender, SuspensionRechazada
  <2>5. ASSUME NEW p, Reanuda(p) PROVE destino_invalido' = {}
    BY <2>5 DEF Reanuda, Desuspender, DesuspensionRechazada, EscribirAlVolver
  <2>6. ASSUME NEW d, EnviarAlDispositivo(d) \/ HiloIO(d) PROVE destino_invalido' = {}
    BY <2>5, <2>6 DEF EnviarAlDispositivo, HiloIO, FinalizarEnBlock, SacarDeSuspBlock,
        EscrituraFallida, AgregarASuspReady, PedirLugar, DesuspenderSinBytes, PedirMas, UsarLiberado,
        Desocupar, Reanuda
  <2>7. CASE HiloEscucha
    BY <2>5, <2>7 DEF HiloEscucha, AvisoSinEfecto, AtenderAviso, PedirTrasAviso, Reanuda
  <2>8. CASE UNCHANGED vars
    BY <2>8 DEF vars
  <2>9. QED
    BY <2>2, <2>3, <2>4, <2>6, <2>7, <2>8 DEF Next
<1> HIDE DEF Inv
<1>3. Spec => []Inv
  BY <1>1, <1>2, PTL DEF Spec
<1>4. QED
  BY <1>3, PTL DEF Inv

\* NuncaSinTexto, where it holds: if every line typed is as long as what was asked for and every
\* program names an address it holds, nobody who called STDIN (scheduler.c, case STDIN) runs again
\* without the text.  Both hypotheses are needed (SuspensionTextoCorto, SuspensionSinTexto).
THEOREM NadieSinTexto ==
    ASSUME "corto" \notin TEXTOS, DIRECCIONES_INVALIDAS = 0
    PROVE  Spec => []NuncaSinTexto
<1>1. TextoAntesDeSeguir /\ destino_invalido = {} => NuncaSinTexto
  BY DEF TextoAntesDeSeguir, NuncaSinTexto
<1>2. QED
  BY <1>1, TextoATiempo, NadieSinDestino, PTL

-----------------------------------------------------------------------------
(* Nobody is forgotten in SUSP READY.                                      *)

\* Both strategies find a hole whenever one is large enough: the scan has a best one to keep.
LEMMA HayHueco ==
    ASSUME NEW hs \in SUBSET EnMemoria, NEW n \in Nat
    PROVE  EncontrarHueco(hs, n) # {} <=> \E h \in hs : h.limite >= n
<1>1. EncontrarHueco(hs, n) # {} => \E h \in hs : h.limite >= n
  BY DEF EncontrarHueco, Elegido, Caben
<1>2. ASSUME NEW g \in hs, g.limite >= n PROVE EncontrarHueco(hs, n) # {}
  <2> DEFINE C == Caben(hs, n)
  <2>1. C \subseteq EnMemoria /\ g \in C
    BY <1>2 DEF Caben
  <2>2. \A h \in C : h.base \in Nat /\ h.limite \in Nat /\ h.limite <= MEMORIA
    BY <2>1, SuspensionAssumption DEF EnMemoria, Hueco, Fin
  <2> HIDE DEF C
  <2>3. \E h \in C : \A f \in C : IF ALLOCATION_STRATEGY = "BEST" THEN h.limite <= f.limite
                                                                 ELSE h.limite >= f.limite
    <3>1. CASE ALLOCATION_STRATEGY = "BEST"
      <4> DEFINE T == {h.limite : h \in C}
      <4>1. T \in SUBSET Nat /\ T # {}
        BY <2>1, <2>2
      <4> HIDE DEF T
      <4>2. Min(T) \in T /\ \A j \in T : Min(T) <= j
        BY <4>1, HayPrimero
      <4>3. PICK h \in C : h.limite = Min(T)
        BY <4>2 DEF T
      <4>4. \A f \in C : f.limite \in T
        BY DEF T
      <4>5. QED
        BY <3>1, <4>2, <4>3, <4>4
    <3>2. CASE ALLOCATION_STRATEGY # "BEST"
      <4> DEFINE T == {MEMORIA - h.limite : h \in C}
      <4>0. MEMORIA \in Nat
        BY SuspensionAssumption
      <4>1. T \in SUBSET Nat /\ T # {}
        BY <2>1, <2>2, <4>0
      <4> HIDE DEF T
      <4>2. Min(T) \in T /\ \A j \in T : Min(T) <= j
        BY <4>1, HayPrimero
      <4>3. PICK h \in C : MEMORIA - h.limite = Min(T)
        BY <4>2 DEF T
      <4>4. \A f \in C : MEMORIA - f.limite \in T
        BY DEF T
      <4>5. \A f \in C : h.limite >= f.limite
        BY <2>2, <4>0, <4>2, <4>3, <4>4
      <4>6. QED
        BY <3>2, <4>5
    <3>3. QED
      BY <3>1, <3>2
  <2>4. PICK m \in C : \A f \in C : IF ALLOCATION_STRATEGY = "BEST" THEN m.limite <= f.limite
                                                                    ELSE m.limite >= f.limite
    BY <2>3
  <2> DEFINE B == {h.base : h \in {f \in C : f.limite = m.limite}}
  <2>5. B \in SUBSET Nat /\ B # {}
    BY <2>2
  <2> HIDE DEF B
  <2>6. Min(B) \in B /\ \A j \in B : Min(B) <= j
    BY <2>5, HayPrimero
  <2>7. PICK h \in C : h.limite = m.limite /\ h.base = Min(B)
    BY <2>6 DEF B
  <2>8. \A f \in C : f.limite = m.limite => h.base <= f.base
    BY <2>6, <2>7 DEF B
  <2>9. \A f \in C : Preferido(ALLOCATION_STRATEGY, h, f)
    BY <2>2, <2>4, <2>7, <2>8 DEF Preferido
  <2>10. h \in EncontrarHueco(hs, n)
    BY <2>7, <2>9 DEF EncontrarHueco, Elegido, C
  <2>11. QED
    BY <2>10
<1>3. QED
  BY <1>1, <1>2

\* Handing out bytes of a hole makes room for nobody.
LEMMA AchicarNoAbre ==
    ASSUME NEW hs \in SUBSET EnMemoria, NEW tamanio \in Nat, NEW h \in EncontrarHueco(hs, tamanio),
           NEW n \in Nat, EncontrarHueco(Achicar(hs, h, tamanio), n) # {}
    PROVE  EncontrarHueco(hs, n) # {}
<1>1. Achicar(hs, h, tamanio) \in SUBSET EnMemoria
  BY TomarTipo
<1>2. PICK g \in Achicar(hs, h, tamanio) : g.limite >= n
  BY <1>1, HayHueco
<1>3. h \in hs /\ h.limite \in Nat
  BY DEF EncontrarHueco, Elegido, Caben, EnMemoria, Hueco
<1>4. g \in hs \/ g = [base |-> h.base + tamanio, limite |-> h.limite - tamanio]
  BY <1>2 DEF Achicar
<1>5. \E f \in hs : f.limite >= n
  <2>1. CASE g \in hs
    BY <1>2, <2>1
  <2>2. CASE g = [base |-> h.base + tamanio, limite |-> h.limite - tamanio]
    <3>1. g.limite = h.limite - tamanio
      BY <2>2
    <3>2. h.limite >= n
      BY <1>2, <1>3, <3>1
    <3>3. QED
      BY <1>3, <3>2
  <2>3. QED
    BY <1>4, <2>1, <2>2
<1>6. QED
  BY <1>5, HayHueco

\* After notificar_desuspendibles every process in swap that fits has been named.
LEMMA AvisadosTodos ==
    ASSUME TypeOK, TypeOK', CadaUnoEnSuLugar', notificar_desuspendibles(avisos),
           \A p \in en_swap' : segmento'[p] = segmento[p]
    PROVE  NadieOlvidado'
<1>1. EnSuspReady' \subseteq en_swap'
  BY DEF CadaUnoEnSuLugar, MismaSuspension
<1>2. ASSUME NEW p \in EnSuspReady', Cabe(p, lista_huecos)' PROVE \E i \in DOMAIN avisos' : p \in avisos'[i]
  <2>1. p \in Desuspendibles
    BY <1>1, <1>2 DEF Desuspendibles, Cabe
  <2>2. Desuspendibles \in SUBSET PIDS
    BY DEF Desuspendibles, TypeOK
  <2>3. avisos' = Append(avisos, Desuspendibles) /\ avisos \in Seq(SUBSET PIDS)
    BY <2>1 DEF notificar_desuspendibles, TypeOK
  <2>4. Len(avisos') = Len(avisos) + 1 /\ avisos'[Len(avisos) + 1] = Desuspendibles
    BY <2>2, <2>3
  <2>5. Len(avisos) + 1 \in DOMAIN avisos'
    BY <2>2, <2>3
  <2>6. QED
    BY <2>1, <2>4, <2>5
<1>3. QED
  BY <1>2 DEF NadieOlvidado

\* A step that brings nobody to SUSP READY, makes room for nobody there and drops neither a
\* notice nor a thread that has still to ask.
LEMMA NadieOlvidadoIgual ==
    ASSUME NadieOlvidado, UNCHANGED <<rechazados, avisos, hilo_escucha>>, EnSuspReady' = EnSuspReady,
           \A p \in EnSuspReady : Cabe(p, lista_huecos)' => Cabe(p, lista_huecos),
           \A d \in DISPOSITIVOS : hilo_io[d].paso \in {"pedir", "pedir_mas"} => hilo_io'[d] = hilo_io[d]
    PROVE  NadieOlvidado'
<1>1. ASSUME NEW p, PediranPor(p) PROVE PediranPor(p)'
  BY <1>1 DEF PediranPor, SuspReadyLibre
<1>2. QED
  BY <1>1 DEF NadieOlvidado

\* No step breaks NadieOlvidado, given who is in swap.
LEMMA NadieOlvidadoPaso ==
    ASSUME TypeOK, TypeOK', CadaUnoEnSuLugar, CadaUnoEnSuLugar', NadieOlvidado, [Next]_vars
    PROVE  NadieOlvidado'
<1> USE DEF ejecucion, listas, dispositivos, texto, memoria, escucha
<1>0. avisos \in Seq(SUBSET PIDS)
  BY DEF TypeOK
<1>1. ASSUME UNCHANGED <<rechazados, avisos, hilo_escucha, susp_ready, lista_huecos, segmento>>,
             \A d \in DISPOSITIVOS :
                hilo_io[d].paso \in {"pedir", "pedir_mas"} => hilo_io'[d] = hilo_io[d]
      PROVE  NadieOlvidado'
  <2>1. EnSuspReady' = EnSuspReady
    BY <1>1 DEF EnSuspReady
  <2>2. \A p \in EnSuspReady : Cabe(p, lista_huecos)' => Cabe(p, lista_huecos)
    BY <1>1 DEF Cabe
  <2>3. QED
    BY <1>1, <2>1, <2>2, NadieOlvidadoIgual
<1>2. CASE UNCHANGED vars
  BY <1>1, <1>2 DEF vars
<1>3. ASSUME NEW c \in CPUS, NEW p \in PIDS, Despachar(c, p) \/ Programa(c, p) PROVE NadieOlvidado'
  <2>1. ASSUME NEW tamanio \in TAMANIOS, MEM_ALLOC(c, p, tamanio) PROVE NadieOlvidado'
    <3>1. /\ exec[c] = p /\ UNCHANGED <<rechazados, avisos, hilo_escucha, susp_ready, hilo_io>>
          /\ \E h \in EncontrarHueco(lista_huecos, tamanio) :
                /\ lista_huecos' = Achicar(lista_huecos, h, tamanio)
                /\ segmento' = [segmento EXCEPT ![p] = {[base |-> h.base, limite |-> tamanio]}]
      BY <2>1 DEF MEM_ALLOC, Pide
    <3>2. EnSuspReady' = EnSuspReady
      BY <3>1 DEF EnSuspReady
    <3>3. p \notin EnSuspReady
      BY <3>1 DEF CadaUnoEnSuLugar, Lugares
    <3>4. ASSUME NEW q \in EnSuspReady, Cabe(q, lista_huecos)' PROVE Cabe(q, lista_huecos)
      <4>1. q \in PIDS /\ segmento'[q] = segmento[q]
        BY <3>1, <3>3, <3>4, LugaresTipo DEF TypeOK
      <4>2. PICK h \in EncontrarHueco(lista_huecos, tamanio) :
                lista_huecos' = Achicar(lista_huecos, h, tamanio)
        BY <3>1
      <4>3. ASSUME NEW s \in segmento[q] PROVE EncontrarHueco(lista_huecos, s.limite) # {}
        <5>1. s.limite \in Nat
          BY <4>1 DEF TypeOK, EnMemoria, Hueco
        <5>2. EncontrarHueco(lista_huecos', s.limite) # {}
          BY <3>4, <4>1 DEF Cabe
        <5>3. tamanio \in Nat /\ lista_huecos \in SUBSET EnMemoria
          BY SuspensionAssumption DEF TypeOK
        <5>4. QED
          BY <4>2, <5>1, <5>2, <5>3, AchicarNoAbre
      <4>4. QED
        BY <4>3 DEF Cabe
    <3>5. QED
      BY <3>1, <3>2, <3>4, NadieOlvidadoIgual
  <2>2. CASE MEM_FREE(c, p) \/ EXIT(c, p)
    <3>1. /\ exec[c] = p /\ notificar_desuspendibles(avisos) /\ en_swap' = en_swap
          /\ segmento' = [segmento EXCEPT ![p] = {}]
      BY <2>2 DEF MEM_FREE, EXIT, Pide
    <3>2. p \notin en_swap
      BY <3>1 DEF CadaUnoEnSuLugar, Lugares, MismaSuspension
    <3>3. \A q \in en_swap' : segmento'[q] = segmento[q]
      BY <3>1, <3>2 DEF TypeOK
    <3>4. QED
      BY <3>1, <3>3, AvisadosTodos
  <2>3. CASE Despachar(c, p) \/ (\E d \in DISPOSITIVOS : Bloquear(c, p, d)) \/ STDOUT(c, p)
    <3>1. UNCHANGED <<rechazados, avisos, hilo_escucha, susp_ready, lista_huecos, segmento, hilo_io>>
      BY <2>3 DEF Despachar, Bloquear, STDOUT
    <3>2. QED
      BY <1>1, <3>1
  <2>4. QED
    BY <1>3, <2>1, <2>2, <2>3 DEF Programa
<1>4. ASSUME NEW c \in CPUS, HiloCpu(c) PROVE NadieOlvidado'
  BY <1>1, <1>4 DEF HiloCpu, TomarStdout, BloquearStdout, Armar, LeerSalida
<1>5. ASSUME NEW p \in PIDS, HiloTimer(p) PROVE NadieOlvidado'
  <2>1. CASE TimerObsoleto(p) \/ SuspensionRechazada(p)
    BY <1>1, <2>1 DEF TimerObsoleto, SuspensionRechazada
  <2>2. CASE Suspender(p)
    BY <2>2, AvisadosTodos DEF Suspender, AlSwap
  <2>3. QED
    BY <1>5, <2>1, <2>2 DEF HiloTimer
<1>6. ASSUME NEW d \in DISPOSITIVOS, EnviarAlDispositivo(d) PROVE NadieOlvidado'
  BY <1>1, <1>6 DEF EnviarAlDispositivo
<1>7. ASSUME NEW d \in DISPOSITIVOS, HiloIO(d) PROVE NadieOlvidado'
  <2>1. ASSUME NEW p \in PIDS, FinalizarEnBlock(d, p) \/ EscrituraFallida(p) PROVE NadieOlvidado'
    <3>1. /\ UNCHANGED <<rechazados, avisos, hilo_escucha, susp_ready, lista_huecos, segmento>>
          /\ \/ hilo_io' = hilo_io
             \/ hilo_io[d] = Libre /\ hilo_io' = [hilo_io EXCEPT ![d] = AlTerminar(d)]
      BY <2>1 DEF FinalizarEnBlock, EscrituraFallida, Finaliza
    <3>2. QED
      BY <1>1, <3>1 DEF Libre, TypeOK
  <2>2. ASSUME NEW p \in PIDS, SacarDeSuspBlock(d, p) PROVE NadieOlvidado'
    <3>1. /\ hilo_io[d].paso = "libre" /\ hilo_io' = [hilo_io EXCEPT ![d] = [paso |-> "agregar", pid |-> p]]
          /\ UNCHANGED <<rechazados, avisos, hilo_escucha, susp_ready, lista_huecos, segmento>>
      BY <2>2 DEF SacarDeSuspBlock, Finaliza, Libre
    <3>2. \A e \in DISPOSITIVOS : e # d => hilo_io'[e] = hilo_io[e]
      BY <3>1 DEF TypeOK
    <3>3. QED
      BY <1>1, <3>1, <3>2
  <2>3. CASE AgregarASuspReady(d)
    <3>1. /\ hilo_io[d].paso = "agregar" /\ susp_ready' = Ordenada(susp_ready, hilo_io[d].pid)
          /\ hilo_io' = [hilo_io EXCEPT ![d].paso = "pedir"]
          /\ UNCHANGED <<rechazados, avisos, lista_huecos, segmento>> /\ SuspReadyLibre
      BY <2>3 DEF AgregarASuspReady
    <3>2. hilo_io[d] = [paso |-> "agregar", pid |-> hilo_io[d].pid] /\ hilo_io[d].pid \in PIDS
      BY <3>1, PasoIODe
    <3>3. EnSuspReady' = EnSuspReady \cup {hilo_io[d].pid}
      BY <3>1, <3>2, OrdenadaAgrega DEF EnSuspReady, TypeOK
    <3>4. hilo_io'[d] = [paso |-> "pedir", pid |-> hilo_io[d].pid]
      <4>1. hilo_io'[d] = [hilo_io[d] EXCEPT !.paso = "pedir"]
        BY <3>1 DEF TypeOK
      <4>2. \A x : [[paso |-> "agregar", pid |-> x] EXCEPT !.paso = "pedir"] = [paso |-> "pedir", pid |-> x]
        OBVIOUS
      <4>3. QED
        BY <3>2, <4>1, <4>2
    <3>5. \A e \in DISPOSITIVOS : e # d => hilo_io'[e] = hilo_io[e]
      BY <3>1 DEF TypeOK
    <3>6. \A p : PediranPor(p) \/ p = hilo_io[d].pid => PediranPor(p)'
      BY <3>1, <3>4, <3>5 DEF PediranPor
    <3>7. \A p : Cabe(p, lista_huecos)' <=> Cabe(p, lista_huecos)
      BY <3>1 DEF Cabe
    <3>8. QED
      BY <3>1, <3>3, <3>6, <3>7 DEF NadieOlvidado
  <2>4. CASE PedirLugar(d) \/ PedirMas(d)
    BY <2>4, AvisadosTodos DEF PedirLugar, PedirAlEntrar, PedirMas, PedirDesuspendibles
  <2>5. CASE DesuspenderSinBytes(d)
    <3>1. hilo_io[d].paso = "pedir" /\ hilo_io' = [hilo_io EXCEPT ![d].paso = "pedir_mas"]
      BY <2>5 DEF DesuspenderSinBytes
    <3>2. hilo_io[d] = [paso |-> "pedir", pid |-> hilo_io[d].pid]
      BY <3>1, PasoIODe
    <3>3. hilo_io'[d].paso = "pedir_mas"
      BY <3>1, <3>2 DEF TypeOK
    <3>4. QED
      BY <3>3 DEF NadieOlvidado, PediranPor, SuspReadyLibre
  <2>6. CASE UsarLiberado(d) \/ Desocupar(d)
    <3>1. /\ UNCHANGED <<rechazados, avisos, hilo_escucha, susp_ready, lista_huecos, segmento>>
          /\ \/ hilo_io' = hilo_io
             \/ hilo_io[d] = PorDesocupar /\ hilo_io' = [hilo_io EXCEPT ![d] = Libre]
      BY <2>6 DEF UsarLiberado, Desocupar
    <3>2. QED
      BY <1>1, <3>1 DEF PorDesocupar, TypeOK
  <2>7. QED
    BY <1>7, <2>1, <2>2, <2>3, <2>4, <2>5, <2>6 DEF HiloIO
<1>8. CASE AvisoSinEfecto
  <2>1. /\ avisos # <<>> /\ Nombrado = 0 /\ avisos' = Tail(avisos)
        /\ UNCHANGED <<rechazados, hilo_escucha, susp_ready, hilo_io, lista_huecos, segmento>>
    BY <1>8 DEF AvisoSinEfecto
  <2>2. EnSuspReady' = EnSuspReady /\ EnSuspReady \cap Head(avisos) = {}
    BY <2>1, NombradoEs DEF EnSuspReady, TypeOK
  <2>3. ASSUME NEW p \in EnSuspReady, NEW i \in DOMAIN avisos, p \in avisos[i]
        PROVE  \E j \in DOMAIN avisos' : p \in avisos'[j]
    <3>1. i \in 1 .. Len(avisos) /\ Len(avisos') = Len(avisos) - 1 /\ avisos' \in Seq(SUBSET PIDS)
      BY <1>0, <2>1, SinElPrimero
    <3>2. i # 1
      BY <2>1, <2>2, <2>3
    <3>3. i - 1 \in 1 .. Len(avisos') /\ i - 1 \in DOMAIN avisos'
      BY <3>1, <3>2
    <3>4. avisos'[i - 1] = avisos[i]
      BY <1>0, <2>1, <3>1, <3>3
    <3>5. QED
      BY <2>3, <3>3, <3>4
  <2>4. \A p : (Cabe(p, lista_huecos)' <=> Cabe(p, lista_huecos)) /\ (PediranPor(p) => PediranPor(p)')
    BY <2>1 DEF Cabe, PediranPor, SuspReadyLibre
  <2>5. QED
    BY <2>1, <2>2, <2>3, <2>4 DEF NadieOlvidado
<1>9. CASE AtenderAviso
  <2>1. \/ hilo_escucha' = "pedir"
        \/ \E p : rechazados' = rechazados \cup {p}
    BY <1>9 DEF AtenderAviso, DesuspensionRechazada
  <2>2. hilo_escucha' = "pedir" => ~SuspReadyLibre'
    BY DEF SuspReadyLibre
  <2>3. QED
    BY <2>1, <2>2 DEF NadieOlvidado, PediranPor
<1>10. CASE PedirTrasAviso
  BY <1>10, AvisadosTodos DEF PedirTrasAviso, PedirDesuspendibles
<1>11. QED
  BY <1>2, <1>3, <1>4, <1>5, <1>6, <1>7, <1>8, <1>9, <1>10 DEF Next, HiloEscucha

\* NadieOlvidado, with any processes, sizes and holes and both strategies: as long as no
\* resumption has been refused, a process of SUSP READY that fits is named by a notice on its way,
\* or somebody has still to ask (recorrer_y_desuspender, pasar_des_susp_block_a_ready).
THEOREM NingunoOlvidado == Spec => []NadieOlvidado
<1> DEFINE Inv == CadaUnoEnSuLugar /\ NadieOlvidado
<1>1. Init => Inv
  <2>1. Init => NadieOlvidado
    BY DEF Init, NadieOlvidado, EnSuspReady, ToSet
  <2>2. QED
    BY <2>1, LugarInicial
<1>2. TypeOK /\ TypeOK' /\ Inv /\ [Next]_vars => Inv'
  <2>1. SUFFICES ASSUME TypeOK, TypeOK', CadaUnoEnSuLugar, NadieOlvidado, [Next]_vars
                 PROVE  CadaUnoEnSuLugar' /\ NadieOlvidado'
    OBVIOUS
  <2>2. CadaUnoEnSuLugar'
    BY <2>1, LugarPaso
  <2>3. QED
    BY <2>1, <2>2, NadieOlvidadoPaso
<1>3. Inv => NadieOlvidado
  OBVIOUS
<1> HIDE DEF Inv
<1>4. QED
  BY <1>1, <1>2, <1>3, TipoCorrecto, PTL DEF Spec
=============================================================================
