--------------------------- MODULE MemoriaProofs ---------------------------
(***************************************************************************)
(* The proofs about Segmentacion and about Datos, which adds the bytes.    *)
(*                                                                         *)
(* Segmentacion: first the map alone, what the operations on the list of   *)
(* holes and the loop of compactar do to a set of segments and holes that  *)
(* tile the memory; then the types; then InvMemoria, which is inductive    *)
(* and gives the properties the runs check, with one lemma per operation;  *)
(* InvCuenta, which adds the counter of free bytes: each step's Mudanza    *)
(* keeps it; and what survives a failure of swap half-way: InvFirme        *)
(* whatever fails, LugarBien if no suspension does.                        *)
(*                                                                         *)
(* Datos: the loop of the MMU over the sticks, the exact translation; the  *)
(* accesses and the copies under way (InvDatos); what each step does to    *)
(* the content of a segment, block or sticks; and with that, step by step, *)
(* that Datos implements MemoriaLogica.                                    *)
(***************************************************************************)
EXTENDS Datos, DireccionesProofs

-----------------------------------------------------------------------------
(* Holes and segments.                                                     *)

\* Handing out the first bytes of a hole keeps the map.
LEMMA MapaTomar ==
    ASSUME NEW segs \in SUBSET (PIDS \X Segmento), NEW hs \in SUBSET Hueco, NEW total \in Nat,
           Mapa(segs, hs, total),
           NEW tamanio \in Nat \ {0}, NEW h \in Caben(hs, tamanio),
           NEW y \in PIDS \X Segmento, y[2].base = h.base, y[2].limite = tamanio
    PROVE  Mapa(segs \cup {y}, Achicar(hs, h, tamanio), total)
<1> DEFINE hs2 == Achicar(hs, h, tamanio)
           segs2 == segs \cup {y}
<1>1. /\ h \in hs /\ h.base \in Nat /\ h.limite \in Nat /\ h.limite >= tamanio /\ Fin(h) <= total
      /\ \A x \in segs2 : x[2].base \in Nat /\ x[2].limite \in Nat
  BY DEF Caben, Hueco, Segmento, Mapa, Fusionados
<1>2. /\ Fusionados(hs, total)
      /\ \A x \in segs : x[2].limite > 0 /\ Fin(x[2]) <= total
      /\ \A x, z \in segs : x # z => Disjuntos(x[2], z[2])
      /\ \A g \in hs, x \in segs : Disjuntos(g, x[2])
      /\ \A dir \in 0 .. total - 1 : \E x \in hs \cup {z[2] : z \in segs} : Contiene(x, dir)
  BY DEF Mapa, Cubren
<1>3. hs2 \in SUBSET Hueco /\ Fusionados(hs2, total)
  BY <1>2, AchicarTipo, AchicarFusionados
<1>4. \A dir \in Int : (\E g \in hs2 : Contiene(g, dir)) <=>
          /\ \E g \in hs : Contiene(g, dir)
          /\ ~(h.base <= dir /\ dir < h.base + tamanio)
  <2>1. tamanio \in Nat /\ Fusionados(hs, total)
    BY <1>2
  <2>2. QED
    BY <2>1, AchicarBytes, Zenon
<1> HIDE DEF hs2
<1>5. \A dir \in Int : Contiene(y[2], dir) <=> h.base <= dir /\ dir < h.base + tamanio
  BY <1>1 DEF Contiene, Fin
<1>6. \A x \in segs2 : x[2].limite > 0 /\ Fin(x[2]) <= total
  BY <1>1, <1>2 DEF Fin
<1>7. \A x \in segs : Disjuntos(y[2], x[2]) /\ Disjuntos(x[2], y[2])
  BY <1>1, <1>2 DEF Fin, Disjuntos
<1>8. \A x, z \in segs2 : x # z => Disjuntos(x[2], z[2])
  BY <1>2, <1>7
<1>9. ASSUME NEW g \in hs2, NEW x \in segs2 PROVE Disjuntos(g, x[2])
  <2>1. g.base \in Nat /\ g.limite \in Nat /\ g.limite > 0
    BY <1>3 DEF Hueco, Fusionados
  <2>2. ASSUME NEW dir \in Nat, Contiene(g, dir), Contiene(x[2], dir) PROVE FALSE
    <3>1. ~Contiene(y[2], dir) /\ \E k \in hs : Contiene(k, dir)
      BY <1>4, <1>5, <2>2
    <3>2. PICK k \in hs : Contiene(k, dir)
      BY <3>1
    <3>3. x \in segs /\ k.base \in Nat /\ k.limite \in Nat
      BY <2>2, <3>1 DEF Hueco
    <3>4. QED
      BY <1>1, <1>2, <2>2, <3>2, <3>3 DEF Disjuntos, Contiene, Fin
  <2>3. QED
    BY <1>1, <1>6, <2>1, <2>2, ApartePorBytes
<1>10. Cubren(hs2 \cup {x[2] : x \in segs2}, total)
  <2>1. SUFFICES ASSUME NEW dir \in 0 .. total - 1
                 PROVE  \E x \in hs2 \cup {z[2] : z \in segs2} : Contiene(x, dir)
    BY DEF Cubren
  <2>2. PICK x \in hs \cup {z[2] : z \in segs} : Contiene(x, dir)
    BY <1>2
  <2>3. CASE x \in hs
    <3>1. Contiene(y[2], dir) \/ \E g \in hs2 : Contiene(g, dir)
      BY <1>4, <1>5, <2>2, <2>3
    <3>2. QED
      BY <3>1
  <2>4. CASE x \in {z[2] : z \in segs}
    BY <2>2, <2>4
  <2>5. QED
    BY <2>2, <2>3, <2>4
<1>11. QED
  BY <1>3, <1>6, <1>8, <1>9, <1>10 DEF Mapa, hs2

\* Putting a range that touches nobody back into the list keeps the map: the new hole is
\* fused with the holes that end and begin where it does, and with no other.
LEMMA MapaInsertar ==
    ASSUME NEW segs \in SUBSET (PIDS \X Segmento), NEW hs \in SUBSET Hueco, NEW total \in Nat,
           NEW n \in Hueco, n.limite > 0, Fin(n) <= total,
           Fusionados(hs, total),
           \A x \in segs : x[2].limite > 0 /\ Fin(x[2]) <= total,
           \A x, y \in segs : x # y => Disjuntos(x[2], y[2]),
           \A h \in hs, x \in segs : Disjuntos(h, x[2]),
           \A h \in hs : Disjuntos(h, n),
           \A x \in segs : Disjuntos(n, x[2]),
           Cubren(hs \cup {n} \cup {x[2] : x \in segs}, total)
    PROVE  Mapa(segs, InsertarYFusionar(hs, n), total)
<1> DEFINE hs2 == InsertarYFusionar(hs, n)
<1>1. /\ hs2 \in SUBSET Hueco /\ Fusionados(hs2, total)
      /\ \A dir \in Int : (\E g \in hs2 : Contiene(g, dir)) <=>
             Contiene(n, dir) \/ \E g \in hs : Contiene(g, dir)
  BY InsertarTipo, InsertarHueco
<1> HIDE DEF hs2
<1>2. ASSUME NEW h \in hs2, NEW x \in segs PROVE Disjuntos(h, x[2])
  <2>1. /\ h.base \in Nat /\ h.limite \in Nat /\ h.limite > 0
        /\ x[2].base \in Nat /\ x[2].limite \in Nat /\ x[2].limite > 0
    BY <1>1 DEF Hueco, Segmento, Fusionados
  <2>2. ASSUME NEW dir \in Nat, Contiene(h, dir), Contiene(x[2], dir) PROVE FALSE
    <3>1. Contiene(n, dir) \/ \E g \in hs : Contiene(g, dir)
      BY <1>1, <2>2
    <3>2. PICK g \in hs \cup {n} : Contiene(g, dir)
      BY <3>1
    <3>3. g.base \in Nat /\ g.limite \in Nat /\ Disjuntos(g, x[2])
      BY DEF Hueco
    <3>4. QED
      BY <2>1, <2>2, <3>2, <3>3 DEF Disjuntos, Contiene, Fin
  <2>3. QED
    BY <2>1, <2>2, ApartePorBytes
<1>3. Cubren(hs2 \cup {x[2] : x \in segs}, total)
  <2>1. SUFFICES ASSUME NEW dir \in 0 .. total - 1
                 PROVE  \E x \in hs2 \cup {z[2] : z \in segs} : Contiene(x, dir)
    BY DEF Cubren
  <2>2. PICK x \in hs \cup {n} \cup {z[2] : z \in segs} : Contiene(x, dir)
    BY DEF Cubren
  <2>3. CASE x \in hs \cup {n}
    <3>1. \E g \in hs2 : Contiene(g, dir)
      BY <1>1, <2>2, <2>3
    <3>2. QED
      BY <3>1
  <2>4. CASE x \in {z[2] : z \in segs}
    BY <2>2, <2>4
  <2>5. QED
    BY <2>2, <2>3, <2>4
<1>4. QED
  BY <1>1, <1>2, <1>3 DEF Mapa, hs2

-----------------------------------------------------------------------------
(* Compaction.                                                             *)

\* Before the first segment nothing is packed.
LEMMA EmpaquetadoInicio ==
    ASSUME NEW segs, NEW hs, NEW total, Mapa(segs, hs, total),
           segs \in SUBSET (PIDS \X Segmento)
    PROVE  Empaquetado(segs, segs, 0, total)
<1>1. \A x \in segs : x[2].base \in Nat
  BY DEF Segmento
<1>2. Cubren({x[2] : x \in segs \ segs}, 0)
  BY DEF Cubren
<1>3. QED
  BY <1>1, <1>2 DEF Mapa, Empaquetado

\* The leftmost segment goes to the cursor: it lands on nobody's bytes, and the packed part
\* grows by exactly its size.
LEMMA EmpaquetadoMover ==
    ASSUME NEW segs \in SUBSET (PIDS \X Segmento), NEW faltan, NEW hasta \in Nat,
           NEW total \in Nat, Empaquetado(segs, faltan, hasta, total),
           NEW x \in faltan, \A y \in faltan : x[2].base <= y[2].base,
           NEW z \in PIDS \X Segmento, z[2].base = hasta, z[2].limite = x[2].limite
    PROVE  Empaquetado((segs \ {x}) \cup {z}, faltan \ {x}, hasta + x[2].limite, total)
<1> DEFINE segs2 == (segs \ {x}) \cup {z}
           faltan2 == faltan \ {x}
           hasta2 == hasta + x[2].limite
<1> USE DEF Fin, Disjuntos
<1>1. /\ x \in segs /\ x[2].base \in Nat /\ x[2].limite \in Nat
      /\ \A y \in segs : y[2].base \in Nat /\ y[2].limite \in Nat
      /\ z[2].base \in Nat /\ z[2].limite \in Nat
  BY DEF Empaquetado, Segmento
<1>2. /\ \A y \in segs : y[2].limite > 0 /\ y[2].base + y[2].limite <= total
      /\ \A y, w \in segs : y # w => Disjuntos(y[2], w[2])
      /\ faltan \subseteq segs
      /\ \A y \in faltan : hasta <= y[2].base
      /\ \A y \in segs \ faltan : y[2].base + y[2].limite <= hasta
      /\ \A dir \in 0 .. hasta - 1 : \E w \in {y[2] : y \in segs \ faltan} : Contiene(w, dir)
  BY DEF Empaquetado, Cubren
<1>3. \A y \in faltan2 : hasta2 <= y[2].base
  <2>1. SUFFICES ASSUME NEW y \in faltan2 PROVE hasta2 <= y[2].base
    OBVIOUS
  <2>2. y \in segs /\ y # x /\ x[2].base <= y[2].base /\ hasta <= x[2].base
    BY <1>2
  <2>3. Disjuntos(x[2], y[2])
    BY <1>1, <1>2, <2>2
  <2>4. QED
    BY <1>1, <1>2, <2>2, <2>3
<1>4. z \notin faltan2
  BY <1>1, <1>2, <1>3
<1>5. \A y \in segs2 : y[2].limite > 0 /\ y[2].base + y[2].limite <= total
  BY <1>1, <1>2
<1>6. \A y \in segs \ {x} : Disjuntos(z[2], y[2])
  <2>1. SUFFICES ASSUME NEW y \in segs \ {x} PROVE Disjuntos(z[2], y[2])
    OBVIOUS
  <2>2. CASE y \in faltan
    BY <1>1, <1>3, <2>2
  <2>3. CASE y \notin faltan
    BY <1>1, <1>2, <2>3
  <2>4. QED
    BY <2>2, <2>3
<1>7. \A y, w \in segs2 : y # w => Disjuntos(y[2], w[2])
  BY <1>2, <1>6
<1>8. faltan2 \subseteq segs2
  BY <1>2
<1>9. \A y \in segs2 \ faltan2 : y[2].base + y[2].limite <= hasta2
  BY <1>1, <1>2
<1>10. Cubren({y[2] : y \in segs2 \ faltan2}, hasta2)
  <2>1. SUFFICES ASSUME NEW dir \in 0 .. hasta2 - 1
                 PROVE  \E w \in {y[2] : y \in segs2 \ faltan2} : Contiene(w, dir)
    BY DEF Cubren
  <2>2. CASE dir < hasta
    <3>1. PICK y \in segs \ faltan : Contiene(y[2], dir)
      BY <1>1, <1>2, <2>2
    <3>2. y \in segs2 \ faltan2
      BY <3>1
    <3>3. QED
      BY <3>1, <3>2
  <2>3. CASE dir >= hasta
    <3>1. Contiene(z[2], dir)
      BY <1>1, <2>3 DEF Contiene
    <3>2. QED
      BY <1>4, <3>1
  <2>4. QED
    BY <2>2, <2>3
<1>11. QED
  BY <1>3, <1>5, <1>7, <1>8, <1>9, <1>10 DEF Empaquetado

\* With everything packed, one hole at the end is all that is free.
LEMMA EmpaquetadoFin ==
    ASSUME NEW segs \in SUBSET (PIDS \X Segmento), NEW hasta \in Nat, NEW total \in Nat,
           Empaquetado(segs, {}, hasta, total)
    PROVE  Mapa(segs,
                IF hasta < total THEN {[base |-> hasta, limite |-> total - hasta]} ELSE {},
                total)
<1> DEFINE r == [base |-> hasta, limite |-> total - hasta]
           hs == IF hasta < total THEN {r} ELSE {}
<1> USE DEF Fin, Disjuntos
<1>1. \A x \in segs : x[2].base \in Nat /\ x[2].limite \in Nat
  BY DEF Segmento
<1>2. /\ \A x \in segs : x[2].limite > 0 /\ x[2].base + x[2].limite <= total
      /\ \A x, y \in segs : x # y => Disjuntos(x[2], y[2])
      /\ \A x \in segs : x[2].base + x[2].limite <= hasta
      /\ \A dir \in 0 .. hasta - 1 : \E w \in {x[2] : x \in segs} : Contiene(w, dir)
  BY DEF Empaquetado, Cubren
<1>3. \A h \in hs : h = r /\ hasta < total
  OBVIOUS
<1>4. Fusionados(hs, total)
  BY <1>3 DEF Fusionados
<1>5. \A h \in hs, x \in segs : Disjuntos(h, x[2])
  BY <1>1, <1>2, <1>3
<1>6. Cubren(hs \cup {x[2] : x \in segs}, total)
  <2>1. SUFFICES ASSUME NEW dir \in 0 .. total - 1
                 PROVE  \E w \in hs \cup {x[2] : x \in segs} : Contiene(w, dir)
    BY DEF Cubren
  <2>2. CASE dir < hasta
    BY <1>2, <2>2
  <2>3. CASE dir >= hasta
    <3>1. r \in hs /\ Contiene(r, dir)
      BY <2>3 DEF Contiene
    <3>2. QED
      BY <3>1
  <2>4. QED
    BY <2>2, <2>3
<1>7. QED
  BY <1>2, <1>4, <1>5, <1>6 DEF Mapa

-----------------------------------------------------------------------------
(* Types.                                                                  *)

LEMMA LiberarTipo ==
    ASSUME TypeOK, NEW s \in Segmento, LiberarSegmento(s)
    PROVE  lista_huecos' \in SUBSET Hueco /\ memoria_libre_size' \in Int
<1>1. [base |-> s.base, limite |-> s.limite] \in Hueco
  BY DEF Segmento, Hueco
<1>2. QED
  BY <1>1, InsertarTipo DEF TypeOK, LiberarSegmento, Segmento

LEMMA TomarTipo ==
    ASSUME TypeOK, NEW tamanio \in Nat, NEW h \in EncontrarHueco(lista_huecos, tamanio),
           TomarHueco(h, tamanio)
    PROVE  /\ lista_huecos' \in SUBSET Hueco
           /\ memoria_libre_size' \in Int
           /\ h \in Hueco
           /\ h \in Caben(lista_huecos, tamanio)
<1>1. h \in Caben(lista_huecos, tamanio)
  BY DEF EncontrarHueco, Elegido
<1>2. QED
  BY <1>1, AchicarTipo DEF TypeOK, TomarHueco, Caben

\* What the record of the thread says in each state.
LEMMA HiloTipo ==
    ASSUME TypeOK
    PROVE  /\ hilo.op \in {"suspender", "desuspender", "finalizar", "liberar", "desocupar"} =>
                hilo.pid \in PIDS
           /\ hilo.op \in {"liberar", "desocupar"} => hilo.id \in IDS
           /\ \A p \in PIDS : /\ [op |-> "suspender", pid |-> p] \in Hilo
                              /\ [op |-> "desuspender", pid |-> p] \in Hilo
                              /\ [op |-> "finalizar", pid |-> p] \in Hilo
           /\ \A p \in PIDS, id \in IDS :
                /\ [op |-> "liberar", pid |-> p, id |-> id] \in Hilo
                /\ [op |-> "desocupar", pid |-> p, id |-> id] \in Hilo
           /\ [op |-> "desalojar"] \in Hilo
           /\ [op |-> "compactar"] \in Hilo
           /\ Ocioso \in Hilo
  BY DEF TypeOK, Hilo, Ocioso

LEMMA TipoInicial == Init => TypeOK
  BY LimitesAssumption DEF Init, TypeOK, Hilo

LEMMA TipoPaso == TypeOK /\ [Next]_vars => TypeOK'
<1> SUFFICES ASSUME TypeOK, [Next]_vars PROVE TypeOK'
  OBVIOUS
<1> USE DEF TypeOK
<1>0. \A p \in PIDS : tabla_segmentos[p] \subseteq Segmento
  OBVIOUS
<1>h. hilo.op \in {"suspender", "desuspender", "finalizar", "liberar", "desocupar"} =>
          hilo.pid \in PIDS
  BY HiloTipo
<1>1. ASSUME NEW p \in PIDS, InicializarProceso(p) PROVE TypeOK'
  BY <1>1 DEF InicializarProceso, contables, bucle
<1>2. ASSUME NEW p \in PIDS, IniciarFin(p) PROVE TypeOK'
  BY <1>2, HiloTipo DEF IniciarFin, contables, bucle
<1>3. ASSUME NEW p \in PIDS, FinEnSwap(p) PROVE TypeOK'
  BY <1>3 DEF FinEnSwap, contables, bucle
<1>4. ASSUME NEW p \in PIDS, IniciarSuspension(p) PROVE TypeOK'
  BY <1>4, HiloTipo DEF IniciarSuspension, procesos, contables, bucle
<1>5. ASSUME NEW p \in PIDS, IniciarDesuspension(p) PROVE TypeOK'
  BY <1>5, HiloTipo DEF IniciarDesuspension, procesos, contables, bucle
<1>6. ASSUME NEW p \in PIDS, NEW id \in IDS, EliminarSegmento(p, id) PROVE TypeOK'
  <2>1. PICK s \in tabla_segmentos[p] :
            /\ LiberarSegmento(s)
            /\ tabla_segmentos' = [tabla_segmentos EXCEPT ![p] = @ \ {s}]
    BY <1>6 DEF EliminarSegmento
  <2>2. lista_huecos' \in SUBSET Hueco /\ memoria_libre_size' \in Int
    BY <1>0, <2>1, LiberarTipo
  <2>3. tabla_segmentos' \in [PIDS -> SUBSET Segmento]
    BY <1>0, <2>1
  <2>4. QED
    BY <1>6, <2>2, <2>3 DEF EliminarSegmento, procesos, bucle
<1>7. ASSUME NEW p \in PIDS, NEW id \in IDS, NEW tamanio \in TAMANIOS,
             CrearSegmento(p, id, tamanio)
      PROVE TypeOK'
  <2>1. tamanio \in Nat
    BY TamaniosAssumption
  <2>2. PICK h \in EncontrarHueco(lista_huecos, tamanio) :
            /\ tabla_segmentos' = [tabla_segmentos EXCEPT ![p] =
                  @ \cup {[id |-> id, base |-> h.base, limite |-> tamanio]}]
            /\ TomarHueco(h, tamanio)
    BY <1>7 DEF CrearSegmento
  <2>3. lista_huecos' \in SUBSET Hueco /\ memoria_libre_size' \in Int /\ h \in Hueco
    BY <2>1, <2>2, TomarTipo
  <2>4. [id |-> id, base |-> h.base, limite |-> tamanio] \in Segmento
    BY <2>1, <2>3 DEF Segmento, Hueco
  <2>5. tabla_segmentos' \in [PIDS -> SUBSET Segmento]
    BY <2>2, <2>4
  <2>6. QED
    BY <1>7, <2>3, <2>5 DEF CrearSegmento, procesos, bucle
<1>25. ASSUME NEW p \in PIDS, NEW id \in IDS, NEW tamanio \in TAMANIOS,
              PedirCompactacion(p, id, tamanio)
       PROVE TypeOK'
  BY <1>25, HiloTipo DEF PedirCompactacion, procesos, contables, bucle
<1>8. ASSUME IniciarCompactacion PROVE TypeOK'
  <2>1. todos' \in SUBSET (PIDS \X Segmento)
    BY <1>0, <1>8 DEF IniciarCompactacion, ACompactar, Segmentos
  <2>2. QED
    BY <1>8, <2>1, HiloTipo DEF IniciarCompactacion, procesos, contables
<1>9. ASSUME LiberarDeMuerto PROVE TypeOK'
  <2>1. PICK s \in tabla_segmentos[hilo.pid] :
            /\ LiberarSegmento(s)
            /\ tabla_segmentos' = [tabla_segmentos EXCEPT ![hilo.pid] = @ \ {s}]
    BY <1>9 DEF LiberarDeMuerto
  <2>2. hilo.pid \in PIDS
    BY <1>9, <1>h DEF LiberarDeMuerto
  <2>3. lista_huecos' \in SUBSET Hueco /\ memoria_libre_size' \in Int
    BY <1>0, <2>1, <2>2, LiberarTipo
  <2>4. tabla_segmentos' \in [PIDS -> SUBSET Segmento]
    BY <1>0, <2>1, <2>2
  <2>5. QED
    BY <1>9, <2>3, <2>4 DEF LiberarDeMuerto, procesos, bucle
<1>10. ASSUME TerminarFin PROVE TypeOK'
  BY <1>10, HiloTipo DEF TerminarFin, procesos, contables, bucle
<1>11. ASSUME OcuparBloque PROVE TypeOK'
  <2>1. PICK s \in tabla_segmentos[hilo.pid], b \in BloqueLibre :
            /\ tabla_swap' = tabla_swap \cup
                  {[bloque |-> b, pid |-> hilo.pid, segmento_id |-> s.id, tamanio |-> s.limite]}
            /\ hilo' = [op |-> "liberar", pid |-> hilo.pid, id |-> s.id]
    BY <1>11 DEF OcuparBloque
  <2>2. hilo.pid \in PIDS
    BY <1>11, <1>h DEF OcuparBloque
  <2>3. s.id \in IDS /\ s.limite \in Nat /\ b \in Bloques
    BY <1>0, <2>1, <2>2 DEF Segmento, BloqueLibre
  <2>4. tabla_swap' \in SUBSET BloqueSwap
    BY <2>1, <2>2, <2>3 DEF BloqueSwap
  <2>5. hilo' \in Hilo
    BY <2>1, <2>2, <2>3, HiloTipo
  <2>6. QED
    BY <1>11, <2>4, <2>5 DEF OcuparBloque, procesos, contables, bucle
<1>12. ASSUME LiberarFisica PROVE TypeOK'
  <2>1. PICK s \in tabla_segmentos[hilo.pid] : LiberarSegmento(s)
    BY <1>12 DEF LiberarFisica
  <2>2. hilo.pid \in PIDS
    BY <1>12, <1>h DEF LiberarFisica
  <2>3. lista_huecos' \in SUBSET Hueco /\ memoria_libre_size' \in Int
    BY <1>0, <2>1, <2>2, LiberarTipo
  <2>4. hilo' \in Hilo
    BY <1>12, <2>2, HiloTipo DEF LiberarFisica
  <2>5. QED
    BY <1>12, <2>3, <2>4 DEF LiberarFisica, procesos, bucle
<1>13. ASSUME TerminarSuspension PROVE TypeOK'
  BY <1>13, HiloTipo DEF TerminarSuspension, contables, bucle
<1>14. ASSUME FallarSuspension PROVE TypeOK'
  BY <1>13, <1>h, HiloTipo, <1>14 DEF FallarSuspension, contables, bucle
<1>15. ASSUME AsignarFisica PROVE TypeOK'
  <2>0. PICK t \in ProximoBloque(hilo.pid) :
            \E s \in tabla_segmentos[hilo.pid], h \in EncontrarHueco(lista_huecos, t.tamanio) :
                /\ tabla_segmentos' = [tabla_segmentos EXCEPT ![hilo.pid] =
                      (@ \ {s}) \cup {Reubicado(s, h.base)}]
                /\ TomarHueco(h, t.tamanio)
                /\ hilo' = [op |-> "desocupar", pid |-> hilo.pid, id |-> s.id]
    BY <1>15 DEF AsignarFisica
  <2>1. PICK s \in tabla_segmentos[hilo.pid], h \in EncontrarHueco(lista_huecos, t.tamanio) :
            /\ tabla_segmentos' = [tabla_segmentos EXCEPT ![hilo.pid] =
                  (@ \ {s}) \cup {Reubicado(s, h.base)}]
            /\ TomarHueco(h, t.tamanio)
            /\ hilo' = [op |-> "desocupar", pid |-> hilo.pid, id |-> s.id]
    BY <2>0
  <2>2. hilo.pid \in PIDS
    BY <1>15, <1>h DEF AsignarFisica
  <2>3. t.tamanio \in Nat
    BY DEF ProximoBloque, BloqueSwap
  <2>4. lista_huecos' \in SUBSET Hueco /\ memoria_libre_size' \in Int /\ h \in Hueco
    BY <2>1, <2>3, TomarTipo
  <2>5. s \in Segmento /\ Reubicado(s, h.base) \in Segmento
    BY <1>0, <2>1, <2>2, <2>4 DEF Segmento, Hueco, Reubicado
  <2>6. tabla_segmentos' \in [PIDS -> SUBSET Segmento]
    BY <1>0, <2>1, <2>2, <2>5
  <2>7. hilo' \in Hilo
    BY <2>1, <2>2, <2>5, HiloTipo DEF Segmento
  <2>8. QED
    BY <1>15, <2>4, <2>6, <2>7 DEF AsignarFisica, procesos, bucle
<1>16. ASSUME DesocuparBloque PROVE TypeOK'
  BY <1>16, <1>h, HiloTipo DEF DesocuparBloque, procesos, contables, bucle
<1>17. ASSUME TerminarDesuspension PROVE TypeOK'
  BY <1>17, HiloTipo DEF TerminarDesuspension, contables, bucle
<1>18. ASSUME FallarDesuspension PROVE TypeOK'
  BY <1>h, HiloTipo, <1>18 DEF FallarDesuspension, contables, bucle
<1>19. ASSUME MoverSegmento PROVE TypeOK'
  <2>1. PICK x \in MasALaIzquierda :
            /\ todos' = todos \ {x}
            /\ \/ /\ tabla_segmentos' = [tabla_segmentos EXCEPT ![x[1]] =
                        (@ \ {x[2]}) \cup {Reubicado(x[2], cursor)}]
                  /\ cursor' = cursor + x[2].limite
               \/ UNCHANGED <<tabla_segmentos, cursor>>
    BY <1>19 DEF MoverSegmento
  <2>2. x[1] \in PIDS /\ x[2] \in Segmento
    BY <2>1 DEF MasALaIzquierda
  <2>3. Reubicado(x[2], cursor) \in Segmento /\ cursor' \in Nat
    BY <2>1, <2>2 DEF Segmento, Reubicado
  <2>4. tabla_segmentos' \in [PIDS -> SUBSET Segmento]
    BY <1>0, <2>1, <2>2, <2>3
  <2>5. QED
    BY <1>19, <2>1, <2>3, <2>4 DEF MoverSegmento, procesos, contables
<1>21. ASSUME TerminarCompactacion PROVE TypeOK'
  <2>1. cursor < memoria_total_size =>
            [base |-> cursor, limite |-> memoria_total_size - cursor] \in Hueco
    BY DEF Hueco
  <2>2. lista_huecos' \in SUBSET Hueco
    BY <1>21, <2>1 DEF TerminarCompactacion, HuecosFinales
  <2>3. QED
    BY <1>21, <2>2, HiloTipo DEF TerminarCompactacion, procesos
<1>22. ASSUME NEW tamanio \in STICKS, AgregarStick(tamanio) PROVE TypeOK'
  <2>1. tamanio \in Nat /\ [base |-> memoria_total_size, limite |-> tamanio] \in Hueco
    BY TamaniosAssumption DEF Hueco
  <2>2. lista_huecos' \in SUBSET Hueco
    BY <1>22, <2>1, InsertarTipo DEF AgregarStick
  <2>3. QED
    BY <1>22, <2>1, <2>2 DEF AgregarStick, procesos, bucle
<1>23. CASE UNCHANGED vars
  BY <1>23 DEF vars, procesos, contables, bucle
<1>24. QED
  BY <1>1, <1>2, <1>3, <1>4, <1>5, <1>6, <1>7, <1>8, <1>9, <1>10, <1>11, <1>12, <1>13, <1>14,
     <1>15, <1>16, <1>17, <1>18, <1>19, <1>21, <1>22, <1>23, <1>25 DEF Next, Continuar

\* Every variable of kernel_memory keeps its type, whatever the sizes and the number of
\* processes, segments, sticks and swap blocks.
THEOREM TipoCorrecto == Spec => []TypeOK
  BY TipoInicial, TipoPaso, PTL DEF Spec

-----------------------------------------------------------------------------
(* Which segments are in memory, and what changes that.                    *)

LEMMA ResidentesDef ==
    ASSUME TypeOK
    PROVE  /\ Residentes \in SUBSET (PIDS \X Segmento)
           /\ \A p \in PIDS, s \in Segmento :
                <<p, s>> \in Residentes <=> s \in tabla_segmentos[p] /\ EnMemoria(p, s.id)
<1>1. \A p \in PIDS : tabla_segmentos[p] \subseteq Segmento
  BY DEF TypeOK
<1>2. QED
  BY <1>1 DEF Residentes, Segmentos

LEMMA ResidentesDefPrima ==
    ASSUME TypeOK'
    PROVE  /\ Residentes' \in SUBSET (PIDS \X Segmento)
           /\ \A p \in PIDS, s \in Segmento :
                <<p, s>> \in Residentes' <=> s \in tabla_segmentos'[p] /\ EnMemoria(p, s.id)'
<1>1. \A p \in PIDS : tabla_segmentos'[p] \subseteq Segmento
  BY DEF TypeOK
<1>2. QED
  BY <1>1 DEF Residentes, Segmentos

\* Outside the two half-done states the blocks alone decide.
LEMMA ResidentesIgual ==
    ASSUME TypeOK, TypeOK', UNCHANGED <<tabla_segmentos, tabla_swap>>,
           \/ UNCHANGED hilo
           \/ /\ hilo.op \notin {"liberar", "desocupar"}
              /\ hilo'.op \notin {"liberar", "desocupar"}
    PROVE  Residentes' = Residentes
<1>1. \A p, id : EnMemoria(p, id)' <=> EnMemoria(p, id)
  BY DEF EnMemoria, EnBloque
<1>2. QED
  BY <1>1 DEF Residentes, Segmentos

\* A table that gains or loses one segment does so among the residents.
LEMMA ResidentesCambio ==
    ASSUME TypeOK, TypeOK', UNCHANGED <<tabla_swap, hilo>>,
           NEW p \in PIDS, NEW sale \in SUBSET tabla_segmentos[p], NEW entra \in SUBSET Segmento,
           \A s \in sale \cup entra : EnMemoria(p, s.id),
           tabla_segmentos' =
               [tabla_segmentos EXCEPT ![p] = (tabla_segmentos[p] \ sale) \cup entra]
    PROVE  Residentes' = (Residentes \ ({p} \X sale)) \cup ({p} \X entra)
<1> DEFINE nuevo == (Residentes \ ({p} \X sale)) \cup ({p} \X entra)
<1>1. \A q, id : EnMemoria(q, id)' <=> EnMemoria(q, id)
  BY DEF EnMemoria, EnBloque
<1>2. nuevo \in SUBSET (PIDS \X Segmento)
  BY ResidentesDef
<1>3. ASSUME NEW q \in PIDS, NEW s \in Segmento
      PROVE  <<q, s>> \in Residentes' <=> <<q, s>> \in nuevo
  <2>1. <<q, s>> \in Residentes' <=> s \in tabla_segmentos'[q] /\ EnMemoria(q, s.id)
    BY <1>1, ResidentesDefPrima
  <2>2. <<q, s>> \in Residentes <=> s \in tabla_segmentos[q] /\ EnMemoria(q, s.id)
    BY ResidentesDef
  <2>3. CASE q = p
    <3>1. tabla_segmentos'[p] = (tabla_segmentos[p] \ sale) \cup entra
      BY DEF TypeOK
    <3>2. QED
      BY <2>1, <2>2, <2>3, <3>1
  <2>4. CASE q # p
    <3>1. tabla_segmentos'[q] = tabla_segmentos[q]
      BY <2>4 DEF TypeOK
    <3>2. QED
      BY <2>1, <2>2, <2>4, <3>1
  <2>5. QED
    BY <2>3, <2>4
<1>4. QED
  BY <1>2, <1>3, ResidentesDefPrima

\* A process that is not in swap, with the thread idle or moving somebody else, has no block.
LEMMA SinBloques ==
    ASSUME TypeOK, RegistroBien, SwapConsistente, NadiePerdido, NEW p \in PIDS, ~en_swap[p],
           ~(hilo.op \in {"suspender", "liberar"} /\ hilo.pid = p)
    PROVE  \A t \in tabla_swap : t.pid # p
  BY DEF SwapConsistente

LEMMA SinBloquesEnMemoria ==
    ASSUME NEW p, \A t \in tabla_swap : t.pid # p
    PROVE  \A id : EnMemoria(p, id)
  BY DEF EnMemoria, EnBloque

-----------------------------------------------------------------------------
(* The map alone.                                                          *)

MapaActual ==
    IF hilo.op = "compactar"
    THEN Empaquetado(Residentes, todos, cursor, memoria_total_size)
    ELSE Mapa(Residentes, lista_huecos, memoria_total_size)

LEMMA Abrir ==
    ASSUME MemoriaBien
    PROVE  /\ TablasBien /\ RegistroBien /\ SwapConsistente /\ MapaActual
           /\ Fusionados(lista_huecos, memoria_total_size)
  BY DEF MemoriaBien, MapaActual

LEMMA Cerrar ==
    ASSUME TablasBien', RegistroBien', SwapConsistente', MapaActual',
           Fusionados(lista_huecos, memoria_total_size)'
    PROVE  MemoriaBien'
  BY DEF MemoriaBien, MapaActual

\* What a step does to the segments in memory, and to the two counters: nothing, or a stick
\* came; one leaves; one comes; one goes to another place.
Mudanza ==
    \/ /\ Residentes' = Residentes
       /\ \E n \in Nat : /\ memoria_libre_size' = memoria_libre_size + n
                        /\ memoria_total_size' = memoria_total_size + n
    \/ /\ UNCHANGED memoria_total_size
       /\ \/ \E x \in Residentes :
                /\ Residentes' = Residentes \ {x}
                /\ memoria_libre_size' = memoria_libre_size + x[2].limite
          \/ \E y \in (PIDS \X Segmento) \ Residentes :
                /\ Residentes' = Residentes \cup {y}
                /\ memoria_libre_size' = memoria_libre_size - y[2].limite
          \/ \E x \in Residentes, y \in PIDS \X Segmento :
                /\ y \notin Residentes \ {x}
                /\ y[2].limite = x[2].limite
                /\ Residentes' = (Residentes \ {x}) \cup {y}
                /\ UNCHANGED memoria_libre_size

LEMMA SinMudanza ==
    ASSUME TypeOK, Residentes' = Residentes, UNCHANGED <<memoria_libre_size, memoria_total_size>>
    PROVE  Mudanza
<1>1. memoria_libre_size + 0 = memoria_libre_size /\ memoria_total_size + 0 = memoria_total_size
  BY DEF TypeOK
<1>2. QED
  BY <1>1 DEF Mudanza

\* A step that leaves the segments and the blocks alone, and enters or leaves no half-done
\* state, keeps the map.
LEMMA MapaQuieto ==
    ASSUME TypeOK, TypeOK', MapaActual,
           UNCHANGED <<tabla_segmentos, tabla_swap, lista_huecos, memoria_total_size,
                       memoria_libre_size>>,
           hilo.op \notin {"liberar", "desocupar", "compactar"},
           hilo'.op \notin {"liberar", "desocupar", "compactar"}
    PROVE  MapaActual' /\ Mudanza
<1>1. Residentes' = Residentes
  BY ResidentesIgual
<1>2. QED
  BY <1>1, SinMudanza DEF MapaActual

-----------------------------------------------------------------------------
(* Steps that only write down where the thread is.                         *)

LEMMA PasoInicializar ==
    ASSUME TypeOK, TypeOK', NadiePerdido, MemoriaBien, NEW p \in PIDS, InicializarProceso(p)
    PROVE  MemoriaBien' /\ Mudanza
<1> USE DEF InicializarProceso, procesos, contables, bucle, Ocioso
<1>0. /\ TablasBien /\ RegistroBien /\ SwapConsistente /\ MapaActual
      /\ Fusionados(lista_huecos, memoria_total_size)
  BY Abrir
<1>1. TablasBien'
  BY <1>0 DEF TablasBien, TypeOK
<1>4. tabla_segmentos' = tabla_segmentos
  BY <1>0 DEF RegistroBien, TypeOK
<1>5. en_swap' = en_swap
  BY <1>0 DEF RegistroBien, TypeOK
<1>6. RegistroBien'
  BY <1>0, <1>4, <1>5 DEF RegistroBien, Ids, EnBloque
<1>7. SwapConsistente'
  <2>1. \A t \in tabla_swap : t.pid # p
    BY <1>0 DEF SwapConsistente
  <2>2. ~en_swap[p]
    BY <1>0 DEF RegistroBien
  <2>3. QED
    BY <1>0, <1>4, <1>5, <2>1, <2>2 DEF SwapConsistente, Ids, EnBloque
<1>8. MapaActual' /\ Mudanza
  BY <1>0, <1>4, MapaQuieto
<1>9. QED
  BY <1>0, <1>1, <1>6, <1>7, <1>8, Cerrar

LEMMA PasoIniciarFin ==
    ASSUME TypeOK, TypeOK', NadiePerdido, MemoriaBien, NEW p \in PIDS, IniciarFin(p)
    PROVE  MemoriaBien' /\ Mudanza
<1> USE DEF IniciarFin, Atendible, contables, bucle, Ocioso
<1>0. /\ TablasBien /\ RegistroBien /\ SwapConsistente /\ MapaActual
      /\ Fusionados(lista_huecos, memoria_total_size)
  BY Abrir
<1>1. TablasBien'
  BY <1>0 DEF TablasBien
<1>4. hilo'.op = "finalizar" /\ hilo'.pid = p
  OBVIOUS
<1>5. RegistroBien'
  BY <1>0, <1>4 DEF RegistroBien, Ids, EnBloque
<1>6. SwapConsistente'
  <2>1. \A t \in tabla_swap : t.pid # p
    BY <1>0, SinBloques
  <2>2. QED
    BY <1>0, <1>4, <2>1 DEF SwapConsistente, Ids, EnBloque
<1>7. MapaActual' /\ Mudanza
  BY <1>0, <1>4, MapaQuieto
<1>8. QED
  BY <1>0, <1>1, <1>5, <1>6, <1>7, Cerrar

LEMMA PasoTerminarFin ==
    ASSUME TypeOK, TypeOK', NadiePerdido, MemoriaBien, TerminarFin
    PROVE  MemoriaBien' /\ Mudanza
<1> USE DEF TerminarFin, procesos, contables, bucle, Ocioso
<1>0. /\ TablasBien /\ RegistroBien /\ SwapConsistente /\ MapaActual
      /\ Fusionados(lista_huecos, memoria_total_size)
  BY Abrir
<1>1. TablasBien'
  BY <1>0 DEF TablasBien
<1>4. RegistroBien'
  BY <1>0 DEF RegistroBien, Ids, EnBloque
<1>5. SwapConsistente'
  BY <1>0 DEF SwapConsistente, Ids, EnBloque
<1>6. MapaActual' /\ Mudanza
  BY <1>0, MapaQuieto
<1>7. QED
  BY <1>0, <1>1, <1>4, <1>5, <1>6, Cerrar

LEMMA PasoIniciarSuspension ==
    ASSUME TypeOK, TypeOK', NadiePerdido, MemoriaBien, NEW p \in PIDS, IniciarSuspension(p)
    PROVE  MemoriaBien' /\ Mudanza
<1> USE DEF IniciarSuspension, Atendible, procesos, contables, bucle, Ocioso
<1>0. /\ TablasBien /\ RegistroBien /\ SwapConsistente /\ MapaActual
      /\ Fusionados(lista_huecos, memoria_total_size)
  BY Abrir
<1>1. TablasBien'
  BY <1>0 DEF TablasBien
<1>4. hilo'.op = "suspender" /\ hilo'.pid = p
  OBVIOUS
<1>5. RegistroBien'
  BY <1>0, <1>4 DEF RegistroBien, Ids, EnBloque
<1>6. SwapConsistente'
  BY <1>0, <1>4 DEF SwapConsistente, Ids, EnBloque
<1>7. MapaActual' /\ Mudanza
  BY <1>0, <1>4, MapaQuieto
<1>8. QED
  BY <1>0, <1>1, <1>5, <1>6, <1>7, Cerrar

LEMMA PasoTerminarSuspension ==
    ASSUME TypeOK, TypeOK', NadiePerdido, MemoriaBien, TerminarSuspension
    PROVE  MemoriaBien' /\ Mudanza
<1> USE DEF TerminarSuspension, contables, bucle, Ocioso
<1>0. /\ TablasBien /\ RegistroBien /\ SwapConsistente /\ MapaActual
      /\ Fusionados(lista_huecos, memoria_total_size)
  BY Abrir
<1>1. TablasBien'
  BY <1>0 DEF TablasBien
<1>4. hilo.pid \in PIDS /\ hilo.pid \in lista_procesos
  BY <1>0, HiloTipo DEF RegistroBien
<1>5. en_swap'[hilo.pid] /\ \A q \in PIDS : q # hilo.pid => en_swap'[q] = en_swap[q]
  BY <1>4 DEF TypeOK
<1>6. RegistroBien'
  BY <1>0, <1>4, <1>5 DEF RegistroBien, Ids, EnBloque
<1>7. SwapConsistente'
  <2>1. \A t \in tabla_swap : t.pid \in PIDS
    BY DEF TypeOK, BloqueSwap
  <2>2. \A q \in lista_procesos : q \in PIDS
    BY DEF TypeOK
  <2>3. \A id \in Ids(hilo.pid) : EnBloque(hilo.pid, id)
    BY DEF Ids
  <2>4. \A t \in tabla_swap : t.pid \in lista_procesos' /\ en_swap'[t.pid]
    BY <1>0, <1>4, <1>5, <2>1 DEF SwapConsistente
  <2>5. \A q \in lista_procesos :
            en_swap'[q] => \A id \in Ids(q) : EnBloque(q, id)
    BY <1>0, <1>5, <2>2, <2>3 DEF SwapConsistente
  <2>6. QED
    BY <1>0, <2>4, <2>5 DEF SwapConsistente, Ids, EnBloque
<1>8. MapaActual' /\ Mudanza
  BY <1>0, MapaQuieto
<1>9. QED
  BY <1>0, <1>1, <1>6, <1>7, <1>8, Cerrar

LEMMA PasoIniciarDesuspension ==
    ASSUME TypeOK, TypeOK', NadiePerdido, MemoriaBien, NEW p \in PIDS, IniciarDesuspension(p)
    PROVE  MemoriaBien' /\ Mudanza
<1> USE DEF IniciarDesuspension, Atendible, procesos, contables, bucle, Ocioso
<1>0. /\ TablasBien /\ RegistroBien /\ SwapConsistente /\ MapaActual
      /\ Fusionados(lista_huecos, memoria_total_size)
  BY Abrir
<1>1. TablasBien'
  BY <1>0 DEF TablasBien
<1>4. hilo'.op = "desuspender" /\ hilo'.pid = p
  OBVIOUS
<1>5. RegistroBien'
  BY <1>0, <1>4 DEF RegistroBien, Ids, EnBloque
<1>6. SwapConsistente'
  BY <1>0, <1>4 DEF SwapConsistente, Ids, EnBloque
<1>7. MapaActual' /\ Mudanza
  BY <1>0, <1>4, MapaQuieto
<1>8. QED
  BY <1>0, <1>1, <1>5, <1>6, <1>7, Cerrar

LEMMA PasoTerminarDesuspension ==
    ASSUME TypeOK, TypeOK', NadiePerdido, MemoriaBien, TerminarDesuspension
    PROVE  MemoriaBien' /\ Mudanza
<1> USE DEF TerminarDesuspension, contables, bucle, Ocioso
<1>0. /\ TablasBien /\ RegistroBien /\ SwapConsistente /\ MapaActual
      /\ Fusionados(lista_huecos, memoria_total_size)
  BY Abrir
<1>1. TablasBien'
  BY <1>0 DEF TablasBien
<1>4. hilo.pid \in PIDS
  BY HiloTipo
<1>5. ~en_swap'[hilo.pid] /\ \A q \in PIDS : q # hilo.pid => en_swap'[q] = en_swap[q]
  BY <1>4 DEF TypeOK
<1>6. RegistroBien'
  BY <1>0, <1>4, <1>5 DEF RegistroBien, Ids, EnBloque
<1>7. SwapConsistente'
  <2>1. \A t \in tabla_swap : t.pid \in PIDS
    BY DEF TypeOK, BloqueSwap
  <2>2. \A q \in lista_procesos : q \in PIDS
    BY DEF TypeOK
  <2>4. \A t \in tabla_swap : t.pid \in lista_procesos' /\ en_swap'[t.pid]
    BY <1>0, <1>5, <2>1 DEF SwapConsistente
  <2>5. \A q \in lista_procesos :
            en_swap'[q] => \A id \in Ids(q) : EnBloque(q, id)
    BY <1>0, <1>5, <2>2 DEF SwapConsistente
  <2>6. QED
    BY <1>0, <2>4, <2>5 DEF SwapConsistente, Ids, EnBloque
<1>8. MapaActual' /\ Mudanza
  BY <1>0, MapaQuieto
<1>9. QED
  BY <1>0, <1>1, <1>6, <1>7, <1>8, Cerrar

LEMMA PasoPedirCompactacion ==
    ASSUME TypeOK, TypeOK', NadiePerdido, MemoriaBien,
           NEW p \in PIDS, NEW id \in IDS, NEW tamanio \in TAMANIOS,
           PedirCompactacion(p, id, tamanio)
    PROVE  MemoriaBien' /\ Mudanza
<1> USE DEF PedirCompactacion, Solicitable, Atendible, procesos, contables, bucle, Ocioso
<1>0. /\ TablasBien /\ RegistroBien /\ SwapConsistente /\ MapaActual
      /\ Fusionados(lista_huecos, memoria_total_size)
  BY Abrir
<1>1. TablasBien'
  BY <1>0 DEF TablasBien
<1>4. hilo'.op = "desalojar"
  OBVIOUS
<1>5. RegistroBien'
  BY <1>0, <1>4 DEF RegistroBien, Ids, EnBloque
<1>6. SwapConsistente'
  BY <1>0, <1>4 DEF SwapConsistente, Ids, EnBloque
<1>7. MapaActual' /\ Mudanza
  BY <1>0, <1>4, MapaQuieto
<1>8. QED
  BY <1>0, <1>1, <1>5, <1>6, <1>7, Cerrar

-----------------------------------------------------------------------------
(* Compaction.                                                             *)

LEMMA PasoIniciarCompactacion ==
    ASSUME TypeOK, TypeOK', NadiePerdido, MemoriaBien, IniciarCompactacion
    PROVE  MemoriaBien' /\ Mudanza
<1> USE DEF IniciarCompactacion, ACompactar, procesos, contables
<1>0. /\ TablasBien /\ RegistroBien /\ SwapConsistente /\ MapaActual
      /\ Fusionados(lista_huecos, memoria_total_size)
  BY Abrir
<1>1. TablasBien'
  BY <1>0 DEF TablasBien
<1>4. hilo'.op = "compactar"
  OBVIOUS
<1>5. RegistroBien'
  BY <1>0, <1>4 DEF RegistroBien, Ids, EnBloque
<1>6. SwapConsistente'
  BY <1>0, <1>4 DEF SwapConsistente, Ids, EnBloque
<1>7. Residentes' = Residentes
  BY <1>4, ResidentesIgual
<1>8. todos' = Residentes
  <2>1. ASSUME NEW x \in Segmentos
        PROVE  x[1] \in lista_procesos /\ ~en_swap[x[1]] <=> EnMemoria(x[1], x[2].id)
    <3>1. x[1] \in PIDS /\ x[2] \in tabla_segmentos[x[1]]
      BY DEF Segmentos
    <3>2. x[1] \in lista_procesos
      BY <1>0, <3>1 DEF RegistroBien
    <3>3. EnMemoria(x[1], x[2].id) <=> ~EnBloque(x[1], x[2].id)
      BY DEF EnMemoria
    <3>4. en_swap[x[1]] => EnBloque(x[1], x[2].id)
      BY <1>0, <3>1, <3>2 DEF SwapConsistente, Ids
    <3>5. ~en_swap[x[1]] => ~EnBloque(x[1], x[2].id)
      BY <1>0, <3>1 DEF SwapConsistente, EnBloque
    <3>6. QED
      BY <3>2, <3>3, <3>4, <3>5
  <2>2. QED
    BY <2>1 DEF Residentes
<1>9. MapaActual'
  <2>1. Mapa(Residentes, lista_huecos, memoria_total_size)
    BY <1>0 DEF MapaActual
  <2>2. Empaquetado(Residentes, Residentes, 0, memoria_total_size)
    BY <2>1, ResidentesDef, EmpaquetadoInicio
  <2>3. QED
    BY <1>4, <1>7, <1>8, <2>2 DEF MapaActual
<1>10. QED
  BY <1>0, <1>1, <1>5, <1>6, <1>7, <1>9, Cerrar, SinMudanza

\* A table that changes keeps the tables well formed if it is so itself.
LEMMA TablasCambio ==
    ASSUME TypeOK, TablasBien, NEW p \in PIDS, NEW tabla,
           \A s, t \in tabla : s.limite > 0 /\ (s.id = t.id => s = t),
           tabla_segmentos' = [tabla_segmentos EXCEPT ![p] = tabla]
    PROVE  TablasBien'
<1>1. tabla_segmentos'[p] = tabla
  BY DEF TypeOK
<1>2. \A q \in PIDS : q # p => tabla_segmentos'[q] = tabla_segmentos[q]
  BY DEF TypeOK
<1>3. QED
  BY <1>1, <1>2 DEF TablasBien

\* The table of a process without blocks may change freely.
LEMMA SwapAjeno ==
    ASSUME TypeOK, SwapConsistente, NadiePerdido, NEW p \in PIDS, ~en_swap[p],
           \A t \in tabla_swap : t.pid # p,
           \A q \in PIDS : q # p => tabla_segmentos'[q] = tabla_segmentos[q],
           UNCHANGED <<tabla_swap, lista_procesos, en_swap, hilo>>
    PROVE  SwapConsistente'
<1>1. \A t \in tabla_swap : t.pid \in PIDS /\ tabla_segmentos'[t.pid] = tabla_segmentos[t.pid]
  BY DEF TypeOK, BloqueSwap
<1>2. \A q \in lista_procesos : en_swap[q] => tabla_segmentos'[q] = tabla_segmentos[q]
  BY DEF TypeOK
<1>3. /\ \A t \in tabla_swap' :
            /\ t.pid \in lista_procesos'
            /\ en_swap'[t.pid] \/ (hilo'.op \in {"suspender", "liberar"} /\ hilo'.pid = t.pid)
            /\ \E s \in tabla_segmentos'[t.pid] : s.id = t.segmento_id /\ s.limite = t.tamanio
  BY <1>1 DEF SwapConsistente
<1>4. \A q \in lista_procesos' :
            en_swap'[q] /\ ~(hilo'.op \in {"desuspender", "desocupar"} /\ hilo'.pid = q) =>
                \A id \in Ids(q)' : EnBloque(q, id)'
  BY <1>2 DEF SwapConsistente, Ids, EnBloque
<1>5. QED
  BY <1>3, <1>4 DEF SwapConsistente

\* A resident segment of a process nobody is suspending or bringing back has no block.
LEMMA ResidenteSinBloques ==
    ASSUME TypeOK, RegistroBien, SwapConsistente, NadiePerdido,
           hilo.op \notin {"suspender", "liberar", "desuspender", "desocupar"},
           NEW p \in PIDS, NEW s \in tabla_segmentos[p], EnMemoria(p, s.id)
    PROVE  ~en_swap[p] /\ \A t \in tabla_swap : t.pid # p
<1>1. ~EnBloque(p, s.id)
  BY DEF EnMemoria
<1>2. ~en_swap[p]
  BY <1>1 DEF SwapConsistente, RegistroBien, Ids
<1>3. QED
  BY <1>2, SinBloques

\* Compaction never meets a segment it cannot move: what is left lies to the right of the
\* cursor, inside the sticks.
LEMMA SiempreMovible ==
    ASSUME TypeOK, MemoriaBien, hilo.op = "compactar", NEW x \in MasALaIzquierda
    PROVE  Movible(x[2])
<1>1. Empaquetado(Residentes, todos, cursor, memoria_total_size)
  BY Abrir DEF MapaActual
<1>2. x \in todos /\ x \in Residentes /\ x[2].base \in Nat /\ x[2].limite \in Nat
  BY <1>1 DEF MasALaIzquierda, TypeOK, Segmento, Empaquetado
<1>3. cursor <= x[2].base /\ x[2].limite > 0 /\ x[2].base + x[2].limite <= memoria_total_size
  BY <1>1, <1>2 DEF Empaquetado, Fin
<1>4. QED
  BY <1>2, <1>3 DEF Movible, EnSticks, TypeOK

LEMMA PasoMover ==
    ASSUME TypeOK, TypeOK', NadiePerdido, MemoriaBien, MoverSegmento
    PROVE  MemoriaBien' /\ Mudanza
<1>0. /\ TablasBien /\ RegistroBien /\ SwapConsistente /\ MapaActual
      /\ Fusionados(lista_huecos, memoria_total_size)
  BY Abrir
<1>1. PICK x \in MasALaIzquierda :
            /\ todos' = todos \ {x}
            /\ tabla_segmentos' = [tabla_segmentos EXCEPT ![x[1]] =
                   (@ \ {x[2]}) \cup {Reubicado(x[2], cursor)}]
            /\ cursor' = cursor + x[2].limite
  BY SiempreMovible DEF MoverSegmento
<1>u. /\ hilo.op = "compactar"
      /\ UNCHANGED <<lista_procesos, en_swap, perdidos, lista_huecos, memoria_libre_size,
                     memoria_total_size, tabla_swap, hilo>>
  BY DEF MoverSegmento, procesos, contables
<1> DEFINE p == x[1]
           s == x[2]
           r == Reubicado(x[2], cursor)
<1>2. /\ x \in todos /\ \A y \in todos : s.base <= y[2].base
      /\ p \in PIDS /\ s \in Segmento /\ x = <<p, s>>
  BY DEF MasALaIzquierda, TypeOK
<1>3. r \in Segmento /\ r.id = s.id /\ r.base = cursor /\ r.limite = s.limite
  BY <1>2 DEF Reubicado, Segmento, TypeOK
<1>4. tabla_segmentos' = [tabla_segmentos EXCEPT ![p] = (tabla_segmentos[p] \ {s}) \cup {r}]
  BY <1>1
<1> HIDE DEF r, p, s
<1>5. Empaquetado(Residentes, todos, cursor, memoria_total_size)
  BY <1>0, <1>u DEF MapaActual
<1>6. s \in tabla_segmentos[p] /\ EnMemoria(p, s.id)
  <2>1. <<p, s>> \in Residentes
    BY <1>2, <1>5 DEF Empaquetado
  <2>2. QED
    BY <1>2, <2>1, ResidentesDef
<1>7. ~en_swap[p] /\ \A t \in tabla_swap : t.pid # p
  BY <1>0, <1>2, <1>6, <1>u, ResidenteSinBloques
<1>8. TablasBien'
  <2>1. s.limite > 0 /\ \A t \in tabla_segmentos[p] \ {s} : s.id # t.id
    BY <1>0, <1>2, <1>6 DEF TablasBien
  <2>2. \A u, t \in (tabla_segmentos[p] \ {s}) \cup {r} : u.limite > 0 /\ (u.id = t.id => u = t)
    BY <1>0, <1>2, <1>3, <2>1 DEF TablasBien
  <2>3. QED
    BY <1>0, <1>2, <1>4, <2>2, TablasCambio
<1>9. \A q \in PIDS : q # p => tabla_segmentos'[q] = tabla_segmentos[q]
  BY <1>4 DEF TypeOK
<1>10. p \in lista_procesos
  BY <1>0, <1>2, <1>6, <1>u DEF RegistroBien
<1>11. RegistroBien'
  BY <1>0, <1>9, <1>10, <1>u DEF RegistroBien, Ids, EnBloque
<1>12. SwapConsistente'
  BY <1>0, <1>2, <1>7, <1>9, <1>u, SwapAjeno
<1>13. Residentes' = (Residentes \ {x}) \cup {<<p, r>>}
  <2>1. Residentes' = (Residentes \ ({p} \X {s})) \cup ({p} \X {r})
    <3>1. {s} \in SUBSET tabla_segmentos[p] /\ {r} \in SUBSET Segmento
      BY <1>3, <1>6
    <3>2. \A u \in {s} \cup {r} : EnMemoria(p, u.id)
      BY <1>3, <1>6
    <3>3. UNCHANGED <<tabla_swap, hilo>>
      BY <1>u
    <3>4. QED
      BY <1>2, <1>4, <3>1, <3>2, <3>3, ResidentesCambio
  <2>2. {p} \X {s} = {x} /\ {p} \X {r} = {<<p, r>>}
    BY <1>2
  <2>3. QED
    BY <2>1, <2>2
<1>14. MapaActual'
  <2>1. <<p, r>> \in PIDS \X Segmento /\ <<p, r>>[2] = r
    BY <1>2, <1>3
  <2>2. \A y \in todos : x[2].base <= y[2].base
    BY <1>2 DEF s
  <2>3. r.limite = x[2].limite
    BY <1>3 DEF s
  <2>4. Empaquetado((Residentes \ {x}) \cup {<<p, r>>}, todos \ {x}, cursor + x[2].limite,
                    memoria_total_size)
    BY <1>2, <1>3, <1>5, <2>1, <2>2, <2>3, ResidentesDef, EmpaquetadoMover DEF TypeOK
  <2>5. QED
    BY <1>1, <1>13, <1>u, <2>4 DEF MapaActual
<1>15. Mudanza
  <2>1. x \in Residentes /\ <<p, r>> \in PIDS \X Segmento /\ <<p, r>>[2].limite = x[2].limite
    BY <1>2, <1>3, <1>5 DEF Empaquetado, s
  <2>2. <<p, r>> \notin Residentes \ {x}
    BY <1>0, <1>2, <1>3, <1>6, ResidentesDef DEF TablasBien
  <2>3. UNCHANGED <<memoria_total_size, memoria_libre_size>>
    BY <1>u
  <2>4. QED
    BY <1>13, <2>1, <2>2, <2>3 DEF Mudanza
<1>16. QED
  BY <1>0, <1>8, <1>11, <1>12, <1>14, <1>15, <1>u, Cerrar

LEMMA PasoTerminarCompactacion ==
    ASSUME TypeOK, TypeOK', NadiePerdido, MemoriaBien, TerminarCompactacion
    PROVE  MemoriaBien' /\ Mudanza
<1> USE DEF TerminarCompactacion, HuecosFinales, procesos, Ocioso
<1>0. /\ TablasBien /\ RegistroBien /\ SwapConsistente /\ MapaActual
      /\ Fusionados(lista_huecos, memoria_total_size)
  BY Abrir
<1>1. TablasBien'
  BY <1>0 DEF TablasBien
<1>2. RegistroBien'
  BY <1>0 DEF RegistroBien, Ids, EnBloque
<1>3. SwapConsistente'
  BY <1>0 DEF SwapConsistente, Ids, EnBloque
<1>4. Residentes' = Residentes
  BY ResidentesIgual
<1>5. Mapa(Residentes, lista_huecos', memoria_total_size)
  <2>1. Empaquetado(Residentes, {}, cursor, memoria_total_size)
    BY <1>0 DEF MapaActual
  <2>2. QED
    BY <2>1, ResidentesDef, EmpaquetadoFin DEF TypeOK
<1>6. MapaActual' /\ Fusionados(lista_huecos, memoria_total_size)'
  BY <1>4, <1>5 DEF MapaActual, Mapa
<1>7. QED
  BY <1>1, <1>2, <1>3, <1>4, <1>6, Cerrar, SinMudanza

-----------------------------------------------------------------------------
(* Memory that changes hands.                                              *)

\* A segment leaves the memory and its bytes go to the list of holes.
LEMMA MapaLiberar ==
    ASSUME TypeOK, TypeOK', MapaActual, hilo.op # "compactar", hilo'.op # "compactar",
           NEW x \in Residentes, LiberarSegmento(x[2]), UNCHANGED memoria_total_size,
           Residentes' = Residentes \ {x}
    PROVE  MapaActual' /\ Fusionados(lista_huecos, memoria_total_size)' /\ Mudanza
<1> DEFINE n == [base |-> x[2].base, limite |-> x[2].limite]
           segs == Residentes \ {x}
<1>1. Residentes \in SUBSET (PIDS \X Segmento)
  BY ResidentesDef
<1>2. Mapa(Residentes, lista_huecos, memoria_total_size)
  BY DEF MapaActual
<1>3. x[2].base \in Nat /\ x[2].limite \in Nat
  BY <1>1 DEF Segmento
<1>4. /\ n \in Hueco /\ n.base = x[2].base /\ n.limite = x[2].limite
      /\ n.limite > 0 /\ Fin(n) <= memoria_total_size
  BY <1>2, <1>3 DEF Hueco, Mapa, Fin
<1>5. /\ Fusionados(lista_huecos, memoria_total_size)
      /\ \A y \in segs : y[2].limite > 0 /\ Fin(y[2]) <= memoria_total_size
      /\ \A y, z \in segs : y # z => Disjuntos(y[2], z[2])
      /\ \A h \in lista_huecos, y \in segs : Disjuntos(h, y[2])
  BY <1>2 DEF Mapa
<1>6. \A h \in lista_huecos : Disjuntos(h, n)
  <2>1. \A h \in lista_huecos : Disjuntos(h, x[2])
    BY <1>2 DEF Mapa
  <2>2. QED
    BY <1>4, <2>1 DEF Disjuntos, Fin
<1>7. \A y \in segs : Disjuntos(n, y[2])
  <2>1. \A y \in segs : Disjuntos(x[2], y[2])
    BY <1>2 DEF Mapa
  <2>2. QED
    BY <1>4, <2>1 DEF Disjuntos, Fin
<1>8. Cubren(lista_huecos \cup {n} \cup {y[2] : y \in segs}, memoria_total_size)
  <2>1. SUFFICES ASSUME NEW dir \in 0 .. memoria_total_size - 1
                 PROVE  \E w \in lista_huecos \cup {n} \cup {y[2] : y \in segs} : Contiene(w, dir)
    BY DEF Cubren
  <2>2. PICK w \in lista_huecos \cup {y[2] : y \in Residentes} : Contiene(w, dir)
    BY <1>2 DEF Mapa, Cubren
  <2>3. CASE w \in lista_huecos \cup {y[2] : y \in segs}
    BY <2>2, <2>3
  <2>4. CASE w = x[2]
    BY <1>4, <2>2, <2>4 DEF Contiene, Fin
  <2>5. QED
    BY <2>2, <2>3, <2>4
<1> HIDE DEF n, segs
<1>9. segs \in SUBSET (PIDS \X Segmento)
  BY <1>1 DEF segs
<1>10. Mapa(segs, InsertarYFusionar(lista_huecos, n), memoria_total_size)
  BY <1>4, <1>5, <1>6, <1>7, <1>8, <1>9, MapaInsertar DEF TypeOK
<1>11. Mapa(segs, lista_huecos', memoria_total_size')
  BY <1>10 DEF LiberarSegmento, n
<1>12. Mudanza
  BY DEF LiberarSegmento, Mudanza
<1>13. QED
  BY <1>11, <1>12 DEF MapaActual, Mapa, segs

\* A segment comes into the memory at the base of the hole chosen for it.
LEMMA MapaOcupar ==
    ASSUME TypeOK, TypeOK', MapaActual, hilo.op # "compactar", hilo'.op # "compactar",
           NEW tamanio \in Nat \ {0}, NEW h \in EncontrarHueco(lista_huecos, tamanio),
           TomarHueco(h, tamanio), UNCHANGED memoria_total_size,
           NEW y \in PIDS \X Segmento, y[2].base = h.base, y[2].limite = tamanio,
           y \notin Residentes, Residentes' = Residentes \cup {y}
    PROVE  MapaActual' /\ Fusionados(lista_huecos, memoria_total_size)' /\ Mudanza
<1>1. Mapa(Residentes, lista_huecos, memoria_total_size)
  BY DEF MapaActual
<1>2. h \in Caben(lista_huecos, tamanio)
  BY DEF EncontrarHueco, Elegido
<1>3. Residentes \in SUBSET (PIDS \X Segmento)
  BY ResidentesDef
<1>4. Mapa(Residentes \cup {y}, Achicar(lista_huecos, h, tamanio), memoria_total_size)
  BY <1>1, <1>2, <1>3, MapaTomar DEF TypeOK
<1>5. Mudanza
  <2>1. y \in (PIDS \X Segmento) \ Residentes
    OBVIOUS
  <2>2. memoria_libre_size' = memoria_libre_size - y[2].limite
    BY DEF TomarHueco
  <2>3. QED
    BY <2>1, <2>2 DEF Mudanza
<1>6. QED
  BY <1>4, <1>5 DEF TomarHueco, MapaActual, Mapa

\* A stick brings a range of addresses nobody has.
LEMMA PasoAgregarStick ==
    ASSUME TypeOK, TypeOK', NadiePerdido, MemoriaBien, NEW tamanio \in STICKS, AgregarStick(tamanio)
    PROVE  MemoriaBien' /\ Mudanza
<1> USE DEF AgregarStick, procesos, bucle
<1>0. /\ TablasBien /\ RegistroBien /\ SwapConsistente /\ MapaActual
      /\ Fusionados(lista_huecos, memoria_total_size)
  BY Abrir
<1>1. TablasBien'
  BY <1>0 DEF TablasBien
<1>2. RegistroBien'
  BY <1>0 DEF RegistroBien, Ids, EnBloque
<1>3. SwapConsistente'
  BY <1>0 DEF SwapConsistente, Ids, EnBloque
<1>4. Residentes' = Residentes
  BY ResidentesIgual
<1> DEFINE n == [base |-> memoria_total_size, limite |-> tamanio]
           total == memoria_total_size + tamanio
<1>5. tamanio \in Nat /\ tamanio > 0 /\ memoria_total_size \in Nat /\ total \in Nat
  BY TamaniosAssumption DEF TypeOK
<1>6. n \in Hueco /\ n.base = memoria_total_size /\ n.limite = tamanio /\ Fin(n) <= total
  BY <1>5 DEF Hueco, Fin
<1>7. Mapa(Residentes, lista_huecos, memoria_total_size)
  BY <1>0 DEF MapaActual
<1>8. \A h \in lista_huecos : h.base \in Nat /\ h.limite \in Nat
  BY DEF TypeOK, Hueco
<1>9. Residentes \in SUBSET (PIDS \X Segmento)
  BY ResidentesDef
<1>10. \A x \in Residentes : x[2].base \in Nat /\ x[2].limite \in Nat
  BY <1>9 DEF Segmento
<1>11. Fusionados(lista_huecos, total)
  BY <1>0, <1>5, <1>8 DEF Fusionados, Fin
<1>12. \A x \in Residentes : x[2].limite > 0 /\ Fin(x[2]) <= total
  BY <1>5, <1>7, <1>10 DEF Mapa, Fin
<1>13. \A h \in lista_huecos : Disjuntos(h, n)
  BY <1>0, <1>6 DEF Fusionados, Disjuntos
<1>14. \A x \in Residentes : Disjuntos(n, x[2])
  BY <1>6, <1>7 DEF Mapa, Disjuntos
<1>15. Cubren(lista_huecos \cup {n} \cup {x[2] : x \in Residentes}, total)
  <2>1. SUFFICES ASSUME NEW dir \in 0 .. total - 1
                 PROVE  \E w \in lista_huecos \cup {n} \cup {x[2] : x \in Residentes} :
                            Contiene(w, dir)
    BY DEF Cubren
  <2>2. CASE dir < memoria_total_size
    <3>1. dir \in 0 .. memoria_total_size - 1
      BY <1>5, <2>2
    <3>2. QED
      BY <1>7, <3>1 DEF Mapa, Cubren
  <2>3. CASE dir >= memoria_total_size
    BY <1>5, <1>6, <2>3 DEF Contiene, Fin
  <2>4. QED
    BY <1>5, <2>2, <2>3
<1> HIDE DEF n, total
<1>16. /\ \A x, y \in Residentes : x # y => Disjuntos(x[2], y[2])
       /\ \A h \in lista_huecos, x \in Residentes : Disjuntos(h, x[2])
  BY <1>7 DEF Mapa
<1>17. n.limite > 0
  BY <1>5, <1>6
<1>18. Mapa(Residentes, InsertarYFusionar(lista_huecos, n), total)
  BY <1>5, <1>6, <1>9, <1>11, <1>12, <1>13, <1>14, <1>15, <1>16, <1>17, MapaInsertar DEF TypeOK
<1>19. Mapa(Residentes, lista_huecos', memoria_total_size')
  BY <1>18 DEF n, total
<1>20. MapaActual' /\ Fusionados(lista_huecos, memoria_total_size)'
  BY <1>4, <1>19 DEF MapaActual, Mapa
<1>21. Mudanza
  BY <1>4, <1>5 DEF Mudanza
<1>22. QED
  BY <1>1, <1>2, <1>3, <1>20, <1>21, Cerrar

LEMMA PasoCrear ==
    ASSUME TypeOK, TypeOK', NadiePerdido, MemoriaBien,
           NEW p \in PIDS, NEW id \in IDS, NEW tamanio \in TAMANIOS,
           CrearSegmento(p, id, tamanio)
    PROVE  MemoriaBien' /\ Mudanza
<1>0. /\ TablasBien /\ RegistroBien /\ SwapConsistente /\ MapaActual
      /\ Fusionados(lista_huecos, memoria_total_size)
  BY Abrir
<1>u. /\ hilo = Ocioso /\ p \in lista_procesos /\ ~en_swap[p] /\ id \notin Ids(p)
      /\ UNCHANGED <<lista_procesos, en_swap, perdidos, memoria_total_size, tabla_swap, hilo>>
  BY DEF CrearSegmento, Solicitable, Atendible, procesos
<1>1. PICK h \in EncontrarHueco(lista_huecos, tamanio) :
            /\ tabla_segmentos' = [tabla_segmentos EXCEPT ![p] =
                    @ \cup {[id |-> id, base |-> h.base, limite |-> tamanio]}]
            /\ TomarHueco(h, tamanio)
  BY DEF CrearSegmento
<1> DEFINE s == [id |-> id, base |-> h.base, limite |-> tamanio]
<1>2. tamanio \in Nat \ {0} /\ h \in Hueco
  BY TamaniosAssumption DEF EncontrarHueco, Elegido, Caben, TypeOK
<1>3. s \in Segmento /\ s.id = id /\ s.base = h.base /\ s.limite = tamanio
  BY <1>2 DEF Segmento, Hueco
<1>4. tabla_segmentos' = [tabla_segmentos EXCEPT ![p] = tabla_segmentos[p] \cup {s}]
  BY <1>1
<1> HIDE DEF s
<1>5. \A t \in tabla_swap : t.pid # p
  BY <1>0, <1>u, SinBloques DEF Ocioso
<1>6. TablasBien'
  <2>1. \A u, t \in tabla_segmentos[p] \cup {s} : u.limite > 0 /\ (u.id = t.id => u = t)
    BY <1>0, <1>2, <1>3, <1>u DEF TablasBien, Ids
  <2>2. QED
    BY <1>0, <1>4, <2>1, TablasCambio
<1>7. \A q \in PIDS : q # p => tabla_segmentos'[q] = tabla_segmentos[q]
  BY <1>4 DEF TypeOK
<1>8. RegistroBien'
  BY <1>0, <1>7, <1>u DEF RegistroBien, Ids, EnBloque, Ocioso
<1>9. SwapConsistente'
  BY <1>0, <1>5, <1>7, <1>u, SwapAjeno
<1>10. Residentes' = Residentes \cup {<<p, s>>}
  <2>1. {} \in SUBSET tabla_segmentos[p] /\ {s} \in SUBSET Segmento
    BY <1>3
  <2>2. \A t \in {} \cup {s} : EnMemoria(p, t.id)
    BY <1>5, SinBloquesEnMemoria
  <2>3. tabla_segmentos' = [tabla_segmentos EXCEPT ![p] = (tabla_segmentos[p] \ {}) \cup {s}]
    BY <1>4
  <2>4. UNCHANGED <<tabla_swap, hilo>>
    BY <1>u
  <2>5. Residentes' = (Residentes \ ({p} \X {})) \cup ({p} \X {s})
    BY <2>1, <2>2, <2>3, <2>4, ResidentesCambio
  <2>6. {p} \X {} = {} /\ {p} \X {s} = {<<p, s>>}
    OBVIOUS
  <2>7. QED
    BY <2>5, <2>6
<1>11. MapaActual' /\ Fusionados(lista_huecos, memoria_total_size)' /\ Mudanza
  <2>1. <<p, s>> \in PIDS \X Segmento /\ <<p, s>>[2].base = h.base /\ <<p, s>>[2].limite = tamanio
    BY <1>3
  <2>2. hilo.op # "compactar" /\ hilo'.op # "compactar"
    BY <1>u DEF Ocioso
  <2>3. UNCHANGED memoria_total_size
    BY <1>u
  <2>4. <<p, s>> \notin Residentes
    BY <1>3, <1>u, ResidentesDef DEF Ids
  <2>5. QED
    BY <1>0, <1>1, <1>2, <1>10, <2>1, <2>2, <2>3, <2>4, MapaOcupar
<1>12. QED
  BY <1>6, <1>8, <1>9, <1>11, Cerrar

\* What the release of a segment by its process, alive or dead, has in common.
LEMMA PasoQuitar ==
    ASSUME TypeOK, TypeOK', NadiePerdido, MemoriaBien, NEW p \in PIDS, NEW s \in tabla_segmentos[p],
           ~en_swap[p], hilo.op \in {"ocioso", "finalizar"}, LiberarSegmento(s),
           tabla_segmentos' = [tabla_segmentos EXCEPT ![p] = @ \ {s}],
           UNCHANGED <<lista_procesos, en_swap, perdidos, memoria_total_size, tabla_swap, hilo>>
    PROVE  MemoriaBien' /\ Mudanza
<1>0. /\ TablasBien /\ RegistroBien /\ SwapConsistente /\ MapaActual
      /\ Fusionados(lista_huecos, memoria_total_size)
  BY Abrir
<1>1. s \in Segmento
  BY DEF TypeOK
<1>2. tabla_segmentos' = [tabla_segmentos EXCEPT ![p] = tabla_segmentos[p] \ {s}]
  OBVIOUS
<1>3. \A t \in tabla_swap : t.pid # p
  BY <1>0, SinBloques
<1>4. TablasBien'
  <2>1. \A u, t \in tabla_segmentos[p] \ {s} : u.limite > 0 /\ (u.id = t.id => u = t)
    BY <1>0 DEF TablasBien
  <2>2. QED
    BY <1>0, <1>2, <2>1, TablasCambio
<1>5. \A q \in PIDS : q # p => tabla_segmentos'[q] = tabla_segmentos[q]
  BY <1>2 DEF TypeOK
<1>6. RegistroBien'
  <2>1. tabla_segmentos'[p] \subseteq tabla_segmentos[p]
    BY <1>2 DEF TypeOK
  <2>2. \A q \in PIDS : tabla_segmentos'[q] \subseteq tabla_segmentos[q]
    BY <1>5, <2>1
  <2>3. QED
    BY <1>0, <2>2 DEF RegistroBien, Ids, EnBloque
<1>7. SwapConsistente'
  BY <1>0, <1>3, <1>5, SwapAjeno
<1>8. Residentes' = Residentes \ {<<p, s>>}
  <2>1. \A q \in PIDS, t \in Segmento :
            <<q, t>> \in Residentes' <=> <<q, t>> \in Residentes \ {<<p, s>>}
    <3>1. SUFFICES ASSUME NEW q \in PIDS, NEW t \in Segmento
                   PROVE  <<q, t>> \in Residentes' <=> <<q, t>> \in Residentes \ {<<p, s>>}
      OBVIOUS
    <3>2. EnMemoria(q, t.id)' <=> EnMemoria(q, t.id)
      BY DEF EnMemoria, EnBloque
    <3>3. t \in tabla_segmentos'[q] <=> t \in tabla_segmentos[q] /\ <<q, t>> # <<p, s>>
      BY <1>2, <1>5 DEF TypeOK
    <3>4. QED
      BY <3>2, <3>3, ResidentesDef, ResidentesDefPrima
  <2>2. QED
    BY <2>1, ResidentesDef, ResidentesDefPrima
<1>9. MapaActual' /\ Fusionados(lista_huecos, memoria_total_size)' /\ Mudanza
  <2>1. <<p, s>> \in Residentes
    BY <1>1, <1>3, ResidentesDef, SinBloquesEnMemoria
  <2>2. hilo.op # "compactar" /\ hilo'.op # "compactar"
    OBVIOUS
  <2>3. LiberarSegmento(<<p, s>>[2])
    OBVIOUS
  <2>4. QED
    BY <1>0, <1>8, <2>1, <2>2, <2>3, MapaLiberar
<1>10. QED
  BY <1>4, <1>6, <1>7, <1>9, Cerrar

LEMMA PasoEliminar ==
    ASSUME TypeOK, TypeOK', NadiePerdido, MemoriaBien, NEW p \in PIDS, NEW id \in IDS,
           EliminarSegmento(p, id)
    PROVE  MemoriaBien' /\ Mudanza
<1>1. PICK s \in tabla_segmentos[p] :
            LiberarSegmento(s) /\ tabla_segmentos' = [tabla_segmentos EXCEPT ![p] = @ \ {s}]
  BY DEF EliminarSegmento
<1>2. /\ ~en_swap[p] /\ hilo.op \in {"ocioso", "finalizar"}
      /\ UNCHANGED <<lista_procesos, en_swap, perdidos, memoria_total_size, tabla_swap, hilo>>
  BY DEF EliminarSegmento, Atendible, Ocioso, procesos
<1>3. QED
  BY <1>1, <1>2, PasoQuitar

LEMMA PasoLiberarDeMuerto ==
    ASSUME TypeOK, TypeOK', NadiePerdido, MemoriaBien, LiberarDeMuerto
    PROVE  MemoriaBien' /\ Mudanza
<1>1. PICK s \in tabla_segmentos[hilo.pid] :
            /\ LiberarSegmento(s)
            /\ tabla_segmentos' = [tabla_segmentos EXCEPT ![hilo.pid] = @ \ {s}]
  BY DEF LiberarDeMuerto
<1>2. /\ hilo.op = "finalizar"
      /\ UNCHANGED <<lista_procesos, en_swap, perdidos, memoria_total_size, tabla_swap, hilo>>
  BY DEF LiberarDeMuerto, procesos
<1>3. hilo.pid \in PIDS
  BY <1>2, HiloTipo
<1>4. ~en_swap[hilo.pid]
  BY <1>2, <1>3, Abrir DEF RegistroBien
<1>5. QED
  BY <1>1, <1>2, <1>3, <1>4, PasoQuitar

-----------------------------------------------------------------------------
(* Between memory and swap.                                                *)

\* Residents are compared one by one.
LEMMA ResidentesPorPares ==
    ASSUME TypeOK, TypeOK', NEW R \in SUBSET (PIDS \X Segmento),
           \A q \in PIDS, t \in Segmento :
               t \in tabla_segmentos'[q] /\ EnMemoria(q, t.id)' <=> <<q, t>> \in R
    PROVE  Residentes' = R
<1>1. \A q \in PIDS, t \in Segmento : <<q, t>> \in Residentes' <=> <<q, t>> \in R
  BY ResidentesDefPrima
<1>2. QED
  BY <1>1, ResidentesDefPrima

LEMMA PasoFinEnSwap ==
    ASSUME TypeOK, TypeOK', NadiePerdido, MemoriaBien, NEW p \in PIDS, FinEnSwap(p)
    PROVE  MemoriaBien' /\ Mudanza
<1> USE DEF FinEnSwap, Atendible, contables, bucle, Ocioso
<1>0. /\ TablasBien /\ RegistroBien /\ SwapConsistente /\ MapaActual
      /\ Fusionados(lista_huecos, memoria_total_size)
  BY Abrir
<1>1. /\ tabla_segmentos'[p] = {} /\ ~en_swap'[p]
      /\ \A q \in PIDS : q # p => /\ tabla_segmentos'[q] = tabla_segmentos[q]
                                  /\ en_swap'[q] = en_swap[q]
  BY DEF TypeOK
<1>2. TablasBien'
  BY <1>0, <1>1 DEF TablasBien
<1>3. RegistroBien'
  BY <1>0, <1>1 DEF RegistroBien
<1>4. \A q \in PIDS : \A id : q # p => (EnBloque(q, id)' <=> EnBloque(q, id))
  BY DEF EnBloque
<1>5. SwapConsistente'
  <2>1. \A t \in tabla_swap' : /\ t \in tabla_swap /\ t.pid \in PIDS /\ t.pid # p
                               /\ tabla_segmentos'[t.pid] = tabla_segmentos[t.pid]
                               /\ en_swap'[t.pid] = en_swap[t.pid]
    BY <1>1 DEF TypeOK, BloqueSwap
  <2>2. \A q \in lista_procesos' : /\ q \in PIDS /\ q # p /\ en_swap'[q] = en_swap[q]
                                   /\ tabla_segmentos'[q] = tabla_segmentos[q]
    BY <1>1 DEF TypeOK
  <2>3. \A q \in lista_procesos' :
            en_swap'[q] => \A s \in tabla_segmentos'[q] : EnBloque(q, s.id)'
    BY <1>0, <1>4, <2>2 DEF SwapConsistente, Ids
  <2>4. \A t \in tabla_swap' :
            /\ t.pid \in lista_procesos' /\ en_swap'[t.pid]
            /\ \E s \in tabla_segmentos'[t.pid] : s.id = t.segmento_id /\ s.limite = t.tamanio
    BY <1>0, <2>1 DEF SwapConsistente
  <2>5. \A t, u \in tabla_swap' :
            t # u => t.bloque # u.bloque /\ <<t.pid, t.segmento_id>> # <<u.pid, u.segmento_id>>
    BY <1>0, <2>1 DEF SwapConsistente
  <2>6. QED
    BY <2>3, <2>4, <2>5 DEF SwapConsistente, Ids
<1>6. Residentes' = Residentes
  <2>1. ASSUME NEW q \in PIDS, NEW t \in Segmento
        PROVE  t \in tabla_segmentos'[q] /\ EnMemoria(q, t.id)' <=> <<q, t>> \in Residentes
    <3>1. CASE q = p
      <4>1. t \notin tabla_segmentos'[q]
        BY <1>1, <3>1
      <4>2. t \in tabla_segmentos[q] => EnBloque(q, t.id)
        BY <1>0, <3>1 DEF SwapConsistente, Ids
      <4>3. QED
        BY <4>1, <4>2, ResidentesDef DEF EnMemoria
    <3>2. CASE q # p
      BY <1>1, <1>4, <3>2, ResidentesDef DEF EnMemoria
    <3>3. QED
      BY <3>1, <3>2
  <2>2. QED
    BY <2>1, ResidentesDef, ResidentesPorPares
<1>7. MapaActual'
  BY <1>0, <1>6 DEF MapaActual
<1>8. QED
  BY <1>0, <1>2, <1>3, <1>5, <1>6, <1>7, Cerrar, SinMudanza

LEMMA PasoOcuparBloque ==
    ASSUME TypeOK, TypeOK', NadiePerdido, MemoriaBien, OcuparBloque
    PROVE  MemoriaBien' /\ Mudanza
<1>0. /\ TablasBien /\ RegistroBien /\ SwapConsistente /\ MapaActual
      /\ Fusionados(lista_huecos, memoria_total_size)
  BY Abrir
<1> DEFINE p == hilo.pid
<1>1. PICK s \in tabla_segmentos[p], b \in BloqueLibre :
            /\ ~EnBloque(p, s.id)
            /\ tabla_swap' = tabla_swap \cup
                   {[bloque |-> b, pid |-> p, segmento_id |-> s.id, tamanio |-> s.limite]}
            /\ hilo' = [op |-> "liberar", pid |-> p, id |-> s.id]
  BY DEF OcuparBloque
<1> DEFINE n == [bloque |-> b, pid |-> p, segmento_id |-> s.id, tamanio |-> s.limite]
<1>u. /\ hilo.op = "suspender"
      /\ UNCHANGED <<lista_procesos, en_swap, perdidos, lista_huecos, memoria_libre_size,
                     memoria_total_size, tabla_segmentos>>
  BY DEF OcuparBloque, procesos, contables
<1>2. hilo'.op = "liberar" /\ hilo'.pid = p /\ hilo'.id = s.id
  BY <1>1
<1>3. p \in PIDS /\ p \in lista_procesos /\ ~en_swap[p]
  BY <1>0, <1>u, HiloTipo DEF RegistroBien
<1>4. TablasBien'
  BY <1>0, <1>u DEF TablasBien
<1>5. n \in tabla_swap' /\ n.pid = p /\ n.segmento_id = s.id /\ n.bloque = b /\ n.tamanio = s.limite
  BY <1>1
<1>6. \A t \in tabla_swap' : t \in tabla_swap \/ t = n
  BY <1>1
<1> HIDE DEF n, p
<1>7. tabla_swap \subseteq tabla_swap'
  BY <1>1
<1>8. \A q, id : EnBloque(q, id)' <=> EnBloque(q, id) \/ (q = p /\ id = s.id)
  BY <1>5, <1>6, <1>7 DEF EnBloque
<1>9. RegistroBien'
  BY <1>0, <1>2, <1>3, <1>8, <1>u DEF RegistroBien, Ids
<1>10. SwapConsistente'
  <2>1. \A t \in tabla_swap : t.bloque # b
    BY DEF BloqueLibre
  <2>2. \A t \in tabla_swap : <<t.pid, t.segmento_id>> # <<p, s.id>>
    BY <1>1 DEF EnBloque
  <2>3. \A t, u \in tabla_swap' :
            t # u => t.bloque # u.bloque /\ <<t.pid, t.segmento_id>> # <<u.pid, u.segmento_id>>
    BY <1>0, <1>5, <1>6, <2>1, <2>2 DEF SwapConsistente
  <2>4. \A t \in tabla_swap' :
            /\ t.pid \in lista_procesos'
            /\ en_swap'[t.pid] \/ (hilo'.op \in {"suspender", "liberar"} /\ hilo'.pid = t.pid)
            /\ \E w \in tabla_segmentos'[t.pid] : w.id = t.segmento_id /\ w.limite = t.tamanio
    BY <1>0, <1>2, <1>3, <1>5, <1>6, <1>u DEF SwapConsistente, p
  <2>5. \A q \in lista_procesos' :
            en_swap'[q] => \A id \in Ids(q)' : EnBloque(q, id)'
    BY <1>0, <1>8, <1>u DEF SwapConsistente, Ids
  <2>6. QED
    BY <2>3, <2>4, <2>5 DEF SwapConsistente
<1>11. \A q, id : EnMemoria(q, id)' <=> EnMemoria(q, id)
  BY <1>1, <1>2, <1>8, <1>u DEF EnMemoria
<1>12. Residentes' = Residentes
  BY <1>11, <1>u DEF Residentes, Segmentos
<1>13. MapaActual'
  BY <1>0, <1>2, <1>12, <1>u DEF MapaActual
<1>14. QED
  BY <1>0, <1>4, <1>9, <1>10, <1>12, <1>13, <1>u, Cerrar, SinMudanza

LEMMA PasoLiberarFisica ==
    ASSUME TypeOK, TypeOK', NadiePerdido, MemoriaBien, LiberarFisica
    PROVE  MemoriaBien' /\ Mudanza
<1>0. /\ TablasBien /\ RegistroBien /\ SwapConsistente /\ MapaActual
      /\ Fusionados(lista_huecos, memoria_total_size)
  BY Abrir
<1> DEFINE p == hilo.pid
<1>1. PICK s \in tabla_segmentos[p] : s.id = hilo.id /\ LiberarSegmento(s)
  BY DEF LiberarFisica
<1>u. /\ hilo.op = "liberar" /\ hilo' = [op |-> "suspender", pid |-> p]
      /\ UNCHANGED <<lista_procesos, en_swap, perdidos, memoria_total_size, tabla_segmentos,
                     tabla_swap>>
  BY DEF LiberarFisica, procesos
<1>2. hilo'.op = "suspender" /\ hilo'.pid = p
  BY <1>u
<1>3. p \in PIDS /\ s \in Segmento
  BY <1>u, HiloTipo DEF TypeOK
<1>4. TablasBien'
  BY <1>0, <1>u DEF TablasBien
<1>5. RegistroBien'
  BY <1>0, <1>2, <1>u DEF RegistroBien, Ids, EnBloque
<1>6. SwapConsistente'
  BY <1>0, <1>2, <1>u DEF SwapConsistente, Ids, EnBloque
<1>7. EnBloque(p, s.id)
  BY <1>0, <1>1, <1>u DEF RegistroBien
<1>8. \A q, id : EnBloque(q, id)' <=> EnBloque(q, id)
  BY <1>u DEF EnBloque
<1>9. <<p, s>> \in Residentes
  BY <1>1, <1>3, <1>u, ResidentesDef DEF EnMemoria
<1>10. Residentes' = Residentes \ {<<p, s>>}
  <2>1. ASSUME NEW q \in PIDS, NEW t \in Segmento
        PROVE  t \in tabla_segmentos'[q] /\ EnMemoria(q, t.id)'
                   <=> <<q, t>> \in Residentes \ {<<p, s>>}
    <3>1. EnMemoria(q, t.id)' <=> ~EnBloque(q, t.id)
      BY <1>2, <1>8 DEF EnMemoria
    <3>2. EnMemoria(q, t.id) <=> ~EnBloque(q, t.id) \/ (q = p /\ t.id = s.id)
      BY <1>1, <1>u DEF EnMemoria
    <3>3. t \in tabla_segmentos[p] /\ t.id = s.id => t = s
      BY <1>0, <1>3 DEF TablasBien
    <3>4. QED
      BY <1>7, <1>u, <3>1, <3>2, <3>3, ResidentesDef
  <2> DEFINE R == Residentes \ {<<p, s>>}
  <2>2. R \in SUBSET (PIDS \X Segmento)
    BY ResidentesDef
  <2>3. \A q \in PIDS, t \in Segmento :
            t \in tabla_segmentos'[q] /\ EnMemoria(q, t.id)' <=> <<q, t>> \in R
    BY <2>1
  <2> HIDE DEF R
  <2>4. Residentes' = R
    BY <2>2, <2>3, ResidentesPorPares
  <2>5. QED
    BY <2>4 DEF R
<1>11. MapaActual' /\ Fusionados(lista_huecos, memoria_total_size)' /\ Mudanza
  <2>1. hilo.op # "compactar" /\ hilo'.op # "compactar" /\ UNCHANGED memoria_total_size
    BY <1>2, <1>u
  <2>2. LiberarSegmento(<<p, s>>[2])
    BY <1>1
  <2>3. QED
    BY <1>0, <1>9, <1>10, <2>1, <2>2, MapaLiberar
<1>12. QED
  BY <1>4, <1>5, <1>6, <1>11, Cerrar

LEMMA PasoAsignarFisica ==
    ASSUME TypeOK, TypeOK', NadiePerdido, MemoriaBien, AsignarFisica
    PROVE  MemoriaBien' /\ Mudanza
<1>0. /\ TablasBien /\ RegistroBien /\ SwapConsistente /\ MapaActual
      /\ Fusionados(lista_huecos, memoria_total_size)
  BY Abrir
<1> DEFINE p == hilo.pid
<1>1. PICK t \in ProximoBloque(p) :
         \E s \in tabla_segmentos[p], h \in EncontrarHueco(lista_huecos, t.tamanio) :
            /\ s.id = t.segmento_id
            /\ tabla_segmentos' = [tabla_segmentos EXCEPT ![p] = (@ \ {s}) \cup {Reubicado(s, h.base)}]
            /\ TomarHueco(h, t.tamanio)
            /\ hilo' = [op |-> "desocupar", pid |-> p, id |-> s.id]
  BY DEF AsignarFisica
<1>2. PICK s \in tabla_segmentos[p], h \in EncontrarHueco(lista_huecos, t.tamanio) :
            /\ s.id = t.segmento_id
            /\ tabla_segmentos' = [tabla_segmentos EXCEPT ![p] = (@ \ {s}) \cup {Reubicado(s, h.base)}]
            /\ TomarHueco(h, t.tamanio)
            /\ hilo' = [op |-> "desocupar", pid |-> p, id |-> s.id]
  BY <1>1
<1> DEFINE r == Reubicado(s, h.base)
<1>u. /\ hilo.op = "desuspender"
      /\ UNCHANGED <<lista_procesos, en_swap, perdidos, memoria_total_size, tabla_swap>>
  BY DEF AsignarFisica, procesos
<1>3. p \in PIDS /\ s \in Segmento /\ en_swap[p]
  BY <1>0, <1>u, HiloTipo DEF TypeOK, RegistroBien
<1>4. hilo'.op = "desocupar" /\ hilo'.pid = p /\ hilo'.id = s.id
  BY <1>2
<1>5. t \in tabla_swap /\ t.pid = p /\ t.tamanio \in Nat
  BY DEF ProximoBloque, TypeOK, BloqueSwap
<1>6. s.limite = t.tamanio /\ s.limite > 0 /\ EnBloque(p, s.id)
  <2>1. PICK w \in tabla_segmentos[p] : w.id = t.segmento_id /\ w.limite = t.tamanio
    BY <1>0, <1>5 DEF SwapConsistente
  <2>2. w = s
    BY <1>0, <1>2, <1>3, <2>1 DEF TablasBien
  <2>3. QED
    BY <1>0, <1>2, <1>3, <1>5, <2>1, <2>2 DEF TablasBien, EnBloque
<1>7. h \in Hueco
  BY DEF EncontrarHueco, Elegido, Caben, TypeOK
<1>8. r \in Segmento /\ r.id = s.id /\ r.base = h.base /\ r.limite = s.limite
  BY <1>3, <1>7 DEF Reubicado, Segmento, Hueco
<1>9. tabla_segmentos' = [tabla_segmentos EXCEPT ![p] = (tabla_segmentos[p] \ {s}) \cup {r}]
  BY <1>2
<1> HIDE DEF p, r
<1>10. tabla_segmentos'[p] = (tabla_segmentos[p] \ {s}) \cup {r}
  BY <1>3, <1>9 DEF TypeOK
<1>11. \A q \in PIDS : q # p => tabla_segmentos'[q] = tabla_segmentos[q]
  BY <1>9 DEF TypeOK
<1>12. \A w \in tabla_segmentos[p] \ {s} : w.id # s.id
  BY <1>0, <1>3 DEF TablasBien
<1>13. TablasBien'
  <2>1. \A u, w \in (tabla_segmentos[p] \ {s}) \cup {r} : u.limite > 0 /\ (u.id = w.id => u = w)
    BY <1>0, <1>3, <1>6, <1>8, <1>12 DEF TablasBien
  <2>2. QED
    BY <1>0, <1>3, <1>9, <2>1, TablasCambio
<1>14. \A q, id : EnBloque(q, id)' <=> EnBloque(q, id)
  BY <1>u DEF EnBloque
<1>15. RegistroBien'
  <2>1. s.id \in {w.id : w \in tabla_segmentos'[p]}
    BY <1>8, <1>10
  <2>2. p \in lista_procesos
    BY <1>0, <1>3 DEF RegistroBien
  <2>3. QED
    BY <1>0, <1>3, <1>4, <1>6, <1>11, <1>14, <1>u, <2>1, <2>2 DEF RegistroBien, Ids
<1>16. SwapConsistente'
  <2>1. ASSUME NEW q \in PIDS, NEW w \in tabla_segmentos[q]
        PROVE  \E v \in tabla_segmentos'[q] : v.id = w.id /\ v.limite = w.limite
    BY <1>8, <1>10, <1>11
  <2>2. ASSUME NEW q \in PIDS, NEW v \in tabla_segmentos'[q]
        PROVE  \E w \in tabla_segmentos[q] : v.id = w.id
    BY <1>8, <1>10, <1>11
  <2>3. \A v \in tabla_swap' :
            /\ v.pid \in lista_procesos' /\ en_swap'[v.pid]
            /\ \E w \in tabla_segmentos'[v.pid] : w.id = v.segmento_id /\ w.limite = v.tamanio
    <3>1. SUFFICES ASSUME NEW v \in tabla_swap
                   PROVE  /\ v.pid \in lista_procesos /\ en_swap[v.pid]
                          /\ \E w \in tabla_segmentos'[v.pid] :
                                w.id = v.segmento_id /\ w.limite = v.tamanio
      BY <1>u
    <3>2. v.pid \in PIDS
      BY DEF TypeOK, BloqueSwap
    <3>3. QED
      BY <1>0, <1>u, <2>1, <3>2 DEF SwapConsistente
  <2>4. \A q \in lista_procesos' :
            en_swap'[q] /\ q # p => \A id \in Ids(q)' : EnBloque(q, id)'
    <3>1. SUFFICES ASSUME NEW q \in lista_procesos, en_swap[q], q # p,
                          NEW v \in tabla_segmentos'[q]
                   PROVE  EnBloque(q, v.id)
      BY <1>14, <1>u DEF Ids
    <3>2. q \in PIDS
      BY DEF TypeOK
    <3>3. QED
      BY <1>0, <1>u, <2>2, <3>1, <3>2 DEF SwapConsistente, Ids, p
  <2>5. \A v, w \in tabla_swap' :
            v # w => v.bloque # w.bloque /\ <<v.pid, v.segmento_id>> # <<w.pid, w.segmento_id>>
    BY <1>0, <1>u DEF SwapConsistente
  <2>6. QED
    BY <1>4, <2>3, <2>4, <2>5 DEF SwapConsistente
<1>17. Residentes' = Residentes \cup {<<p, r>>}
  <2>1. ASSUME NEW q \in PIDS, NEW v \in Segmento
        PROVE  v \in tabla_segmentos'[q] /\ EnMemoria(q, v.id)'
                   <=> <<q, v>> \in Residentes \cup {<<p, r>>}
    <3>1. EnMemoria(q, v.id)' <=> ~EnBloque(q, v.id) \/ (q = p /\ v.id = s.id)
      BY <1>4, <1>14 DEF EnMemoria
    <3>2. EnMemoria(q, v.id) <=> ~EnBloque(q, v.id)
      BY <1>u DEF EnMemoria
    <3>3. CASE q = p
      <4>1. v \in tabla_segmentos'[q] <=> v \in tabla_segmentos[p] \ {s} \/ v = r
        BY <1>10, <3>3
      <4>2. QED
        BY <1>6, <1>8, <1>12, <3>1, <3>2, <3>3, <4>1, ResidentesDef
    <3>4. CASE q # p
      BY <1>11, <3>1, <3>2, <3>4, ResidentesDef
    <3>5. QED
      BY <3>3, <3>4
  <2>2. Residentes \cup {<<p, r>>} \in SUBSET (PIDS \X Segmento)
    BY <1>3, <1>8, ResidentesDef
  <2>3. QED
    BY <2>1, <2>2, ResidentesPorPares
<1>18. MapaActual' /\ Fusionados(lista_huecos, memoria_total_size)' /\ Mudanza
  <2>1. hilo.op # "compactar" /\ hilo'.op # "compactar" /\ UNCHANGED memoria_total_size
    BY <1>4, <1>u
  <2>2. <<p, r>> \in PIDS \X Segmento /\ <<p, r>>[2].base = h.base /\ <<p, r>>[2].limite = t.tamanio
    BY <1>3, <1>6, <1>8
  <2>3. t.tamanio \in Nat \ {0}
    BY <1>5, <1>6
  <2>4. <<p, r>> \notin Residentes
    BY <1>3, <1>6, <1>8, <1>u, ResidentesDef DEF EnMemoria
  <2>5. QED
    BY <1>0, <1>2, <1>17, <2>1, <2>2, <2>3, <2>4, MapaOcupar
<1>19. QED
  BY <1>13, <1>15, <1>16, <1>18, Cerrar

LEMMA PasoDesocupar ==
    ASSUME TypeOK, TypeOK', NadiePerdido, MemoriaBien, DesocuparBloque
    PROVE  MemoriaBien' /\ Mudanza
<1>0. /\ TablasBien /\ RegistroBien /\ SwapConsistente /\ MapaActual
      /\ Fusionados(lista_huecos, memoria_total_size)
  BY Abrir
<1> DEFINE p == hilo.pid
<1>u. /\ hilo.op = "desocupar" /\ hilo' = [op |-> "desuspender", pid |-> p]
      /\ tabla_swap' = {t \in tabla_swap : t.pid # p \/ t.segmento_id # hilo.id}
      /\ UNCHANGED <<lista_procesos, en_swap, perdidos, lista_huecos, memoria_total_size,
                     memoria_libre_size, tabla_segmentos>>
  BY DEF DesocuparBloque, procesos, contables
<1>1. hilo'.op = "desuspender" /\ hilo'.pid = p
  BY <1>u
<1>2. p \in PIDS /\ en_swap[p]
  BY <1>0, <1>u, HiloTipo DEF RegistroBien
<1>3. TablasBien'
  BY <1>0, <1>u DEF TablasBien
<1>4. RegistroBien'
  BY <1>0, <1>1, <1>2, <1>u DEF RegistroBien
<1>5. \A q, id : EnBloque(q, id)' <=> EnBloque(q, id) /\ ~(q = p /\ id = hilo.id)
  BY <1>u DEF EnBloque
<1>6. SwapConsistente'
  BY <1>0, <1>1, <1>5, <1>u DEF SwapConsistente, Ids
<1>7. \A q, id : EnMemoria(q, id)' <=> EnMemoria(q, id)
  BY <1>1, <1>5, <1>u DEF EnMemoria
<1>8. Residentes' = Residentes
  BY <1>7, <1>u DEF Residentes, Segmentos
<1>9. MapaActual'
  BY <1>0, <1>1, <1>8, <1>u DEF MapaActual
<1>10. QED
  BY <1>0, <1>3, <1>4, <1>6, <1>8, <1>9, <1>u, Cerrar, SinMudanza

-----------------------------------------------------------------------------
(* The theorems.                                                           *)

LEMMA MemoriaInicial == Init => InvMemoria
<1> SUFFICES ASSUME Init PROVE MemoriaBien
  BY DEF InvMemoria
<1> USE DEF Init, Ocioso
<1>1. TablasBien /\ RegistroBien /\ SwapConsistente
  BY DEF TablasBien, RegistroBien, SwapConsistente, Ids
<1>2. Residentes = {}
  BY DEF Residentes, Segmentos
<1>3. Fusionados(lista_huecos, memoria_total_size)
  BY DEF Fusionados
<1>4. Mapa(Residentes, lista_huecos, memoria_total_size)
  BY <1>2, <1>3 DEF Mapa, Cubren
<1>5. QED
  BY <1>1, <1>3, <1>4 DEF MemoriaBien

\* Every step keeps the invariant, and says how the bytes changed hands.
LEMMA MemoriaPasoNext ==
    ASSUME TypeOK, TypeOK', InvMemoria, Next, NadiePerdido'
    PROVE  NadiePerdido /\ MemoriaBien' /\ Mudanza
<1>1. perdidos \subseteq perdidos'
  BY DEF Next, Continuar, InicializarProceso, IniciarFin, FinEnSwap, IniciarSuspension,
         IniciarDesuspension, EliminarSegmento, CrearSegmento, PedirCompactacion,
         IniciarCompactacion, LiberarDeMuerto, TerminarFin, OcuparBloque, LiberarFisica,
         TerminarSuspension, FallarSuspension, AsignarFisica, DesocuparBloque,
         TerminarDesuspension, FallarDesuspension, MoverSegmento,
         TerminarCompactacion, AgregarStick, procesos
<1>2. NadiePerdido
  BY <1>1 DEF NadiePerdido
<1>3. MemoriaBien
  BY <1>2 DEF InvMemoria
<1>4. ~FallarSuspension /\ ~FallarDesuspension
  BY DEF FallarSuspension, FallarDesuspension, NadiePerdido
<1>5. QED
  BY <1>2, <1>3, <1>4, PasoInicializar, PasoIniciarFin, PasoTerminarFin,
     PasoIniciarSuspension, PasoTerminarSuspension, PasoIniciarDesuspension,
     PasoTerminarDesuspension, PasoPedirCompactacion, PasoIniciarCompactacion, PasoMover,
     PasoTerminarCompactacion, PasoAgregarStick, PasoCrear, PasoEliminar,
     PasoLiberarDeMuerto, PasoFinEnSwap, PasoOcuparBloque, PasoLiberarFisica,
     PasoAsignarFisica, PasoDesocupar
     DEF Next, Continuar

\* A step that changes nothing keeps the segments in memory.
LEMMA NadaCambia ==
    ASSUME UNCHANGED vars
    PROVE  /\ Residentes' = Residentes /\ (NadiePerdido' <=> NadiePerdido)
           /\ InvMemoria => InvMemoria'
  BY DEF vars, InvMemoria, MemoriaBien, TablasBien, RegistroBien, SwapConsistente, Residentes,
         Segmentos, EnMemoria, EnBloque, Ids, NadiePerdido

LEMMA MemoriaPaso == TypeOK /\ TypeOK' /\ InvMemoria /\ [Next]_vars => InvMemoria'
<1> SUFFICES ASSUME TypeOK, TypeOK', InvMemoria, [Next]_vars, NadiePerdido'
             PROVE  MemoriaBien'
  BY DEF InvMemoria
<1>1. CASE UNCHANGED vars
  BY <1>1, NadaCambia DEF InvMemoria
<1>2. CASE Next
  BY <1>2, MemoriaPasoNext
<1>3. QED
  BY <1>1, <1>2

\* The inductive invariant of the memory manager.
THEOREM MemoriaCorrecta == Spec => []InvMemoria
<1>1. Init => InvMemoria
  BY MemoriaInicial
<1>2. TypeOK /\ TypeOK' /\ InvMemoria /\ [Next]_vars => InvMemoria'
  BY MemoriaPaso
<1>3. QED
  BY <1>1, <1>2, TipoCorrecto, PTL DEF Spec

\* Memory protection: no byte belongs to two resident segments, in any state of any request.
THEOREM ProteccionSegmentos == Spec => []SegmentosDisjuntos
<1>1. InvMemoria => SegmentosDisjuntos
  BY DEF InvMemoria, MemoriaBien, SegmentosDisjuntos, Mapa, Empaquetado
<1>2. QED
  BY <1>1, MemoriaCorrecta, PTL

\* The allocator never hands out a byte in use.
THEOREM ProteccionHuecos == Spec => []HuecosLibres
<1>1. InvMemoria => HuecosLibres
  BY DEF InvMemoria, MemoriaBien, HuecosLibres, Mapa
<1>2. QED
  BY <1>1, MemoriaCorrecta, PTL

\* The list of holes stays sorted into maximal, non-empty, separate holes.
THEOREM ListaFusionada == Spec => []HuecosFusionados
<1>1. InvMemoria => HuecosFusionados
  BY DEF InvMemoria, MemoriaBien, HuecosFusionados
<1>2. QED
  BY <1>1, MemoriaCorrecta, PTL

\* No memory leaks.
THEOREM MemoriaSinFugas == Spec => []SinFugas
<1>1. InvMemoria => SinFugas
  BY DEF InvMemoria, MemoriaBien, SinFugas, Mapa
<1>2. QED
  BY <1>1, MemoriaCorrecta, PTL

\* Flags, segment tables and swap blocks tell the same story.
THEOREM SwapCoherente == Spec => []SwapConsistente
<1>1. InvMemoria => SwapConsistente
  BY DEF InvMemoria, MemoriaBien, SwapConsistente
<1>2. QED
  BY <1>1, MemoriaCorrecta, PTL

-----------------------------------------------------------------------------
(* Counting the bytes of the map.                                          *)

\* Where holes and segments tile the memory, their bytes add up to it.
LEMMA BytesDelMapa ==
    ASSUME NEW segs \in SUBSET (PIDS \X Segmento), NEW hs \in SUBSET Hueco, NEW total \in Nat,
           Mapa(segs, hs, total)
    PROVE  Cardinality(BytesDe(hs)) + Cardinality(BytesDe({x[2] : x \in segs})) = total
<1> DEFINE piezas == {x[2] : x \in segs}
<1>1. \A h \in hs : h.base \in Nat /\ h.limite \in Nat /\ Fin(h) <= total
  BY DEF Hueco, Mapa, Fusionados
<1>2. \A x \in piezas : x.base \in Nat /\ x.limite \in Nat /\ Fin(x) <= total
  BY DEF Segmento, Mapa
<1>3. \A h \in hs, x \in piezas : Disjuntos(h, x)
  BY DEF Mapa
<1>4. \A dir \in 0 .. total - 1 : \E x \in hs \cup piezas : Contiene(x, dir)
  BY DEF Mapa, Cubren
<1> HIDE DEF piezas
<1>5. /\ IsFiniteSet(BytesDe(hs)) /\ Cardinality(BytesDe(hs)) \in Nat
      /\ IsFiniteSet(BytesDe(piezas)) /\ Cardinality(BytesDe(piezas)) \in Nat
  BY <1>1, <1>2, BytesFinitos
<1>6. BytesDe(hs) \cap BytesDe(piezas) = {}
  <2>1. SUFFICES ASSUME NEW dir \in Nat, NEW h \in hs, NEW x \in piezas,
                        Contiene(h, dir), Contiene(x, dir)
                 PROVE  FALSE
    BY DEF BytesDe
  <2>2. QED
    BY <1>1, <1>2, <1>3, <2>1 DEF Contiene, Disjuntos, Fin
<1>7. BytesDe(hs) \cup BytesDe(piezas) = 0 .. total - 1
  <2>1. \A dir \in BytesDe(hs) \cup BytesDe(piezas) : dir \in 0 .. total - 1
    BY <1>1, <1>2 DEF BytesDe, Contiene, Fin
  <2>2. \A dir \in 0 .. total - 1 : dir \in BytesDe(hs) \cup BytesDe(piezas)
    BY <1>4 DEF BytesDe
  <2>3. QED
    BY <2>1, <2>2
<1>8. Cardinality({}) = 0
  BY FS_EmptySet
<1>9. Cardinality(0 .. total - 1) = total
  BY FS_Interval
<1>10. Cardinality(BytesDe(hs) \cup BytesDe(piezas)) =
          Cardinality(BytesDe(hs)) + Cardinality(BytesDe(piezas))
            - Cardinality(BytesDe(hs) \cap BytesDe(piezas))
  BY <1>5, FS_Union
<1>11. total = Cardinality(BytesDe(hs)) + Cardinality(BytesDe(piezas)) - 0
  BY <1>6, <1>7, <1>8, <1>9, <1>10
<1>12. QED
  BY <1>5, <1>11 DEF piezas

-----------------------------------------------------------------------------
(* memoria_libre_size counts the bytes that no segment has, and those of the *)
(* list of holes, also while a compaction moves the segments and the list is *)
(* the one from before.                                                      *)

DeSegmentos(segs) == {x[2] : x \in segs}

CuentaBien ==
    /\ Cardinality(BytesDe(lista_huecos)) = memoria_libre_size
    /\ Cardinality(BytesDe(DeSegmentos(Residentes))) = memoria_total_size - memoria_libre_size

InvCuenta == InvMemoria /\ (NadiePerdido => CuentaBien)

\* One segment more, in bytes nobody has.
LEMMA SegmentoMas ==
    ASSUME NEW segs \in SUBSET (PIDS \X Segmento), NEW total \in Nat, NEW x \in segs,
           \A y \in segs : Fin(y[2]) <= total,
           \A y, z \in segs : y # z => Disjuntos(y[2], z[2])
    PROVE  /\ Cardinality(BytesDe(DeSegmentos(segs))) =
                  Cardinality(BytesDe(DeSegmentos(segs \ {x}))) + x[2].limite
           /\ Cardinality(BytesDe(DeSegmentos(segs \ {x}))) \in Nat /\ x[2].limite \in Nat
<1> DEFINE resto == DeSegmentos(segs \ {x})
           n == x[2]
<1>1. DeSegmentos(segs) = resto \cup {n}
  BY DEF DeSegmentos
<1>2. /\ \A y \in resto : y.base \in Nat /\ y.limite \in Nat /\ Fin(y) <= total
      /\ n.base \in Nat /\ n.limite \in Nat /\ Fin(n) <= total
  BY DEF Segmento, DeSegmentos
<1>3. \A y \in resto : Disjuntos(y, n)
  BY DEF DeSegmentos
<1> HIDE DEF resto, n
<1>4. Cardinality(BytesDe(resto \cup {n})) = Cardinality(BytesDe(resto)) + n.limite
  BY <1>2, <1>3, BytesMas
<1>5. Cardinality(BytesDe(resto)) \in Nat
  BY <1>2, BytesFinitos
<1>6. QED
  BY <1>1, <1>2, <1>4, <1>5 DEF resto, n

\* Segments in memory are within it and apart, compaction or not.
LEMMA SegmentosEnOrden ==
    ASSUME MemoriaBien
    PROVE  /\ \A y \in Residentes : Fin(y[2]) <= memoria_total_size
           /\ \A y, z \in Residentes : y # z => Disjuntos(y[2], z[2])
  BY DEF MemoriaBien, Mapa, Empaquetado

LEMMA SegmentosEnOrdenPrima ==
    ASSUME MemoriaBien'
    PROVE  /\ \A y \in Residentes' : Fin(y[2]) <= memoria_total_size'
           /\ \A y, z \in Residentes' : y # z => Disjuntos(y[2], z[2])
  BY DEF MemoriaBien, Mapa, Empaquetado

\* The bytes of the segments follow the counters.
LEMMA OcupadosSiguen ==
    ASSUME TypeOK, TypeOK', MemoriaBien, MemoriaBien', CuentaBien, Mudanza
    PROVE  Cardinality(BytesDe(DeSegmentos(Residentes'))) = memoria_total_size' - memoria_libre_size'
<1> DEFINE ocupados(segs) == Cardinality(BytesDe(DeSegmentos(segs)))
           ahora == Residentes
           luego == Residentes'
<1>1. ocupados(ahora) = memoria_total_size - memoria_libre_size
  BY DEF CuentaBien
<1>2. /\ memoria_total_size \in Nat /\ memoria_total_size' \in Nat
      /\ memoria_libre_size \in Int /\ memoria_libre_size' \in Int
  BY DEF TypeOK
<1>3. ahora \in SUBSET (PIDS \X Segmento) /\ luego \in SUBSET (PIDS \X Segmento)
  BY ResidentesDef, ResidentesDefPrima
<1>4. \A x \in ahora : /\ ocupados(ahora) = ocupados(ahora \ {x}) + x[2].limite
                       /\ ocupados(ahora \ {x}) \in Nat /\ x[2].limite \in Nat
  <2>1. /\ \A y \in ahora : Fin(y[2]) <= memoria_total_size
        /\ \A y, z \in ahora : y # z => Disjuntos(y[2], z[2])
    BY SegmentosEnOrden
  <2> HIDE DEF ahora
  <2>2. QED
    BY <1>2, <1>3, <2>1, SegmentoMas
<1>5. \A x \in luego : /\ ocupados(luego) = ocupados(luego \ {x}) + x[2].limite
                       /\ ocupados(luego \ {x}) \in Nat /\ x[2].limite \in Nat
  <2>1. /\ \A y \in luego : Fin(y[2]) <= memoria_total_size'
        /\ \A y, z \in luego : y # z => Disjuntos(y[2], z[2])
    BY SegmentosEnOrdenPrima
  <2> HIDE DEF luego
  <2>2. QED
    BY <1>2, <1>3, <2>1, SegmentoMas
<1>6. \/ /\ luego = ahora
         /\ \E n \in Nat : /\ memoria_libre_size' = memoria_libre_size + n
                          /\ memoria_total_size' = memoria_total_size + n
      \/ /\ memoria_total_size' = memoria_total_size
         /\ \/ \E x \in ahora :
                  /\ luego = ahora \ {x}
                  /\ memoria_libre_size' = memoria_libre_size + x[2].limite
            \/ \E y \in (PIDS \X Segmento) \ ahora :
                  /\ luego = ahora \cup {y}
                  /\ memoria_libre_size' = memoria_libre_size - y[2].limite
            \/ \E x \in ahora, y \in PIDS \X Segmento :
                  /\ y \notin ahora \ {x}
                  /\ y[2].limite = x[2].limite
                  /\ luego = (ahora \ {x}) \cup {y}
                  /\ memoria_libre_size' = memoria_libre_size
  BY DEF Mudanza
<1> SUFFICES ocupados(luego) = memoria_total_size' - memoria_libre_size'
  OBVIOUS
<1> HIDE DEF ocupados, ahora, luego
<1>7. ASSUME luego = ahora, NEW n \in Nat, memoria_libre_size' = memoria_libre_size + n,
             memoria_total_size' = memoria_total_size + n
      PROVE  ocupados(luego) = memoria_total_size' - memoria_libre_size'
  BY <1>1, <1>2, <1>7
<1>8. ASSUME NEW x \in ahora, luego = ahora \ {x}, memoria_total_size' = memoria_total_size,
             memoria_libre_size' = memoria_libre_size + x[2].limite
      PROVE  ocupados(luego) = memoria_total_size' - memoria_libre_size'
  BY <1>1, <1>2, <1>4, <1>8
<1>9. ASSUME NEW y \in (PIDS \X Segmento) \ ahora, luego = ahora \cup {y},
             memoria_total_size' = memoria_total_size,
             memoria_libre_size' = memoria_libre_size - y[2].limite
      PROVE  ocupados(luego) = memoria_total_size' - memoria_libre_size'
  <2>1. y \in luego /\ luego \ {y} = ahora
    BY <1>9
  <2>2. ocupados(luego) = ocupados(ahora) + y[2].limite /\ y[2].limite \in Nat
    BY <1>5, <2>1
  <2>3. QED
    BY <1>1, <1>2, <1>9, <2>2
<1>10. ASSUME NEW x \in ahora, NEW y \in PIDS \X Segmento, y \notin ahora \ {x},
              y[2].limite = x[2].limite, luego = (ahora \ {x}) \cup {y},
              memoria_total_size' = memoria_total_size, memoria_libre_size' = memoria_libre_size
       PROVE  ocupados(luego) = memoria_total_size' - memoria_libre_size'
  <2>1. y \in luego /\ luego \ {y} = ahora \ {x}
    BY <1>10
  <2>2. ocupados(luego) = ocupados(ahora \ {x}) + x[2].limite
    BY <1>5, <1>10, <2>1
  <2>3. QED
    BY <1>1, <1>4, <1>10, <2>2
<1>11. QED
  BY <1>6, <1>7, <1>8, <1>9, <1>10

\* A compaction leaves the list and the counters alone until its last step.
LEMMA CompactandoNadaCambia ==
    ASSUME Next, hilo'.op = "compactar"
    PROVE  UNCHANGED <<lista_huecos, memoria_libre_size, memoria_total_size>>
<1> DEFINE Quieto == UNCHANGED <<lista_huecos, memoria_libre_size, memoria_total_size>>
<1>1. hilo' # Ocioso /\ (hilo' = hilo => hilo # Ocioso)
  BY DEF Ocioso
<1>2. ASSUME NEW p \in PIDS,
             InicializarProceso(p) \/ IniciarFin(p) \/ FinEnSwap(p) \/ IniciarSuspension(p)
                 \/ IniciarDesuspension(p)
      PROVE  Quieto
  BY <1>2 DEF InicializarProceso, IniciarFin, FinEnSwap, IniciarSuspension, IniciarDesuspension,
              contables
<1>3. ASSUME NEW p \in PIDS, NEW id \in IDS, EliminarSegmento(p, id)
      PROVE  Quieto
  BY <1>1, <1>3 DEF EliminarSegmento, Atendible
<1>4. ASSUME NEW p \in PIDS, NEW id \in IDS, NEW tamanio \in TAMANIOS,
             CrearSegmento(p, id, tamanio) \/ PedirCompactacion(p, id, tamanio)
      PROVE  Quieto
  BY <1>1, <1>4 DEF CrearSegmento, PedirCompactacion, Solicitable, Atendible, contables
<1>5. CASE IniciarCompactacion
  BY <1>5 DEF IniciarCompactacion, contables
<1>6. CASE Continuar
  <2>1. CASE LiberarDeMuerto
    BY <2>1 DEF LiberarDeMuerto
  <2>2. CASE LiberarFisica
    BY <2>2 DEF LiberarFisica
  <2>3. CASE AsignarFisica
    BY <2>3 DEF AsignarFisica
  <2>4. CASE TerminarCompactacion
    BY <1>1, <2>4 DEF TerminarCompactacion
  <2>5. CASE TerminarFin \/ OcuparBloque \/ TerminarSuspension \/ FallarSuspension
    BY <2>5 DEF TerminarFin, OcuparBloque, TerminarSuspension, FallarSuspension, contables
  <2>6. CASE DesocuparBloque \/ TerminarDesuspension \/ FallarDesuspension \/ MoverSegmento
    BY <2>6 DEF DesocuparBloque, TerminarDesuspension, FallarDesuspension, MoverSegmento,
                contables
  <2>7. QED
    BY <1>6, <2>1, <2>2, <2>3, <2>4, <2>5, <2>6 DEF Continuar
<1>7. ASSUME NEW tamanio \in STICKS, AgregarStick(tamanio)
      PROVE  Quieto
  BY <1>7 DEF AgregarStick
<1>8. QED
  BY <1>2, <1>3, <1>4, <1>5, <1>6, <1>7 DEF Next

LEMMA CuentaPaso ==
    ASSUME TypeOK, TypeOK', InvCuenta, [Next]_vars
    PROVE  InvCuenta'
<1>1. InvMemoria'
  BY MemoriaPaso DEF InvCuenta
<1>2. SUFFICES ASSUME NadiePerdido' PROVE CuentaBien'
  BY <1>1 DEF InvCuenta
<1>3. CASE UNCHANGED vars
  <2>1. Residentes' = Residentes /\ NadiePerdido
    BY <1>2, <1>3, NadaCambia
  <2>2. CuentaBien
    BY <2>1 DEF InvCuenta
  <2>3. UNCHANGED <<lista_huecos, memoria_libre_size, memoria_total_size>>
    BY <1>3 DEF vars
  <2>4. QED
    BY <2>1, <2>2, <2>3 DEF CuentaBien
<1>4. CASE Next
  <2>1. NadiePerdido /\ MemoriaBien' /\ Mudanza
    BY <1>2, <1>4, MemoriaPasoNext DEF InvCuenta
  <2>2. MemoriaBien /\ CuentaBien
    BY <2>1 DEF InvCuenta, InvMemoria
  <2>3. Cardinality(BytesDe(DeSegmentos(Residentes'))) = memoria_total_size' - memoria_libre_size'
    BY <2>1, <2>2, OcupadosSiguen
  <2>4. Cardinality(BytesDe(lista_huecos')) = memoria_libre_size'
    <3>1. CASE hilo'.op = "compactar"
      BY <1>4, <2>2, <3>1, CompactandoNadaCambia DEF CuentaBien
    <3>2. CASE hilo'.op # "compactar"
      <4>1. Mapa(Residentes', lista_huecos', memoria_total_size')
        BY <2>1, <3>2 DEF MemoriaBien
      <4>2. lista_huecos' \in SUBSET Hueco /\ memoria_total_size' \in Nat
            /\ memoria_libre_size' \in Int
        BY DEF TypeOK
      <4>3. Cardinality(BytesDe(lista_huecos'))
              + Cardinality(BytesDe(DeSegmentos(Residentes'))) = memoria_total_size'
        BY <4>1, <4>2, ResidentesDefPrima, BytesDelMapa DEF DeSegmentos
      <4>4. Cardinality(BytesDe(lista_huecos')) \in Nat
        <5>1. \A h \in lista_huecos' : h.base \in Nat /\ h.limite \in Nat
                                       /\ Fin(h) <= memoria_total_size'
          BY <4>1, <4>2 DEF Hueco, Mapa, Fusionados
        <5>2. QED
          BY <4>2, <5>1, BytesFinitos
      <4>5. QED
        BY <2>3, <4>2, <4>3, <4>4
    <3>3. QED
      BY <3>1, <3>2
  <2>5. QED
    BY <2>3, <2>4 DEF CuentaBien
<1>5. QED
  BY <1>3, <1>4

LEMMA CuentaInicial == Init => InvCuenta
<1> SUFFICES ASSUME Init PROVE CuentaBien
  BY MemoriaInicial DEF InvCuenta
<1>1. Residentes = {}
  BY DEF Init, Residentes, Segmentos
<1>2. BytesDe({}) = {} /\ DeSegmentos({}) = {}
  BY DEF BytesDe, DeSegmentos
<1>3. QED
  BY <1>1, <1>2, FS_EmptySet DEF CuentaBien, Init

\* The inductive invariant of the counter of free bytes.
THEOREM CuentaCorrecta == Spec => []InvCuenta
<1>1. TypeOK /\ TypeOK' /\ InvCuenta /\ [Next]_vars => InvCuenta'
  BY CuentaPaso
<1>2. QED
  BY <1>1, CuentaInicial, TipoCorrecto, PTL DEF Spec

\* memory_gestor.h:53: the counter that decides between COMPACTACION and
\* MEMORIA_NO_DISPONIBLE is the sum of the holes, in any state of any request.
THEOREM ContadorExacto == Spec => []LibreExacta
<1>1. TypeOK /\ InvCuenta => LibreExacta
  <2> SUFFICES ASSUME TypeOK, InvCuenta, NadiePerdido
               PROVE  memoria_libre_size = MapThenSumSet(LAMBDA h : h.limite, lista_huecos)
    BY DEF LibreExacta
  <2>1. Fusionados(lista_huecos, memoria_total_size) /\ CuentaBien
    BY DEF InvCuenta, InvMemoria, MemoriaBien
  <2>2. lista_huecos \in SUBSET Hueco /\ memoria_total_size \in Nat
    BY DEF TypeOK
  <2>3. MapThenSumSet(LAMBDA h : h.limite, lista_huecos) = Cardinality(BytesDe(lista_huecos))
    BY <2>1, <2>2, SumaEsBytes
  <2>4. QED
    BY <2>1, <2>3 DEF CuentaBien
<1>2. QED
  BY <1>1, CuentaCorrecta, TipoCorrecto, PTL

\* Only its last iteration takes the thread out of a compaction.
LEMMA SalirDeCompactar ==
    ASSUME Next, hilo.op = "compactar", hilo' = Ocioso
    PROVE  TerminarCompactacion
<1>1. hilo # Ocioso /\ Ocioso.op # "compactar"
  BY DEF Ocioso
<1>2. QED
  BY <1>1 DEF Next, Continuar, InicializarProceso, IniciarFin, FinEnSwap, IniciarSuspension,
         IniciarDesuspension, EliminarSegmento, CrearSegmento, PedirCompactacion, Solicitable,
         IniciarCompactacion, LiberarDeMuerto, TerminarFin, OcuparBloque, LiberarFisica,
         TerminarSuspension, FallarSuspension, AsignarFisica, DesocuparBloque,
         TerminarDesuspension, FallarDesuspension, MoverSegmento, AgregarStick, Atendible

\* What a compaction is for: it leaves one hole with all the free bytes, so the request that
\* was answered COMPACTACION, or any other the counter admits, finds room when it is sent again.
THEOREM CompactarSirve == Spec => ReintentoEntra
<1>1. TypeOK /\ TypeOK' /\ InvCuenta /\ InvCuenta' /\ [Next]_vars
        => (NadiePerdido /\ hilo.op = "compactar" /\ hilo' = Ocioso =>
              \A tamanio \in TAMANIOS :
                  tamanio <= memoria_libre_size => Caben(lista_huecos, tamanio)' # {})
  <2> SUFFICES ASSUME TypeOK, TypeOK', InvCuenta, InvCuenta', [Next]_vars,
                      NadiePerdido, hilo.op = "compactar", hilo' = Ocioso,
                      NEW tamanio \in TAMANIOS, tamanio <= memoria_libre_size
               PROVE  Caben(lista_huecos', tamanio) # {}
    BY DEF Caben
  <2>1. hilo' # hilo
    BY DEF Ocioso
  <2>2. TerminarCompactacion
    BY <2>1, SalirDeCompactar DEF vars
  <2>3. /\ lista_huecos' = HuecosFinales /\ memoria_libre_size' = memoria_libre_size
        /\ perdidos' = perdidos
    BY <2>2 DEF TerminarCompactacion, procesos
  <2>4. Cardinality(BytesDe(HuecosFinales)) = memoria_libre_size
    BY <2>3 DEF InvCuenta, CuentaBien, NadiePerdido
  <2>5. tamanio \in Nat /\ tamanio > 0 /\ cursor \in Nat /\ memoria_total_size \in Nat
    BY TamaniosAssumption DEF TypeOK
  <2>6. cursor < memoria_total_size
    <3>1. BytesDe({}) = {}
      BY DEF BytesDe
    <3>2. QED
      BY <2>4, <2>5, <3>1, FS_EmptySet DEF HuecosFinales
  <2> DEFINE n == [base |-> cursor, limite |-> memoria_total_size - cursor]
  <2>7. HuecosFinales = {n}
    BY <2>6 DEF HuecosFinales
  <2>8. n.base \in Nat /\ n.limite \in Nat /\ Fin(n) <= memoria_total_size
    BY <2>5, <2>6 DEF Fin
  <2> HIDE DEF n
  <2>9. Cardinality(BytesDe({} \cup {n})) = Cardinality(BytesDe({})) + n.limite
    BY <2>5, <2>8, BytesMas
  <2>10. BytesDe({}) = {} /\ Cardinality({}) = 0 /\ {} \cup {n} = {n}
    BY FS_EmptySet DEF BytesDe
  <2>11. n.limite = memoria_libre_size
    BY <2>4, <2>7, <2>8, <2>9, <2>10
  <2>12. QED
    BY <2>3, <2>7, <2>11 DEF Caben
<1>2. QED
  BY <1>1, CuentaCorrecta, TipoCorrecto, PTL DEF ReintentoEntra, Spec

-----------------------------------------------------------------------------
(* What a failure of swap half-way does not break.                         *)

\* The operations of the thread that are about one process.
ConPid == {"suspender", "liberar", "desuspender", "desocupar", "finalizar"}

\* The flags agree with the thread, and whom the scheduler gave up is still listed.
RegistroFirme ==
    /\ RegistroBien
    /\ perdidos \subseteq lista_procesos
    /\ hilo.op \in ConPid => hilo.pid \notin perdidos

\* Whose block each one is, and that a process in swap has a block for each segment; a process
\* that was given up keeps the blocks it got.
BloquesBien ==
    /\ \A t \in tabla_swap :
        /\ t.pid \in lista_procesos
        /\ \/ en_swap[t.pid] \/ t.pid \in perdidos
           \/ hilo.op \in {"suspender", "liberar"} /\ hilo.pid = t.pid
        /\ t.tamanio <= SWAP_BLOCK_SIZE
        /\ \E s \in tabla_segmentos[t.pid] : s.id = t.segmento_id /\ s.limite = t.tamanio
    /\ \A t, u \in tabla_swap :
        t # u => t.bloque # u.bloque /\ <<t.pid, t.segmento_id>> # <<u.pid, u.segmento_id>>
    /\ \A p \in lista_procesos \ perdidos :
        en_swap[p] /\ ~(hilo.op \in {"desuspender", "desocupar"} /\ hilo.pid = p) =>
            \A s \in tabla_segmentos[p] : EnBloque(p, s.id)

\* Holes and segments end before the memory does.
DentroBien ==
    /\ \A h \in lista_huecos : Fin(h) <= memoria_total_size
    /\ \A p \in PIDS : \A s \in tabla_segmentos[p] : Fin(s) <= memoria_total_size

\* What a failure half-way does not break: the tables, the flags, the blocks, the bounds.
Firme == TablasBien /\ RegistroFirme /\ BloquesBien /\ DentroBien

\* What is left of a compaction is still in the tables as it was listed.
PendientesBien ==
    hilo.op = "compactar" =>
        \A x \in todos : /\ x[2] \in tabla_segmentos[x[1]] /\ x[1] \in lista_procesos
                         /\ ~en_swap[x[1]]

\* InvMemoria without its hypothesis that nothing has failed, and without what it says of places.
InvFirme == Firme /\ PendientesBien

\* The segments in memory of the processes that were not given up.
Vivos == {x \in Residentes : x[1] \notin perdidos}

\* No two of them share a byte.
Sueltos ==
    \A x, y \in Vivos : x # y => Disjuntos(x[2], y[2])

\* No hole has a byte of theirs.
Apartados == \A h \in lista_huecos, x \in Vivos : Disjuntos(h, x[2])

\* Where the segments are when only resumptions may have failed: those of a process that was
\* given up are in no hole nor segment of the others, and a compaction has packed what it took.
LugarBien ==
    /\ \A p \in perdidos : en_swap[p]
    /\ Sueltos
    /\ IF hilo.op = "compactar"
       THEN /\ todos \subseteq Vivos
            /\ \A x \in todos : cursor <= x[2].base
            /\ \A x \in Vivos \ todos : Fin(x[2]) <= cursor
       ELSE /\ Fusionados(lista_huecos, memoria_total_size)
            /\ Apartados

-----------------------------------------------------------------------------
(* InvFirme: one lemma per operation.                                      *)

\* What Firme speaks of did not change.
LEMMA FirmeIgual ==
    ASSUME Firme, UNCHANGED <<tabla_segmentos, lista_huecos, memoria_total_size>>
    PROVE  TablasBien' /\ DentroBien'
  BY DEF Firme, TablasBien, DentroBien

\* The operations, one by one.
LEMMA FirmeInicializar ==
    ASSUME TypeOK, Firme, NEW p \in PIDS, InicializarProceso(p)
    PROVE  Firme' /\ UNCHANGED <<tabla_segmentos, en_swap>>
<1> USE DEF Firme, InicializarProceso, procesos, contables, bucle, Ocioso
<1>1. UNCHANGED <<tabla_segmentos, en_swap>>
  BY DEF RegistroFirme, RegistroBien, TypeOK
<1>2. TablasBien' /\ DentroBien'
  BY <1>1, FirmeIgual
<1>3. RegistroFirme'
  BY <1>1 DEF RegistroFirme, RegistroBien, Ids, EnBloque
<1>4. BloquesBien'
  <2>1. ~en_swap[p] /\ \A t \in tabla_swap : t.pid # p
    BY DEF BloquesBien, RegistroFirme, RegistroBien
  <2>2. QED
    BY <1>1, <2>1 DEF BloquesBien, EnBloque
<1>5. QED
  BY <1>1, <1>2, <1>3, <1>4

\* A process that is not in swap, with the thread idle or moving somebody else, has no block.
LEMMA FirmeSinBloques ==
    ASSUME Firme, NEW p \in PIDS, ~en_swap[p], p \notin perdidos,
           ~(hilo.op \in {"suspender", "liberar"} /\ hilo.pid = p)
    PROVE  \A t \in tabla_swap : t.pid # p
  BY DEF Firme, BloquesBien

LEMMA FirmeIniciarFin ==
    ASSUME TypeOK, Firme, NEW p \in PIDS, IniciarFin(p)
    PROVE  Firme'
<1> USE DEF IniciarFin, Atendible, contables, bucle, Ocioso
<1>2. TablasBien' /\ DentroBien'
  BY FirmeIgual
<1>3. hilo'.op = "finalizar" /\ hilo'.pid = p
  OBVIOUS
<1>4. RegistroFirme'
  BY <1>3 DEF Firme, RegistroFirme, RegistroBien, Ids, EnBloque
<1>5. BloquesBien'
  <2>1. \A t \in tabla_swap : t.pid # p
    BY FirmeSinBloques
  <2>2. QED
    BY <1>3, <2>1 DEF Firme, BloquesBien, EnBloque
<1>6. QED
  BY <1>2, <1>4, <1>5 DEF Firme

LEMMA FirmeTerminarFin ==
    ASSUME TypeOK, Firme, TerminarFin
    PROVE  Firme'
<1> USE DEF TerminarFin, procesos, contables, bucle, Ocioso
<1>1. TablasBien' /\ DentroBien'
  BY FirmeIgual
<1>2. RegistroFirme' /\ BloquesBien'
  BY DEF Firme, RegistroFirme, RegistroBien, BloquesBien, Ids, EnBloque, ConPid
<1>3. QED
  BY <1>1, <1>2 DEF Firme

LEMMA FirmeIniciarSuspension ==
    ASSUME TypeOK, Firme, NEW p \in PIDS, IniciarSuspension(p)
    PROVE  Firme'
<1> USE DEF IniciarSuspension, Atendible, procesos, contables, bucle, Ocioso
<1>1. TablasBien' /\ DentroBien'
  BY FirmeIgual
<1>2. hilo'.op = "suspender" /\ hilo'.pid = p
  OBVIOUS
<1>3. RegistroFirme'
  BY <1>2 DEF Firme, RegistroFirme, RegistroBien, Ids, EnBloque
<1>4. BloquesBien'
  BY <1>2 DEF Firme, BloquesBien, EnBloque
<1>5. QED
  BY <1>1, <1>3, <1>4 DEF Firme

LEMMA FirmeTerminarSuspension ==
    ASSUME TypeOK, Firme, TerminarSuspension
    PROVE  Firme'
<1> USE DEF TerminarSuspension, contables, bucle, Ocioso
<1>0. TablasBien /\ RegistroFirme /\ BloquesBien
  BY DEF Firme
<1>1. TablasBien' /\ DentroBien'
  BY FirmeIgual
<1>2. hilo.pid \in PIDS /\ hilo.pid \in lista_procesos
  BY <1>0, HiloTipo DEF RegistroFirme, RegistroBien
<1>3. en_swap'[hilo.pid] /\ \A q \in PIDS : q # hilo.pid => en_swap'[q] = en_swap[q]
  BY <1>2 DEF TypeOK
<1>4. RegistroFirme'
  BY <1>0, <1>2, <1>3 DEF RegistroFirme, RegistroBien, Ids, EnBloque, ConPid
<1>5. BloquesBien'
  <2>1. \A t \in tabla_swap : t.pid \in PIDS
    BY DEF TypeOK, BloqueSwap
  <2>2. \A q \in lista_procesos : q \in PIDS
    BY DEF TypeOK
  <2>3. \A t \in tabla_swap : en_swap'[t.pid] \/ t.pid \in perdidos
    BY <1>0, <1>3, <2>1 DEF BloquesBien
  <2>4. \A q \in lista_procesos \ perdidos :
            en_swap'[q] => \A s \in tabla_segmentos[q] : EnBloque(q, s.id)
    BY <1>0, <1>3, <2>2 DEF BloquesBien
  <2>5. QED
    BY <1>0, <2>3, <2>4 DEF BloquesBien, EnBloque
<1>6. QED
  BY <1>1, <1>4, <1>5 DEF Firme

LEMMA FirmeFallarSuspension ==
    ASSUME TypeOK, Firme, FallarSuspension
    PROVE  Firme'
<1> USE DEF FallarSuspension, contables, bucle, Ocioso
<1>0. TablasBien /\ RegistroFirme /\ BloquesBien
  BY DEF Firme
<1>1. TablasBien' /\ DentroBien'
  BY FirmeIgual
<1>2. hilo.pid \in PIDS /\ hilo.pid \in lista_procesos
  BY <1>0, HiloTipo DEF RegistroFirme, RegistroBien
<1>4. RegistroFirme'
  BY <1>0, <1>2 DEF RegistroFirme, RegistroBien, Ids, EnBloque, ConPid
<1>5. BloquesBien'
  BY <1>0, <1>2 DEF BloquesBien, EnBloque
<1>6. QED
  BY <1>1, <1>4, <1>5 DEF Firme

LEMMA FirmeIniciarDesuspension ==
    ASSUME TypeOK, Firme, NEW p \in PIDS, IniciarDesuspension(p)
    PROVE  Firme'
<1> USE DEF IniciarDesuspension, Atendible, procesos, contables, bucle, Ocioso
<1>1. TablasBien' /\ DentroBien'
  BY FirmeIgual
<1>2. hilo'.op = "desuspender" /\ hilo'.pid = p
  OBVIOUS
<1>3. RegistroFirme'
  BY <1>2 DEF Firme, RegistroFirme, RegistroBien, Ids, EnBloque
<1>4. BloquesBien'
  BY <1>2 DEF Firme, BloquesBien, EnBloque
<1>5. QED
  BY <1>1, <1>3, <1>4 DEF Firme

LEMMA FirmeTerminarDesuspension ==
    ASSUME TypeOK, Firme, TerminarDesuspension
    PROVE  Firme'
<1> USE DEF TerminarDesuspension, contables, bucle, Ocioso
<1>0. TablasBien /\ RegistroFirme /\ BloquesBien
  BY DEF Firme
<1>1. TablasBien' /\ DentroBien'
  BY FirmeIgual
<1>2. hilo.pid \in PIDS /\ hilo.pid \in lista_procesos
  BY <1>0, HiloTipo DEF RegistroFirme, RegistroBien
<1>3. ~en_swap'[hilo.pid] /\ \A q \in PIDS : q # hilo.pid => en_swap'[q] = en_swap[q]
  BY <1>2 DEF TypeOK
<1>4. RegistroFirme'
  BY <1>0, <1>2, <1>3 DEF RegistroFirme, RegistroBien, Ids, EnBloque, ConPid
<1>5. BloquesBien'
  <2>1. \A t \in tabla_swap : t.pid \in PIDS
    BY DEF TypeOK, BloqueSwap
  <2>2. \A q \in lista_procesos : q \in PIDS
    BY DEF TypeOK
  <2>3. \A t \in tabla_swap : en_swap'[t.pid] \/ t.pid \in perdidos
    BY <1>0, <1>3, <2>1 DEF BloquesBien
  <2>4. \A q \in lista_procesos \ perdidos :
            en_swap'[q] => \A s \in tabla_segmentos[q] : EnBloque(q, s.id)
    BY <1>0, <1>3, <2>2 DEF BloquesBien
  <2>5. QED
    BY <1>0, <2>3, <2>4 DEF BloquesBien, EnBloque
<1>6. QED
  BY <1>1, <1>4, <1>5 DEF Firme

LEMMA FirmeFallarDesuspension ==
    ASSUME TypeOK, Firme, FallarDesuspension
    PROVE  Firme'
<1> USE DEF FallarDesuspension, contables, bucle, Ocioso
<1>0. TablasBien /\ RegistroFirme /\ BloquesBien
  BY DEF Firme
<1>1. TablasBien' /\ DentroBien'
  BY FirmeIgual
<1>2. hilo.pid \in PIDS /\ hilo.pid \in lista_procesos
  BY <1>0, HiloTipo DEF RegistroFirme, RegistroBien
<1>4. RegistroFirme'
  BY <1>0, <1>2 DEF RegistroFirme, RegistroBien, Ids, EnBloque, ConPid
<1>5. BloquesBien'
  BY <1>0, <1>2 DEF BloquesBien, EnBloque
<1>6. QED
  BY <1>1, <1>4, <1>5 DEF Firme

LEMMA FirmePedirCompactacion ==
    ASSUME TypeOK, Firme, NEW p \in PIDS, NEW id \in IDS, NEW tamanio \in TAMANIOS,
           PedirCompactacion(p, id, tamanio)
    PROVE  Firme'
<1> USE DEF PedirCompactacion, Solicitable, Atendible, procesos, contables, bucle, Ocioso
<1>1. TablasBien' /\ DentroBien'
  BY FirmeIgual
<1>2. hilo'.op = "desalojar"
  OBVIOUS
<1>3. RegistroFirme' /\ BloquesBien'
  BY <1>2 DEF Firme, RegistroFirme, RegistroBien, BloquesBien, Ids, EnBloque, ConPid
<1>4. QED
  BY <1>1, <1>3 DEF Firme

LEMMA FirmeIniciarCompactacion ==
    ASSUME TypeOK, Firme, IniciarCompactacion
    PROVE  Firme'
<1> USE DEF IniciarCompactacion, procesos, contables
<1>1. TablasBien' /\ DentroBien'
  BY FirmeIgual
<1>2. hilo'.op = "compactar"
  OBVIOUS
<1>3. RegistroFirme' /\ BloquesBien'
  BY <1>2 DEF Firme, RegistroFirme, RegistroBien, BloquesBien, Ids, EnBloque, ConPid
<1>4. QED
  BY <1>1, <1>3 DEF Firme

LEMMA FirmeTerminarCompactacion ==
    ASSUME TypeOK, Firme, TerminarCompactacion
    PROVE  Firme'
<1> USE DEF TerminarCompactacion, procesos, Ocioso
<1>1. TablasBien'
  BY DEF Firme, TablasBien
<1>2. DentroBien'
  <2>1. \A h \in lista_huecos' : Fin(h) <= memoria_total_size
    BY DEF HuecosFinales, Fin, TypeOK
  <2>2. QED
    BY <2>1 DEF Firme, DentroBien
<1>3. RegistroFirme' /\ BloquesBien'
  BY DEF Firme, RegistroFirme, RegistroBien, BloquesBien, Ids, EnBloque, ConPid
<1>4. QED
  BY <1>1, <1>2, <1>3 DEF Firme

LEMMA FirmeAgregarStick ==
    ASSUME TypeOK, Firme, NEW tamanio \in STICKS, AgregarStick(tamanio)
    PROVE  Firme'
<1> USE DEF AgregarStick, procesos, bucle
<1>1. TablasBien'
  BY DEF Firme, TablasBien
<1>2. tamanio \in Nat /\ memoria_total_size \in Nat /\ memoria_total_size + tamanio \in Nat
  BY TamaniosAssumption DEF TypeOK
<1>3. \A h \in lista_huecos' : Fin(h) <= memoria_total_size + tamanio
  <2> DEFINE n == [base |-> memoria_total_size, limite |-> tamanio]
  <2>1. n \in Hueco /\ Fin(n) <= memoria_total_size + tamanio
    BY <1>2 DEF Hueco, Fin
  <2>2. \A h \in lista_huecos : Fin(h) <= memoria_total_size + tamanio
    BY <1>2 DEF Firme, DentroBien, Fin, TypeOK, Hueco
  <2> HIDE DEF n
  <2>3. \A h \in InsertarYFusionar(lista_huecos, n) : Fin(h) <= memoria_total_size + tamanio
    BY <1>2, <2>1, <2>2, InsertarDentro DEF TypeOK
  <2>4. QED
    BY <2>3 DEF n
<1>4. DentroBien'
  <2>1. \A p \in PIDS : \A s \in tabla_segmentos[p] : s.base \in Nat /\ s.limite \in Nat
    BY DEF TypeOK, Segmento
  <2>2. QED
    BY <1>2, <1>3, <2>1 DEF Firme, DentroBien, Fin
<1>5. RegistroFirme' /\ BloquesBien'
  BY DEF Firme, RegistroFirme, RegistroBien, BloquesBien, Ids, EnBloque, ConPid
<1>6. QED
  BY <1>1, <1>4, <1>5 DEF Firme

\* Releasing a range of the memory leaves the holes inside it.
LEMMA FirmeLiberarDentro ==
    ASSUME TypeOK, DentroBien, NEW p \in PIDS, NEW s \in tabla_segmentos[p], LiberarSegmento(s)
    PROVE  \A h \in lista_huecos' : Fin(h) <= memoria_total_size
<1> DEFINE n == [base |-> s.base, limite |-> s.limite]
<1>1. n \in Hueco /\ Fin(n) = Fin(s)
  BY DEF TypeOK, Segmento, Hueco, Fin
<1>2. lista_huecos' = InsertarYFusionar(lista_huecos, n)
  BY DEF LiberarSegmento
<1> HIDE DEF n
<1>3. QED
  BY <1>1, <1>2, InsertarDentro DEF DentroBien, TypeOK

\* So does taking bytes from a hole.
LEMMA FirmeTomarDentro ==
    ASSUME TypeOK, DentroBien, NEW tamanio \in Nat, NEW h \in EncontrarHueco(lista_huecos, tamanio),
           TomarHueco(h, tamanio)
    PROVE  /\ h \in Hueco /\ h.base + tamanio <= memoria_total_size
           /\ \A g \in lista_huecos' : Fin(g) <= memoria_total_size
<1>1. h \in lista_huecos /\ h.limite >= tamanio
  BY DEF EncontrarHueco, Elegido, Caben
<1>2. h \in Hueco /\ Fin(h) <= memoria_total_size /\ memoria_total_size \in Nat
  BY <1>1 DEF TypeOK, DentroBien
<1>3. h.base + tamanio <= memoria_total_size
  BY <1>1, <1>2 DEF Hueco, Fin
<1> DEFINE r == [base |-> h.base + tamanio, limite |-> h.limite - tamanio]
<1>4. Fin(r) = Fin(h)
  BY <1>2 DEF Fin, Hueco
<1>5. \A g \in lista_huecos' : g \in lista_huecos \/ g = r
  BY DEF TomarHueco, Achicar
<1> HIDE DEF r
<1>6. QED
  BY <1>2, <1>3, <1>4, <1>5 DEF DentroBien

\* The table of a process without blocks may change freely.
LEMMA FirmeAjeno ==
    ASSUME TypeOK, BloquesBien, NEW p \in PIDS, ~en_swap[p],
           \A t \in tabla_swap : t.pid # p,
           \A q \in PIDS : q # p => tabla_segmentos'[q] = tabla_segmentos[q],
           UNCHANGED <<tabla_swap, lista_procesos, en_swap, perdidos, hilo>>
    PROVE  BloquesBien'
<1>1. \A t \in tabla_swap : t.pid \in PIDS /\ tabla_segmentos'[t.pid] = tabla_segmentos[t.pid]
  BY DEF TypeOK, BloqueSwap
<1>2. \A q \in lista_procesos : en_swap[q] => tabla_segmentos'[q] = tabla_segmentos[q]
  BY DEF TypeOK
<1>3. \A t \in tabla_swap' :
            /\ t.pid \in lista_procesos'
            /\ \/ en_swap'[t.pid] \/ t.pid \in perdidos'
               \/ hilo'.op \in {"suspender", "liberar"} /\ hilo'.pid = t.pid
            /\ t.tamanio <= SWAP_BLOCK_SIZE
            /\ \E s \in tabla_segmentos'[t.pid] : s.id = t.segmento_id /\ s.limite = t.tamanio
  BY <1>1 DEF BloquesBien
<1>4. \A q \in lista_procesos' \ perdidos' :
            en_swap'[q] /\ ~(hilo'.op \in {"desuspender", "desocupar"} /\ hilo'.pid = q) =>
                \A s \in tabla_segmentos'[q] : EnBloque(q, s.id)'
  BY <1>2 DEF BloquesBien, EnBloque
<1>5. QED
  BY <1>3, <1>4 DEF BloquesBien

LEMMA FirmeCrear ==
    ASSUME TypeOK, Firme, NEW p \in PIDS, NEW id \in IDS, NEW tamanio \in TAMANIOS,
           CrearSegmento(p, id, tamanio)
    PROVE  Firme'
<1>0. TablasBien /\ RegistroFirme /\ BloquesBien /\ DentroBien
  BY DEF Firme
<1>u. /\ hilo = Ocioso /\ p \in lista_procesos /\ p \notin perdidos /\ ~en_swap[p] /\ id \notin Ids(p)
      /\ UNCHANGED <<lista_procesos, en_swap, perdidos, memoria_total_size, tabla_swap, hilo>>
  BY DEF CrearSegmento, Solicitable, Atendible, procesos
<1>1. PICK h \in EncontrarHueco(lista_huecos, tamanio) :
            /\ tabla_segmentos' = [tabla_segmentos EXCEPT ![p] =
                    @ \cup {[id |-> id, base |-> h.base, limite |-> tamanio]}]
            /\ TomarHueco(h, tamanio)
  BY DEF CrearSegmento
<1> DEFINE s == [id |-> id, base |-> h.base, limite |-> tamanio]
<1>2. tamanio \in Nat \ {0}
  BY TamaniosAssumption
<1>3. s.id = id /\ s.base = h.base /\ s.limite = tamanio
  OBVIOUS
<1>4. tabla_segmentos' = [tabla_segmentos EXCEPT ![p] = tabla_segmentos[p] \cup {s}]
  BY <1>1
<1>5. /\ h.base + tamanio <= memoria_total_size
      /\ \A g \in lista_huecos' : Fin(g) <= memoria_total_size
  BY <1>0, <1>1, <1>2, FirmeTomarDentro
<1> HIDE DEF s
<1>6. \A t \in tabla_swap : t.pid # p
  BY <1>u, FirmeSinBloques DEF Ocioso
<1>7. TablasBien'
  <2>1. \A u, t \in tabla_segmentos[p] \cup {s} : u.limite > 0 /\ (u.id = t.id => u = t)
    BY <1>0, <1>2, <1>3, <1>u DEF TablasBien, Ids
  <2>2. QED
    BY <1>0, <1>4, <2>1, TablasCambio
<1>8. /\ \A q \in PIDS : q # p => tabla_segmentos'[q] = tabla_segmentos[q]
      /\ tabla_segmentos'[p] = tabla_segmentos[p] \cup {s}
  BY <1>4 DEF TypeOK
<1>9. RegistroFirme'
  BY <1>0, <1>8, <1>u DEF RegistroFirme, RegistroBien, Ids, EnBloque, Ocioso, ConPid
<1>10. BloquesBien'
  BY <1>0, <1>6, <1>8, <1>u, FirmeAjeno
<1>11. DentroBien'
  BY <1>0, <1>3, <1>5, <1>8, <1>u DEF DentroBien, Fin
<1>12. QED
  BY <1>7, <1>9, <1>10, <1>11 DEF Firme

\* A segment less, of a process that has none in swap.
LEMMA FirmeQuitar ==
    ASSUME TypeOK, Firme, NEW p \in PIDS, NEW s \in tabla_segmentos[p],
           ~en_swap[p], p \notin perdidos, hilo.op \in {"ocioso", "finalizar"}, LiberarSegmento(s),
           tabla_segmentos' = [tabla_segmentos EXCEPT ![p] = @ \ {s}],
           UNCHANGED <<lista_procesos, en_swap, perdidos, memoria_total_size, tabla_swap, hilo>>
    PROVE  Firme'
<1>0. TablasBien /\ RegistroFirme /\ BloquesBien /\ DentroBien
  BY DEF Firme
<1>1. \A t \in tabla_swap : t.pid # p
  BY FirmeSinBloques
<1>2. /\ \A q \in PIDS : q # p => tabla_segmentos'[q] = tabla_segmentos[q]
      /\ tabla_segmentos'[p] = tabla_segmentos[p] \ {s}
  BY DEF TypeOK
<1>3. \A q \in PIDS : tabla_segmentos'[q] \subseteq tabla_segmentos[q]
  BY <1>2
<1>4. TablasBien'
  BY <1>0, <1>3 DEF TablasBien
<1>5. RegistroFirme'
  BY <1>0, <1>3 DEF RegistroFirme, RegistroBien, Ids, EnBloque, ConPid
<1>6. BloquesBien'
  BY <1>0, <1>1, <1>2, FirmeAjeno
<1>7. DentroBien'
  <2>1. \A h \in lista_huecos' : Fin(h) <= memoria_total_size
    BY <1>0, FirmeLiberarDentro
  <2>2. QED
    BY <1>0, <1>3, <2>1 DEF DentroBien
<1>8. QED
  BY <1>4, <1>5, <1>6, <1>7 DEF Firme

LEMMA FirmeEliminar ==
    ASSUME TypeOK, Firme, NEW p \in PIDS, NEW id \in IDS, EliminarSegmento(p, id)
    PROVE  Firme'
<1>1. PICK s \in tabla_segmentos[p] :
            LiberarSegmento(s) /\ tabla_segmentos' = [tabla_segmentos EXCEPT ![p] = @ \ {s}]
  BY DEF EliminarSegmento
<1>2. /\ ~en_swap[p] /\ p \notin perdidos /\ hilo.op \in {"ocioso", "finalizar"}
      /\ UNCHANGED <<lista_procesos, en_swap, perdidos, memoria_total_size, tabla_swap, hilo>>
  BY DEF EliminarSegmento, Atendible, Ocioso, procesos
<1>3. QED
  BY <1>1, <1>2, FirmeQuitar

\* What the release of a dead process may count on.
LEMMA FirmeMuerto ==
    ASSUME TypeOK, Firme, hilo.op = "finalizar"
    PROVE  hilo.pid \in PIDS /\ hilo.pid \notin perdidos /\ ~en_swap[hilo.pid]
  BY HiloTipo DEF Firme, RegistroFirme, RegistroBien, ConPid

LEMMA FirmeLiberarDeMuerto ==
    ASSUME TypeOK, Firme, LiberarDeMuerto
    PROVE  Firme'
<1>1. PICK s \in tabla_segmentos[hilo.pid] :
            /\ LiberarSegmento(s)
            /\ tabla_segmentos' = [tabla_segmentos EXCEPT ![hilo.pid] = @ \ {s}]
  BY DEF LiberarDeMuerto
<1>2. /\ hilo.op = "finalizar"
      /\ UNCHANGED <<lista_procesos, en_swap, perdidos, memoria_total_size, tabla_swap, hilo>>
  BY DEF LiberarDeMuerto, procesos
<1>3. QED
  BY <1>1, <1>2, FirmeMuerto, FirmeQuitar

LEMMA FirmeFinEnSwap ==
    ASSUME TypeOK, Firme, NEW p \in PIDS, FinEnSwap(p)
    PROVE  Firme'
<1> USE DEF FinEnSwap, Atendible, contables, bucle, Ocioso
<1>0. TablasBien /\ RegistroFirme /\ BloquesBien /\ DentroBien
  BY DEF Firme
<1>1. /\ tabla_segmentos'[p] = {} /\ ~en_swap'[p]
      /\ \A q \in PIDS : q # p => /\ tabla_segmentos'[q] = tabla_segmentos[q]
                                  /\ en_swap'[q] = en_swap[q]
  BY DEF TypeOK
<1>2. TablasBien' /\ DentroBien'
  BY <1>0, <1>1 DEF TablasBien, DentroBien
<1>3. RegistroFirme'
  BY <1>0, <1>1 DEF RegistroFirme, RegistroBien, ConPid
<1>4. \A q \in PIDS : \A id : q # p => (EnBloque(q, id)' <=> EnBloque(q, id))
  BY DEF EnBloque
<1>5. BloquesBien'
  <2>1. \A t \in tabla_swap' : /\ t \in tabla_swap /\ t.pid \in PIDS /\ t.pid # p
                               /\ tabla_segmentos'[t.pid] = tabla_segmentos[t.pid]
                               /\ en_swap'[t.pid] = en_swap[t.pid]
    BY <1>1 DEF TypeOK, BloqueSwap
  <2>2. \A q \in lista_procesos' : /\ q \in PIDS /\ q # p /\ en_swap'[q] = en_swap[q]
                                   /\ tabla_segmentos'[q] = tabla_segmentos[q]
    BY <1>1 DEF TypeOK
  <2>3. \A q \in lista_procesos' \ perdidos' :
            en_swap'[q] => \A s \in tabla_segmentos'[q] : EnBloque(q, s.id)'
    BY <1>0, <1>4, <2>2 DEF BloquesBien
  <2>4. \A t \in tabla_swap' :
            /\ t.pid \in lista_procesos' /\ (en_swap'[t.pid] \/ t.pid \in perdidos')
            /\ t.tamanio <= SWAP_BLOCK_SIZE
            /\ \E s \in tabla_segmentos'[t.pid] : s.id = t.segmento_id /\ s.limite = t.tamanio
    BY <1>0, <2>1 DEF BloquesBien
  <2>5. \A t, u \in tabla_swap' :
            t # u => t.bloque # u.bloque /\ <<t.pid, t.segmento_id>> # <<u.pid, u.segmento_id>>
    BY <1>0, <2>1 DEF BloquesBien
  <2>6. QED
    BY <2>3, <2>4, <2>5 DEF BloquesBien
<1>6. QED
  BY <1>2, <1>3, <1>5 DEF Firme

\* What OcuparBloque does, by name.
LEMMA OcuparHace ==
    ASSUME TypeOK, Firme, OcuparBloque
    PROVE  /\ hilo.pid \in PIDS /\ hilo.pid \in lista_procesos /\ hilo.pid \notin perdidos
           /\ ~en_swap[hilo.pid] /\ hilo.op = "suspender"
           /\ hilo'.op = "liberar" /\ hilo'.pid = hilo.pid
           /\ UNCHANGED <<lista_procesos, en_swap, perdidos, lista_huecos, memoria_libre_size,
                          memoria_total_size, tabla_segmentos, todos, cursor>>
           /\ \E s \in tabla_segmentos[hilo.pid], t \in BloqueSwap :
                /\ ~EnBloque(hilo.pid, s.id) /\ hilo'.id = s.id
                /\ t.pid = hilo.pid /\ t.segmento_id = s.id /\ t.tamanio = s.limite
                /\ t.tamanio <= SWAP_BLOCK_SIZE
                /\ \A u \in tabla_swap : u.bloque # t.bloque
                /\ t \notin tabla_swap /\ tabla_swap' = tabla_swap \cup {t}
                /\ \A q, id : EnBloque(q, id)' <=> EnBloque(q, id) \/ (q = hilo.pid /\ id = s.id)
<1> DEFINE p == hilo.pid
<1>1. PICK s \in tabla_segmentos[p], b \in BloqueLibre :
            /\ ~EnBloque(p, s.id)
            /\ s.limite <= SWAP_BLOCK_SIZE
            /\ tabla_swap' = tabla_swap \cup
                   {[bloque |-> b, pid |-> p, segmento_id |-> s.id, tamanio |-> s.limite]}
            /\ hilo' = [op |-> "liberar", pid |-> p, id |-> s.id]
  BY DEF OcuparBloque
<1>2. /\ hilo.op = "suspender"
      /\ UNCHANGED <<lista_procesos, en_swap, perdidos, lista_huecos, memoria_libre_size,
                     memoria_total_size, tabla_segmentos, todos, cursor>>
  BY DEF OcuparBloque, procesos, contables, bucle
<1>3. p \in PIDS /\ p \in lista_procesos /\ ~en_swap[p] /\ p \notin perdidos
  BY <1>2, HiloTipo DEF Firme, RegistroFirme, RegistroBien, ConPid
<1> DEFINE n == [bloque |-> b, pid |-> p, segmento_id |-> s.id, tamanio |-> s.limite]
<1>4. n.pid = p /\ n.segmento_id = s.id /\ n.bloque = b /\ n.tamanio = s.limite
  OBVIOUS
<1>5. n \in BloqueSwap
  BY <1>3 DEF BloqueSwap, BloqueLibre, TypeOK, Segmento
<1>6. \A u \in tabla_swap : u.bloque # b
  BY DEF BloqueLibre
<1>7. tabla_swap' = tabla_swap \cup {n}
  BY <1>1
<1> HIDE DEF n
<1>8. n \notin tabla_swap
  BY <1>4, <1>6
<1>9. \A q, id : EnBloque(q, id)' <=> EnBloque(q, id) \/ (q = p /\ id = s.id)
  BY <1>4, <1>7 DEF EnBloque
<1>10. QED
  BY <1>1, <1>2, <1>3, <1>4, <1>5, <1>6, <1>7, <1>8, <1>9

LEMMA FirmeOcuparBloque ==
    ASSUME TypeOK, Firme, OcuparBloque
    PROVE  Firme'
<1> DEFINE p == hilo.pid
<1>0. TablasBien /\ RegistroFirme /\ BloquesBien /\ DentroBien
  BY DEF Firme
<1>1. /\ p \in PIDS /\ p \in lista_procesos /\ p \notin perdidos
      /\ ~en_swap[p] /\ hilo.op = "suspender" /\ hilo'.op = "liberar" /\ hilo'.pid = p
      /\ UNCHANGED <<lista_procesos, en_swap, perdidos, lista_huecos, memoria_libre_size,
                     memoria_total_size, tabla_segmentos>>
  BY OcuparHace
<1>2. PICK s \in tabla_segmentos[p], t \in BloqueSwap :
                /\ ~EnBloque(p, s.id) /\ hilo'.id = s.id
                /\ t.pid = p /\ t.segmento_id = s.id /\ t.tamanio = s.limite
                /\ t.tamanio <= SWAP_BLOCK_SIZE
                /\ \A u \in tabla_swap : u.bloque # t.bloque
                /\ tabla_swap' = tabla_swap \cup {t}
                /\ \A q, id : EnBloque(q, id)' <=> EnBloque(q, id) \/ (q = p /\ id = s.id)
  BY OcuparHace
<1>3. TablasBien' /\ DentroBien'
  BY <1>1, FirmeIgual
<1>4. RegistroFirme'
  <2>1. s.id \in Ids(p)' /\ EnBloque(p, s.id)'
    BY <1>1, <1>2 DEF Ids
  <2>2. QED
    BY <1>0, <1>1, <1>2, <2>1 DEF RegistroFirme, RegistroBien, ConPid
<1>5. BloquesBien'
  <2>1. \A u \in tabla_swap : <<u.pid, u.segmento_id>> # <<p, s.id>>
    BY <1>2 DEF EnBloque
  <2>2. \A u, v \in tabla_swap' :
            u # v => u.bloque # v.bloque /\ <<u.pid, u.segmento_id>> # <<v.pid, v.segmento_id>>
    BY <1>0, <1>2, <2>1 DEF BloquesBien
  <2>3. \A u \in tabla_swap' :
            /\ u.pid \in lista_procesos'
            /\ \/ en_swap'[u.pid] \/ u.pid \in perdidos'
               \/ hilo'.op \in {"suspender", "liberar"} /\ hilo'.pid = u.pid
            /\ u.tamanio <= SWAP_BLOCK_SIZE
            /\ \E w \in tabla_segmentos'[u.pid] : w.id = u.segmento_id /\ w.limite = u.tamanio
    BY <1>0, <1>1, <1>2 DEF BloquesBien
  <2>4. \A q \in lista_procesos' \ perdidos' :
            en_swap'[q] => \A w \in tabla_segmentos'[q] : EnBloque(q, w.id)'
    BY <1>0, <1>1, <1>2 DEF BloquesBien
  <2>5. QED
    BY <2>2, <2>3, <2>4 DEF BloquesBien
<1>6. QED
  BY <1>3, <1>4, <1>5 DEF Firme

LEMMA FirmeLiberarFisica ==
    ASSUME TypeOK, Firme, LiberarFisica
    PROVE  Firme'
<1>0. TablasBien /\ RegistroFirme /\ BloquesBien /\ DentroBien
  BY DEF Firme
<1> DEFINE p == hilo.pid
<1>1. PICK s \in tabla_segmentos[p] : s.id = hilo.id /\ LiberarSegmento(s)
  BY DEF LiberarFisica
<1>u. /\ hilo.op = "liberar" /\ hilo' = [op |-> "suspender", pid |-> p]
      /\ UNCHANGED <<lista_procesos, en_swap, perdidos, memoria_total_size, tabla_segmentos,
                     tabla_swap>>
  BY DEF LiberarFisica, procesos
<1>2. hilo'.op = "suspender" /\ hilo'.pid = p
  BY <1>u
<1>3. p \in PIDS
  BY <1>u, HiloTipo
<1>4. TablasBien'
  BY <1>0, <1>u DEF TablasBien
<1>5. RegistroFirme' /\ BloquesBien'
  BY <1>0, <1>2, <1>u DEF RegistroFirme, RegistroBien, BloquesBien, Ids, EnBloque, ConPid
<1>6. DentroBien'
  <2>1. \A h \in lista_huecos' : Fin(h) <= memoria_total_size
    BY <1>0, <1>1, <1>3, FirmeLiberarDentro
  <2>2. QED
    BY <1>0, <1>u, <2>1 DEF DentroBien
<1>7. QED
  BY <1>4, <1>5, <1>6 DEF Firme

\* What AsignarFisica does, by name.
LEMMA AsignarHace ==
    ASSUME TypeOK, Firme, AsignarFisica
    PROVE  /\ hilo.pid \in PIDS /\ en_swap[hilo.pid] /\ hilo.op = "desuspender"
           /\ hilo.pid \in lista_procesos /\ hilo.pid \notin perdidos
           /\ hilo'.op = "desocupar" /\ hilo'.pid = hilo.pid
           /\ UNCHANGED <<lista_procesos, en_swap, perdidos, memoria_total_size, tabla_swap, todos,
                          cursor>>
           /\ \E t \in ProximoBloque(hilo.pid), s \in tabla_segmentos[hilo.pid], r \in Segmento,
                 h \in Hueco :
                /\ h \in EncontrarHueco(lista_huecos, t.tamanio)
                /\ t \in tabla_swap /\ t.pid = hilo.pid /\ t.segmento_id = s.id
                /\ t.tamanio \in Nat \ {0} /\ s.limite = t.tamanio
                /\ r.id = s.id /\ r.base = h.base /\ r.limite = s.limite /\ hilo'.id = s.id
                /\ EnBloque(hilo.pid, s.id)
                /\ TomarHueco(h, t.tamanio)
                /\ \A w \in tabla_segmentos[hilo.pid] \ {s} : w.id # s.id
                /\ tabla_segmentos'[hilo.pid] = (tabla_segmentos[hilo.pid] \ {s}) \cup {r}
                /\ \A q \in PIDS : q # hilo.pid => tabla_segmentos'[q] = tabla_segmentos[q]
<1>0. TablasBien /\ RegistroFirme /\ BloquesBien
  BY DEF Firme
<1> DEFINE p == hilo.pid
<1>1. PICK t \in ProximoBloque(p) :
         \E s \in tabla_segmentos[p], h \in EncontrarHueco(lista_huecos, t.tamanio) :
            /\ s.id = t.segmento_id
            /\ tabla_segmentos' = [tabla_segmentos EXCEPT ![p] = (@ \ {s}) \cup {Reubicado(s, h.base)}]
            /\ TomarHueco(h, t.tamanio)
            /\ hilo' = [op |-> "desocupar", pid |-> p, id |-> s.id]
  BY DEF AsignarFisica
<1>2. PICK s \in tabla_segmentos[p], h \in EncontrarHueco(lista_huecos, t.tamanio) :
            /\ s.id = t.segmento_id
            /\ tabla_segmentos' = [tabla_segmentos EXCEPT ![p] = (@ \ {s}) \cup {Reubicado(s, h.base)}]
            /\ TomarHueco(h, t.tamanio)
            /\ hilo' = [op |-> "desocupar", pid |-> p, id |-> s.id]
  BY <1>1
<1> DEFINE r == Reubicado(s, h.base)
<1>u. /\ hilo.op = "desuspender"
      /\ UNCHANGED <<lista_procesos, en_swap, perdidos, memoria_total_size, tabla_swap, todos, cursor>>
  BY DEF AsignarFisica, procesos, bucle
<1>3. p \in PIDS /\ s \in Segmento /\ en_swap[p] /\ p \in lista_procesos /\ p \notin perdidos
  BY <1>0, <1>u, HiloTipo DEF TypeOK, RegistroFirme, RegistroBien, ConPid
<1>4. hilo'.op = "desocupar" /\ hilo'.pid = p /\ hilo'.id = s.id
  BY <1>2
<1>5. t \in tabla_swap /\ t.pid = p /\ t.tamanio \in Nat
  BY DEF ProximoBloque, TypeOK, BloqueSwap
<1>6. s.limite = t.tamanio /\ s.limite > 0 /\ EnBloque(p, s.id)
  <2>1. PICK w \in tabla_segmentos[p] : w.id = t.segmento_id /\ w.limite = t.tamanio
    BY <1>0, <1>5 DEF BloquesBien
  <2>2. w = s
    BY <1>0, <1>2, <1>3, <2>1 DEF TablasBien
  <2>3. QED
    BY <1>0, <1>2, <1>3, <1>5, <2>1, <2>2 DEF TablasBien, EnBloque
<1>7. h \in Hueco
  BY DEF EncontrarHueco, Elegido, Caben, TypeOK
<1>8. r \in Segmento /\ r.id = s.id /\ r.base = h.base /\ r.limite = s.limite
  BY <1>3, <1>7 DEF Reubicado, Segmento, Hueco
<1>9. tabla_segmentos' = [tabla_segmentos EXCEPT ![p] = (tabla_segmentos[p] \ {s}) \cup {r}]
  BY <1>2
<1> HIDE DEF r
<1>10. tabla_segmentos'[p] = (tabla_segmentos[p] \ {s}) \cup {r}
  BY <1>3, <1>9 DEF TypeOK
<1>11. \A q \in PIDS : q # p => tabla_segmentos'[q] = tabla_segmentos[q]
  BY <1>9 DEF TypeOK
<1>12. \A w \in tabla_segmentos[p] \ {s} : w.id # s.id
  BY <1>0, <1>3 DEF TablasBien
<1>13. t.tamanio \in Nat \ {0} /\ TomarHueco(h, t.tamanio)
  BY <1>2, <1>5, <1>6
<1>14. QED
  BY <1>2, <1>3, <1>4, <1>5, <1>6, <1>7, <1>8, <1>10, <1>11, <1>12, <1>13, <1>u

LEMMA FirmeAsignarFisica ==
    ASSUME TypeOK, Firme, AsignarFisica
    PROVE  Firme'
<1>0. TablasBien /\ RegistroFirme /\ BloquesBien /\ DentroBien
  BY DEF Firme
<1> DEFINE p == hilo.pid
<1>1. /\ p \in PIDS /\ en_swap[p] /\ hilo.op = "desuspender"
      /\ p \in lista_procesos /\ p \notin perdidos
      /\ hilo'.op = "desocupar" /\ hilo'.pid = p
      /\ UNCHANGED <<lista_procesos, en_swap, perdidos, memoria_total_size, tabla_swap>>
  BY AsignarHace
<1>2. PICK t \in ProximoBloque(p), s \in tabla_segmentos[p], r \in Segmento, h \in Hueco :
                /\ h \in EncontrarHueco(lista_huecos, t.tamanio)
                /\ t \in tabla_swap /\ t.pid = p /\ t.segmento_id = s.id
                /\ t.tamanio \in Nat \ {0} /\ s.limite = t.tamanio
                /\ r.id = s.id /\ r.base = h.base /\ r.limite = s.limite /\ hilo'.id = s.id
                /\ EnBloque(p, s.id)
                /\ TomarHueco(h, t.tamanio)
                /\ \A w \in tabla_segmentos[p] \ {s} : w.id # s.id
                /\ tabla_segmentos'[p] = (tabla_segmentos[p] \ {s}) \cup {r}
                /\ \A q \in PIDS : q # p => tabla_segmentos'[q] = tabla_segmentos[q]
  BY AsignarHace
<1> HIDE DEF p
<1>3. /\ h \in Hueco /\ h.base + t.tamanio <= memoria_total_size
      /\ \A g \in lista_huecos' : Fin(g) <= memoria_total_size
  BY <1>0, <1>2, FirmeTomarDentro
<1>4. \A q \in PIDS : \A v \in tabla_segmentos'[q] :
          v \in tabla_segmentos[q] \/ (q = p /\ v = r)
  BY <1>2
<1>5. TablasBien'
  <2>1. \A u, w \in tabla_segmentos'[p] : u.limite > 0 /\ (u.id = w.id => u = w)
    BY <1>0, <1>1, <1>2 DEF TablasBien
  <2>2. QED
    BY <1>0, <1>2, <2>1 DEF TablasBien
<1>6. \A q, id : EnBloque(q, id)' <=> EnBloque(q, id)
  BY <1>1 DEF EnBloque
<1>7. RegistroFirme'
  <2>1. s.id \in {w.id : w \in tabla_segmentos'[p]}
    BY <1>2
  <2>2. QED
    BY <1>0, <1>1, <1>2, <1>6, <2>1 DEF RegistroFirme, RegistroBien, Ids, ConPid
<1>8. BloquesBien'
  <2>1. ASSUME NEW q \in PIDS, NEW w \in tabla_segmentos[q]
        PROVE  \E v \in tabla_segmentos'[q] : v.id = w.id /\ v.limite = w.limite
    BY <1>2
  <2>2. \A v \in tabla_swap' :
            /\ v.pid \in lista_procesos'
            /\ \/ en_swap'[v.pid] \/ v.pid \in perdidos'
               \/ hilo'.op \in {"suspender", "liberar"} /\ hilo'.pid = v.pid
            /\ v.tamanio <= SWAP_BLOCK_SIZE
            /\ \E w \in tabla_segmentos'[v.pid] : w.id = v.segmento_id /\ w.limite = v.tamanio
    <3>1. SUFFICES ASSUME NEW v \in tabla_swap
                   PROVE  /\ v.pid \in lista_procesos /\ (en_swap[v.pid] \/ v.pid \in perdidos)
                          /\ v.tamanio <= SWAP_BLOCK_SIZE
                          /\ \E w \in tabla_segmentos'[v.pid] :
                                w.id = v.segmento_id /\ w.limite = v.tamanio
      BY <1>1
    <3>2. v.pid \in PIDS
      BY DEF TypeOK, BloqueSwap
    <3>3. PICK w \in tabla_segmentos[v.pid] : w.id = v.segmento_id /\ w.limite = v.tamanio
      BY <1>0 DEF BloquesBien
    <3>4. \E w2 \in tabla_segmentos'[v.pid] : w2.id = w.id /\ w2.limite = w.limite
      BY <2>1, <3>2
    <3>5. QED
      BY <1>0, <1>1, <3>3, <3>4 DEF BloquesBien
  <2>3. \A q \in lista_procesos' \ perdidos' :
            en_swap'[q] /\ q # p => \A v \in tabla_segmentos'[q] : EnBloque(q, v.id)'
    BY <1>0, <1>1, <1>2, <1>6 DEF BloquesBien, TypeOK, p
  <2>4. \A v, w \in tabla_swap' :
            v # w => v.bloque # w.bloque /\ <<v.pid, v.segmento_id>> # <<w.pid, w.segmento_id>>
    BY <1>0, <1>1 DEF BloquesBien
  <2>5. QED
    BY <1>1, <2>2, <2>3, <2>4 DEF BloquesBien
<1>9. DentroBien'
  <2>1. Fin(r) <= memoria_total_size
    BY <1>2, <1>3 DEF Fin
  <2>2. QED
    BY <1>0, <1>1, <1>3, <1>4, <2>1 DEF DentroBien
<1>10. QED
  BY <1>5, <1>7, <1>8, <1>9 DEF Firme

LEMMA FirmeDesocupar ==
    ASSUME TypeOK, Firme, DesocuparBloque
    PROVE  Firme'
<1>0. TablasBien /\ RegistroFirme /\ BloquesBien
  BY DEF Firme
<1> DEFINE p == hilo.pid
<1>u. /\ hilo.op = "desocupar" /\ hilo' = [op |-> "desuspender", pid |-> p]
      /\ tabla_swap' = {t \in tabla_swap : t.pid # p \/ t.segmento_id # hilo.id}
      /\ UNCHANGED <<lista_procesos, en_swap, perdidos, lista_huecos, memoria_total_size,
                     memoria_libre_size, tabla_segmentos>>
  BY DEF DesocuparBloque, procesos, contables
<1>1. hilo'.op = "desuspender" /\ hilo'.pid = p
  BY <1>u
<1>2. p \in PIDS /\ en_swap[p]
  BY <1>0, <1>u, HiloTipo DEF RegistroFirme, RegistroBien
<1>3. TablasBien' /\ DentroBien'
  BY <1>u, FirmeIgual
<1>4. RegistroFirme'
  BY <1>0, <1>1, <1>2, <1>u DEF RegistroFirme, RegistroBien, ConPid
<1>5. \A q, id : EnBloque(q, id)' <=> EnBloque(q, id) /\ ~(q = p /\ id = hilo.id)
  BY <1>u DEF EnBloque
<1>6. BloquesBien'
  BY <1>0, <1>1, <1>5, <1>u DEF BloquesBien
<1>7. QED
  BY <1>3, <1>4, <1>6 DEF Firme

\* One turn of the loop of compactar, by name: a segment goes to the cursor, or stays.
LEMMA MoverHace ==
    ASSUME TypeOK, Firme, MoverSegmento
    PROVE  /\ hilo.op = "compactar"
           /\ UNCHANGED <<lista_procesos, en_swap, perdidos, lista_huecos, memoria_libre_size,
                          memoria_total_size, tabla_swap, hilo>>
           /\ \E x \in todos, r \in Segmento :
                /\ \A y \in todos : x[2].base <= y[2].base
                /\ todos' = todos \ {x}
                /\ x[1] \in PIDS /\ x[2] \in Segmento /\ x = <<x[1], x[2]>>
                /\ r.id = x[2].id /\ r.base = cursor /\ r.limite = x[2].limite
                /\ IF Movible(x[2])
                   THEN /\ cursor' = cursor + x[2].limite
                        /\ tabla_segmentos'[x[1]] = (tabla_segmentos[x[1]] \ {x[2]}) \cup {r}
                        /\ \A q \in PIDS : q # x[1] => tabla_segmentos'[q] = tabla_segmentos[q]
                   ELSE UNCHANGED <<tabla_segmentos, cursor>>
<1>1. PICK x \in MasALaIzquierda :
            /\ todos' = todos \ {x}
            /\ IF Movible(x[2])
               THEN /\ tabla_segmentos' = [tabla_segmentos EXCEPT ![x[1]] =
                           (@ \ {x[2]}) \cup {Reubicado(x[2], cursor)}]
                    /\ cursor' = cursor + x[2].limite
               ELSE UNCHANGED <<tabla_segmentos, cursor>>
  BY DEF MoverSegmento
<1>2. /\ hilo.op = "compactar"
      /\ UNCHANGED <<lista_procesos, en_swap, perdidos, lista_huecos, memoria_libre_size,
                     memoria_total_size, tabla_swap, hilo>>
  BY DEF MoverSegmento, procesos, contables
<1>3. /\ x \in todos /\ \A y \in todos : x[2].base <= y[2].base
      /\ x[1] \in PIDS /\ x[2] \in Segmento /\ x = <<x[1], x[2]>>
  BY DEF MasALaIzquierda, TypeOK
<1> DEFINE r == Reubicado(x[2], cursor)
<1>4. r \in Segmento /\ r.id = x[2].id /\ r.base = cursor /\ r.limite = x[2].limite
  BY <1>3 DEF Reubicado, Segmento, TypeOK
<1> HIDE DEF r
<1>5. ASSUME Movible(x[2])
      PROVE  /\ tabla_segmentos'[x[1]] = (tabla_segmentos[x[1]] \ {x[2]}) \cup {r}
             /\ \A q \in PIDS : q # x[1] => tabla_segmentos'[q] = tabla_segmentos[q]
  <2>1. tabla_segmentos' =
            [tabla_segmentos EXCEPT ![x[1]] = (tabla_segmentos[x[1]] \ {x[2]}) \cup {r}]
    BY <1>1, <1>5 DEF r
  <2>2. QED
    BY <1>3, <2>1 DEF TypeOK
<1>6. QED
  BY <1>1, <1>2, <1>3, <1>4, <1>5

LEMMA FirmeMover ==
    ASSUME TypeOK, Firme, PendientesBien, MoverSegmento
    PROVE  Firme' /\ PendientesBien'
<1>0. TablasBien /\ RegistroFirme /\ BloquesBien /\ DentroBien
  BY DEF Firme
<1>1. /\ hilo.op = "compactar"
      /\ UNCHANGED <<lista_procesos, en_swap, perdidos, lista_huecos, memoria_libre_size,
                     memoria_total_size, tabla_swap, hilo>>
  BY MoverHace
<1>2. PICK x \in todos, r \in Segmento :
                /\ todos' = todos \ {x}
                /\ x[1] \in PIDS /\ x[2] \in Segmento /\ x = <<x[1], x[2]>>
                /\ r.id = x[2].id /\ r.base = cursor /\ r.limite = x[2].limite
                /\ IF Movible(x[2])
                   THEN /\ cursor' = cursor + x[2].limite
                        /\ tabla_segmentos'[x[1]] = (tabla_segmentos[x[1]] \ {x[2]}) \cup {r}
                        /\ \A q \in PIDS : q # x[1] => tabla_segmentos'[q] = tabla_segmentos[q]
                   ELSE UNCHANGED <<tabla_segmentos, cursor>>
  BY MoverHace
<1>3. /\ x[2] \in tabla_segmentos[x[1]] /\ x[1] \in lista_procesos
      /\ \A y \in todos : /\ y[2] \in tabla_segmentos[y[1]] /\ y[1] \in lista_procesos
                          /\ ~en_swap[y[1]] /\ y[1] \in PIDS /\ y = <<y[1], y[2]>>
  BY <1>1 DEF PendientesBien, TypeOK
<1>4. CASE ~Movible(x[2])
  <2>1. TablasBien' /\ DentroBien'
    BY <1>1, <1>2, <1>4, FirmeIgual
  <2>2. RegistroFirme' /\ BloquesBien'
    BY <1>0, <1>1, <1>2, <1>4 DEF RegistroFirme, RegistroBien, BloquesBien, Ids, EnBloque, ConPid
  <2>3. PendientesBien'
    BY <1>1, <1>2, <1>4 DEF PendientesBien
  <2>4. QED
    BY <2>1, <2>2, <2>3 DEF Firme
<1>5. CASE Movible(x[2])
  <2> DEFINE p == x[1]
             s == x[2]
  <2>1. /\ p \in PIDS /\ s \in tabla_segmentos[p] /\ r.id = s.id /\ r.base = cursor
        /\ r.limite = s.limite /\ p \in lista_procesos /\ x = <<p, s>>
        /\ tabla_segmentos'[p] = (tabla_segmentos[p] \ {s}) \cup {r}
        /\ \A q \in PIDS : q # p => tabla_segmentos'[q] = tabla_segmentos[q]
    BY <1>2, <1>3, <1>5
  <2>2. Fin(r) <= memoria_total_size
    <3>1. Fin(s) <= memoria_total_size /\ s.limite \in Nat /\ cursor \in Nat
      BY <1>0, <1>2, <2>1 DEF DentroBien, Segmento, TypeOK
    <3>2. QED
      BY <1>5, <2>1, <3>1 DEF Movible, EnSticks, Fin
  <2> HIDE DEF p, s
  <2>3. \A q \in PIDS : \A v \in tabla_segmentos'[q] : v \in tabla_segmentos[q] \/ v = r
    BY <2>1
  <2>4. TablasBien'
    <3>1. \A u, w \in tabla_segmentos'[p] : u.limite > 0 /\ (u.id = w.id => u = w)
      BY <1>0, <2>1 DEF TablasBien
    <3>2. QED
      BY <1>0, <2>1, <3>1 DEF TablasBien
  <2>5. RegistroFirme'
    BY <1>0, <1>1, <2>1 DEF RegistroFirme, RegistroBien, Ids, EnBloque, ConPid
  <2>6. BloquesBien'
    <3>1. ASSUME NEW q \in PIDS, NEW w \in tabla_segmentos[q]
          PROVE  \E v \in tabla_segmentos'[q] : v.id = w.id /\ v.limite = w.limite
      BY <2>1
    <3>2. ASSUME NEW q \in PIDS, NEW v \in tabla_segmentos'[q]
          PROVE  \E w \in tabla_segmentos[q] : v.id = w.id
      BY <2>1
    <3>3. ASSUME NEW t \in tabla_swap
          PROVE  \E w \in tabla_segmentos'[t.pid] : w.id = t.segmento_id /\ w.limite = t.tamanio
      <4>1. t.pid \in PIDS
        BY DEF TypeOK, BloqueSwap
      <4>2. PICK w \in tabla_segmentos[t.pid] : w.id = t.segmento_id /\ w.limite = t.tamanio
        BY <1>0 DEF BloquesBien
      <4>3. QED
        BY <3>1, <4>1, <4>2
    <3>4. ASSUME NEW q \in lista_procesos \ perdidos, en_swap[q], NEW v \in tabla_segmentos'[q]
          PROVE  EnBloque(q, v.id)
      <4>1. q \in PIDS
        BY DEF TypeOK
      <4>2. PICK w \in tabla_segmentos[q] : v.id = w.id
        BY <3>2, <4>1
      <4>3. QED
        BY <1>0, <1>1, <3>4, <4>2 DEF BloquesBien
    <3>5. QED
      BY <1>0, <1>1, <3>3, <3>4 DEF BloquesBien, EnBloque
  <2>7. DentroBien'
    BY <1>0, <1>1, <2>2, <2>3 DEF DentroBien
  <2>8. PendientesBien'
    <3>1. SUFFICES ASSUME NEW y \in todos, y # x PROVE y[2] \in tabla_segmentos'[y[1]]
      BY <1>1, <1>2, <1>3 DEF PendientesBien
    <3>2. QED
      BY <1>3, <2>1, <3>1
  <2>9. QED
    BY <2>4, <2>5, <2>6, <2>7, <2>8 DEF Firme
<1>6. QED
  BY <1>4, <1>5

\* The list compactar sorted is written only at its start.
LEMMA PendientesPaso ==
    ASSUME TypeOK, Firme, PendientesBien, Next, ~MoverSegmento
    PROVE  PendientesBien'
<1>1. CASE IniciarCompactacion
  BY <1>1 DEF IniciarCompactacion, ACompactar, Segmentos, PendientesBien, procesos
<1>2. CASE hilo.op = "compactar"
  <2>1. hilo # Ocioso
    BY <1>2 DEF Ocioso
  <2>2. TerminarCompactacion
    BY <1>2, <2>1 DEF Next, Continuar, InicializarProceso, IniciarFin, FinEnSwap,
         IniciarSuspension, IniciarDesuspension, EliminarSegmento, CrearSegmento,
         PedirCompactacion, Solicitable, IniciarCompactacion, LiberarDeMuerto, TerminarFin,
         OcuparBloque, LiberarFisica, TerminarSuspension, FallarSuspension, AsignarFisica,
         DesocuparBloque, TerminarDesuspension, FallarDesuspension, AgregarStick, Atendible
  <2>3. QED
    BY <2>2 DEF TerminarCompactacion, PendientesBien, Ocioso
<1>3. CASE hilo.op # "compactar" /\ ~IniciarCompactacion
  <2> SUFFICES hilo'.op # "compactar"
    BY DEF PendientesBien
  <2>1. ASSUME NEW p \in PIDS,
               InicializarProceso(p) \/ IniciarFin(p) \/ FinEnSwap(p) \/ IniciarSuspension(p)
                   \/ IniciarDesuspension(p)
        PROVE  hilo'.op # "compactar"
    BY <1>3, <2>1 DEF InicializarProceso, IniciarFin, FinEnSwap, IniciarSuspension,
                      IniciarDesuspension
  <2>2. ASSUME NEW p \in PIDS, NEW id \in IDS, EliminarSegmento(p, id)
        PROVE  hilo'.op # "compactar"
    BY <1>3, <2>2 DEF EliminarSegmento
  <2>3. ASSUME NEW p \in PIDS, NEW id \in IDS, NEW tamanio \in TAMANIOS,
               CrearSegmento(p, id, tamanio) \/ PedirCompactacion(p, id, tamanio)
        PROVE  hilo'.op # "compactar"
    BY <1>3, <2>3 DEF CrearSegmento, PedirCompactacion
  <2>4. CASE Continuar
    <3>1. CASE LiberarDeMuerto \/ TerminarFin \/ OcuparBloque \/ LiberarFisica
      BY <1>3, <3>1 DEF LiberarDeMuerto, TerminarFin, OcuparBloque, LiberarFisica, Ocioso
    <3>2. CASE TerminarSuspension \/ FallarSuspension \/ AsignarFisica \/ DesocuparBloque
      BY <3>2 DEF TerminarSuspension, FallarSuspension, AsignarFisica, DesocuparBloque, Ocioso
    <3>3. CASE TerminarDesuspension \/ FallarDesuspension \/ MoverSegmento \/ TerminarCompactacion
      BY <1>3, <3>3 DEF TerminarDesuspension, FallarDesuspension, MoverSegmento,
                        TerminarCompactacion, Ocioso
    <3>4. QED
      BY <2>4, <3>1, <3>2, <3>3 DEF Continuar
  <2>5. ASSUME NEW tamanio \in STICKS, AgregarStick(tamanio)
        PROVE  hilo'.op # "compactar"
    BY <1>3, <2>5 DEF AgregarStick
  <2>6. QED
    BY <1>3, <2>1, <2>2, <2>3, <2>4, <2>5 DEF Next
<1>4. QED
  BY <1>1, <1>2, <1>3

LEMMA FirmeInicial == Init => InvFirme
  BY DEF Init, InvFirme, Firme, TablasBien, RegistroFirme, RegistroBien, BloquesBien, DentroBien,
         PendientesBien, Ids, Ocioso, ConPid

\* InvFirme is inductive.
LEMMA FirmePaso == TypeOK /\ InvFirme /\ [Next]_vars => InvFirme'
<1> SUFFICES ASSUME TypeOK, InvFirme, [Next]_vars PROVE InvFirme'
  OBVIOUS
<1>0. Firme /\ PendientesBien
  BY DEF InvFirme
<1>1. CASE UNCHANGED vars
  BY <1>0, <1>1 DEF vars, InvFirme, Firme, TablasBien, RegistroFirme, RegistroBien, BloquesBien,
         DentroBien, PendientesBien, Ids, EnBloque
<1>2. CASE Next /\ ~MoverSegmento
  <2>1. PendientesBien'
    BY <1>0, <1>2, PendientesPaso
  <2>2. Firme'
    BY <1>0, <1>2, FirmeInicializar, FirmeIniciarFin, FirmeTerminarFin, FirmeIniciarSuspension,
       FirmeTerminarSuspension, FirmeFallarSuspension, FirmeIniciarDesuspension,
       FirmeTerminarDesuspension, FirmeFallarDesuspension, FirmePedirCompactacion,
       FirmeIniciarCompactacion, FirmeTerminarCompactacion, FirmeAgregarStick, FirmeCrear,
       FirmeEliminar, FirmeLiberarDeMuerto, FirmeFinEnSwap, FirmeOcuparBloque,
       FirmeLiberarFisica, FirmeAsignarFisica, FirmeDesocupar
       DEF Next, Continuar
  <2>3. QED
    BY <2>1, <2>2 DEF InvFirme
<1>3. CASE MoverSegmento
  BY <1>0, <1>3, FirmeMover DEF InvFirme
<1>4. QED
  BY <1>1, <1>2, <1>3

\* Whatever fails, the tables, the flags en_swap, the swap blocks and the list a compaction works
\* through stay together: a block belongs to one listed process and to one of its segments with
\* its size, a process in swap that was not given up has all of its own, and no hole or segment
\* passes the end of the memory (swap_gestor.c, compactacion.c, segmentacion.c).
THEOREM RegistroCorrecto == Spec => []InvFirme
<1>1. TypeOK /\ InvFirme /\ [Next]_vars => InvFirme'
  BY FirmePaso
<1>2. QED
  BY <1>1, FirmeInicial, TipoCorrecto, PTL DEF Spec

-----------------------------------------------------------------------------
(* The places, when only resumptions fail: one lemma per operation.        *)

\* What a live segment is.
LEMMA VivosTipo ==
    ASSUME TypeOK, Firme
    PROVE  /\ Vivos \in SUBSET (PIDS \X Segmento)
           /\ \A x \in Vivos : /\ x[1] \in PIDS /\ x[2] \in Segmento /\ x = <<x[1], x[2]>>
                               /\ x[2].base \in Nat /\ x[2].limite \in Nat /\ x[2].limite > 0
                               /\ Fin(x[2]) <= memoria_total_size
           /\ \A p \in PIDS, s \in Segmento :
                <<p, s>> \in Vivos <=>
                    p \notin perdidos /\ s \in tabla_segmentos[p] /\ EnMemoria(p, s.id)
<1>1. \A p \in PIDS, s \in Segmento :
                <<p, s>> \in Vivos <=>
                    p \notin perdidos /\ s \in tabla_segmentos[p] /\ EnMemoria(p, s.id)
  BY ResidentesDef DEF Vivos
<1>2. Vivos \in SUBSET (PIDS \X Segmento)
  BY ResidentesDef DEF Vivos
<1>3. \A x \in Vivos : x[1] \in PIDS /\ x[2] \in Segmento /\ x = <<x[1], x[2]>>
  BY <1>2
<1>4. \A x \in Vivos : x[2] \in tabla_segmentos[x[1]]
  BY <1>1, <1>3
<1>5. \A x \in Vivos : /\ x[2].base \in Nat /\ x[2].limite \in Nat /\ x[2].limite > 0
                       /\ Fin(x[2]) <= memoria_total_size
  BY <1>3, <1>4 DEF Segmento, Firme, TablasBien, DentroBien
<1>6. QED
  BY <1>1, <1>2, <1>3, <1>5

\* And after the step.
LEMMA VivosTipoPrima ==
    ASSUME TypeOK', Firme'
    PROVE  /\ Vivos' \in SUBSET (PIDS \X Segmento)
           /\ \A x \in Vivos' : /\ x[1] \in PIDS /\ x[2] \in Segmento /\ x = <<x[1], x[2]>>
                               /\ x[2].base \in Nat /\ x[2].limite \in Nat /\ x[2].limite > 0
                               /\ Fin(x[2]) <= memoria_total_size'
           /\ \A p \in PIDS, s \in Segmento :
                <<p, s>> \in Vivos' <=>
                    p \notin perdidos' /\ s \in tabla_segmentos'[p] /\ EnMemoria(p, s.id)'
<1>1. \A p \in PIDS, s \in Segmento :
                <<p, s>> \in Vivos' <=>
                    p \notin perdidos' /\ s \in tabla_segmentos'[p] /\ EnMemoria(p, s.id)'
  BY ResidentesDefPrima DEF Vivos
<1>2. Vivos' \in SUBSET (PIDS \X Segmento)
  BY ResidentesDefPrima DEF Vivos
<1>3. \A x \in Vivos' : x[1] \in PIDS /\ x[2] \in Segmento /\ x = <<x[1], x[2]>>
  BY <1>2
<1>4. \A x \in Vivos' : x[2] \in tabla_segmentos'[x[1]]
  BY <1>1, <1>3
<1>5. \A x \in Vivos' : /\ x[2].base \in Nat /\ x[2].limite \in Nat /\ x[2].limite > 0
                       /\ Fin(x[2]) <= memoria_total_size'
  BY <1>3, <1>4 DEF Segmento, Firme, TablasBien, DentroBien
<1>6. QED
  BY <1>1, <1>2, <1>3, <1>5

\* Nobody new lives after a step that says so pair by pair.
LEMMA VivosPorPares ==
    ASSUME TypeOK', Firme', NEW R,
           \A q \in PIDS, v \in Segmento :
               q \notin perdidos' /\ v \in tabla_segmentos'[q] /\ EnMemoria(q, v.id)'
                   => <<q, v>> \in R
    PROVE  Vivos' \subseteq R
  BY VivosTipoPrima

\* Tables and blocks as they were: no live segment is new.
LEMMA VivosIgual ==
    ASSUME TypeOK, TypeOK', UNCHANGED <<tabla_segmentos, tabla_swap>>, perdidos \subseteq perdidos',
           \/ UNCHANGED hilo
           \/ /\ hilo.op \notin {"liberar", "desocupar"}
              /\ hilo'.op \notin {"liberar", "desocupar"}
    PROVE  Vivos' \subseteq Vivos
  BY ResidentesIgual DEF Vivos

-----------------------------------------------------------------------------
(* What a step does to the map of the living.                              *)

\* Nothing new to place.
LEMMA LugarQuieto ==
    ASSUME LugarBien, hilo.op # "compactar", hilo'.op # "compactar", Vivos' \subseteq Vivos,
           UNCHANGED <<lista_huecos, memoria_total_size>>, \A p \in perdidos' : en_swap'[p]
    PROVE  LugarBien'
  BY DEF LugarBien, Sueltos, Apartados

\* A range nobody living has goes to the list of holes.
LEMMA LugarInserta ==
    ASSUME TypeOK, TypeOK', Firme', hilo'.op # "compactar", \A p \in perdidos' : en_swap'[p],
           NEW n \in Hueco, n.limite > 0, Fin(n) <= memoria_total_size',
           Fusionados(lista_huecos, memoria_total_size'),
           \A h \in lista_huecos : Disjuntos(h, n),
           lista_huecos' = InsertarYFusionar(lista_huecos, n),
           Sueltos',
           \A h \in lista_huecos, x \in Vivos' : Disjuntos(h, x[2]),
           \A x \in Vivos' : Disjuntos(n, x[2])
    PROVE  LugarBien'
<1> DEFINE hs2 == InsertarYFusionar(lista_huecos, n)
<1>0. lista_huecos \in SUBSET Hueco /\ memoria_total_size' \in Nat
  BY DEF TypeOK
<1>1. /\ hs2 \in SUBSET Hueco /\ Fusionados(hs2, memoria_total_size')
      /\ \A dir \in Int : (\E g \in hs2 : Contiene(g, dir)) <=>
             Contiene(n, dir) \/ \E g \in lista_huecos : Contiene(g, dir)
  BY <1>0, InsertarTipo, InsertarHueco
<1> HIDE DEF hs2
<1>2. ASSUME NEW h \in hs2, NEW x \in Vivos' PROVE Disjuntos(h, x[2])
  <2>1. /\ h.base \in Nat /\ h.limite \in Nat /\ h.limite > 0
        /\ x[2].base \in Nat /\ x[2].limite \in Nat /\ x[2].limite > 0
    BY <1>1, VivosTipoPrima DEF Hueco, Fusionados
  <2>2. ASSUME NEW dir \in Nat, Contiene(h, dir), Contiene(x[2], dir) PROVE FALSE
    <3>1. Contiene(n, dir) \/ \E g \in lista_huecos : Contiene(g, dir)
      BY <1>1, <2>2
    <3>2. PICK g \in lista_huecos \cup {n} : Contiene(g, dir)
      BY <3>1
    <3>3. g.base \in Nat /\ g.limite \in Nat /\ Disjuntos(g, x[2])
      BY <1>0 DEF Hueco
    <3>4. QED
      BY <2>1, <2>2, <3>2, <3>3 DEF Disjuntos, Contiene, Fin
  <2>3. QED
    BY <2>1, <2>2, ApartePorBytes
<1>3. Apartados'
  BY <1>2 DEF Apartados, hs2
<1>4. QED
  BY <1>1, <1>3 DEF LugarBien, hs2

\* A live segment is released.
LEMMA LugarLibera ==
    ASSUME TypeOK, TypeOK', Firme, Firme', LugarBien, hilo.op # "compactar", hilo'.op # "compactar",
           \A p \in perdidos' : en_swap'[p],
           NEW x0 \in Vivos, Vivos' \subseteq Vivos \ {x0},
           LiberarSegmento(x0[2]), UNCHANGED memoria_total_size
    PROVE  LugarBien'
<1> DEFINE n == [base |-> x0[2].base, limite |-> x0[2].limite]
<1>1. /\ x0[2].base \in Nat /\ x0[2].limite \in Nat /\ x0[2].limite > 0
      /\ Fin(x0[2]) <= memoria_total_size
  BY VivosTipo
<1>2. /\ n \in Hueco /\ n.base = x0[2].base /\ n.limite = x0[2].limite /\ Fin(n) = Fin(x0[2])
  BY <1>1 DEF Hueco, Fin
<1>3. lista_huecos' = InsertarYFusionar(lista_huecos, n)
  BY DEF LiberarSegmento
<1> HIDE DEF n
<1>4. Sueltos /\ Fusionados(lista_huecos, memoria_total_size) /\ Apartados
  BY DEF LugarBien
<1>5. \A h \in lista_huecos : Disjuntos(h, n)
  BY <1>2, <1>4 DEF Apartados, Disjuntos
<1>6. Sueltos' /\ \A h \in lista_huecos, x \in Vivos' : Disjuntos(h, x[2])
  BY <1>4 DEF Sueltos, Apartados
<1>7. \A x \in Vivos' : Disjuntos(n, x[2])
  <2>1. \A x \in Vivos' : Disjuntos(x0[2], x[2])
    BY <1>4 DEF Sueltos
  <2>2. QED
    BY <1>2, <2>1 DEF Disjuntos
<1>8. QED
  BY <1>1, <1>2, <1>3, <1>4, <1>5, <1>6, <1>7, LugarInserta

\* The first bytes of a hole go to a segment.
LEMMA LugarToma ==
    ASSUME TypeOK, TypeOK', Firme, Firme', LugarBien, hilo.op # "compactar", hilo'.op # "compactar",
           \A p \in perdidos' : en_swap'[p],
           NEW tamanio \in Nat \ {0}, NEW h \in EncontrarHueco(lista_huecos, tamanio),
           TomarHueco(h, tamanio), UNCHANGED memoria_total_size,
           NEW y \in PIDS \X Segmento, y[2].base = h.base, y[2].limite = tamanio,
           Vivos' \subseteq Vivos \cup {y}
    PROVE  LugarBien'
<1> DEFINE hs == lista_huecos
           hs2 == Achicar(hs, h, tamanio)
<1>0. /\ hs \in SUBSET Hueco /\ memoria_total_size \in Nat /\ lista_huecos' = hs2
      /\ h \in Caben(hs, tamanio)
  BY DEF TypeOK, TomarHueco, EncontrarHueco, Elegido
<1>1. /\ h \in hs /\ h.base \in Nat /\ h.limite \in Nat /\ h.limite >= tamanio
  BY <1>0 DEF Caben, Hueco
<1>2. Sueltos /\ Fusionados(hs, memoria_total_size) /\ Apartados
  BY DEF LugarBien
<1>3. hs2 \in SUBSET Hueco /\ Fusionados(hs2, memoria_total_size)
  BY <1>0, <1>2, AchicarTipo, AchicarFusionados
<1>4. \A dir \in Int : (\E g \in hs2 : Contiene(g, dir)) <=>
          /\ \E g \in hs : Contiene(g, dir)
          /\ ~(h.base <= dir /\ dir < h.base + tamanio)
  <2>1. tamanio \in Nat /\ hs \in SUBSET Hueco /\ memoria_total_size \in Nat
        /\ Fusionados(hs, memoria_total_size) /\ h \in Caben(hs, tamanio)
    BY <1>0, <1>2
  <2> HIDE DEF hs
  <2>2. QED
    BY <2>1, AchicarBytes, Zenon
<1>5. \A x \in Vivos : x[2].base \in Nat /\ x[2].limite \in Nat /\ x[2].limite > 0
  BY VivosTipo
<1> HIDE DEF hs2
<1>6. \A x \in Vivos : Disjuntos(y[2], x[2]) /\ Disjuntos(x[2], y[2])
  BY <1>1, <1>2, <1>5 DEF Apartados, Fin, Disjuntos
<1>7. Sueltos'
  BY <1>2, <1>6 DEF Sueltos
<1>8. ASSUME NEW g \in hs2, NEW x \in Vivos \cup {y} PROVE Disjuntos(g, x[2])
  <2>1. /\ g.base \in Nat /\ g.limite \in Nat /\ g.limite > 0
        /\ x[2].base \in Nat /\ x[2].limite \in Nat /\ x[2].limite > 0
    BY <1>1, <1>3, <1>5 DEF Hueco, Fusionados
  <2>2. ASSUME NEW dir \in Nat, Contiene(g, dir), Contiene(x[2], dir) PROVE FALSE
    <3>1. PICK k \in hs : Contiene(k, dir) /\ ~(h.base <= dir /\ dir < h.base + tamanio)
      BY <1>4, <2>2
    <3>2. x \in Vivos /\ k.base \in Nat /\ k.limite \in Nat
      BY <1>0, <1>1, <2>2, <3>1 DEF Hueco, Contiene, Fin
    <3>3. Disjuntos(k, x[2])
      BY <1>2, <3>1, <3>2 DEF Apartados
    <3>4. QED
      BY <2>1, <2>2, <3>1, <3>2, <3>3 DEF Disjuntos, Contiene, Fin
  <2>3. QED
    BY <2>1, <2>2, ApartePorBytes
<1>9. Apartados'
  BY <1>0, <1>8 DEF Apartados
<1>10. QED
  BY <1>0, <1>3, <1>7, <1>9 DEF LugarBien

\* The operations, one by one.
LEMMA LugarStick ==
    ASSUME TypeOK, TypeOK', Firme, Firme', LugarBien, NEW tamanio \in STICKS, AgregarStick(tamanio)
    PROVE  LugarBien'
<1> USE DEF AgregarStick, procesos, bucle
<1>1. Vivos' \subseteq Vivos
  BY VivosIgual
<1>2. tamanio \in Nat /\ tamanio > 0 /\ memoria_total_size \in Nat
  BY TamaniosAssumption DEF TypeOK
<1> DEFINE n == [base |-> memoria_total_size, limite |-> tamanio]
<1>3. /\ n \in Hueco /\ n.base = memoria_total_size /\ n.limite = tamanio
      /\ Fin(n) = memoria_total_size + tamanio
  BY <1>2 DEF Hueco, Fin
<1>4. lista_huecos' = InsertarYFusionar(lista_huecos, n)
  OBVIOUS
<1> HIDE DEF n
<1>5. /\ Sueltos /\ Fusionados(lista_huecos, memoria_total_size) /\ Apartados
      /\ hilo'.op # "compactar" /\ \A p \in perdidos' : en_swap'[p]
  BY DEF LugarBien
<1>6. \A h \in lista_huecos : h.base \in Nat /\ h.limite \in Nat
  BY DEF TypeOK, Hueco
<1>7. /\ Fusionados(lista_huecos, memoria_total_size')
      /\ \A h \in lista_huecos : Disjuntos(h, n)
  BY <1>2, <1>3, <1>5, <1>6 DEF Fusionados, Disjuntos, Fin
<1>8. \A x \in Vivos' : Disjuntos(n, x[2])
  BY <1>1, <1>3, VivosTipo DEF Disjuntos
<1>9. Sueltos' /\ \A h \in lista_huecos, x \in Vivos' : Disjuntos(h, x[2])
  BY <1>1, <1>5 DEF Sueltos, Apartados
<1>10. n.limite > 0 /\ Fin(n) <= memoria_total_size'
  BY <1>2, <1>3
<1>11. QED
  BY <1>3, <1>4, <1>5, <1>7, <1>8, <1>9, <1>10, LugarInserta

LEMMA LugarIniciarCompactacion ==
    ASSUME TypeOK, TypeOK', Firme, Firme', LugarBien, IniciarCompactacion
    PROVE  LugarBien'
<1>1. /\ hilo.op = "desalojar" /\ hilo'.op = "compactar" /\ todos' = ACompactar /\ cursor' = 0
      /\ UNCHANGED <<lista_procesos, en_swap, perdidos, tabla_segmentos, tabla_swap,
                     lista_huecos, memoria_total_size>>
  BY DEF IniciarCompactacion, procesos, contables
<1>2. \A q, id : EnMemoria(q, id)' <=> EnMemoria(q, id)
  BY <1>1 DEF EnMemoria, EnBloque
<1>3. Vivos' = Vivos
  BY <1>1, <1>2 DEF Vivos, Residentes, Segmentos
<1>4. Sueltos' /\ \A p \in perdidos' : en_swap'[p]
  BY <1>1, <1>3 DEF LugarBien, Sueltos
<1>5. todos' \subseteq Vivos
  <2>1. SUFFICES ASSUME NEW x \in ACompactar PROVE x \in Vivos
    BY <1>1
  <2>2. /\ x \in Segmentos /\ x[1] \in PIDS /\ ~en_swap[x[1]] /\ x[2] \in tabla_segmentos[x[1]]
    BY DEF ACompactar, Segmentos
  <2>3. x[1] \notin perdidos
    BY <2>2 DEF LugarBien
  <2>4. \A t \in tabla_swap : t.pid # x[1]
    BY <1>1, <2>2, <2>3, FirmeSinBloques
  <2>5. EnMemoria(x[1], x[2].id)
    BY <2>4 DEF EnMemoria, EnBloque
  <2>6. QED
    BY <2>2, <2>3, <2>5 DEF Vivos, Residentes
<1>6. \A x \in todos' : 0 <= x[2].base
  BY <1>5, VivosTipo
<1>7. Vivos \subseteq todos'
  <2>1. SUFFICES ASSUME NEW x \in Vivos PROVE x \in ACompactar
    BY <1>1
  <2>2. /\ x \in Segmentos /\ x[1] \in PIDS /\ x[2] \in tabla_segmentos[x[1]]
        /\ x[1] \notin perdidos /\ EnMemoria(x[1], x[2].id)
    BY DEF Vivos, Residentes, Segmentos
  <2>3. x[1] \in lista_procesos
    BY <1>1, <2>2 DEF Firme, RegistroFirme, RegistroBien
  <2>4. ~EnBloque(x[1], x[2].id)
    BY <1>1, <2>2 DEF EnMemoria
  <2>5. ~en_swap[x[1]]
    BY <1>1, <2>2, <2>3, <2>4 DEF Firme, BloquesBien
  <2>6. QED
    BY <2>2, <2>3, <2>5 DEF ACompactar
<1>8. QED
  BY <1>1, <1>3, <1>4, <1>5, <1>6, <1>7 DEF LugarBien

\* Compaction never meets a segment it cannot move: what is left lies to the right of the
\* cursor, inside the sticks.
LEMMA VivoMovible ==
    ASSUME TypeOK, Firme, LugarBien, hilo.op = "compactar", NEW x \in todos
    PROVE  Movible(x[2])
<1>1. x \in Vivos /\ cursor <= x[2].base /\ cursor \in Nat /\ memoria_total_size \in Nat
  BY DEF LugarBien, TypeOK
<1>2. /\ x[2].base \in Nat /\ x[2].limite \in Nat /\ x[2].limite > 0
      /\ x[2].base + x[2].limite <= memoria_total_size
  BY <1>1, VivosTipo DEF Fin
<1>3. QED
  BY <1>1, <1>2 DEF Movible, EnSticks

\* The leftmost segment goes to the cursor: it lands on nobody's bytes.
LEMMA SueltosMover ==
    ASSUME NEW segs \in SUBSET (PIDS \X Segmento), NEW faltan \in SUBSET segs, NEW hasta \in Nat,
           \A y \in segs : y[2].limite > 0,
           \A y, w \in segs : y # w => Disjuntos(y[2], w[2]),
           \A y \in faltan : hasta <= y[2].base,
           \A y \in segs \ faltan : Fin(y[2]) <= hasta,
           NEW x \in faltan, \A y \in faltan : x[2].base <= y[2].base,
           NEW z \in PIDS \X Segmento, z[2].base = hasta, z[2].limite = x[2].limite
    PROVE  /\ \A y, w \in (segs \ {x}) \cup {z} : y # w => Disjuntos(y[2], w[2])
           /\ \A y \in faltan \ {x} : hasta + x[2].limite <= y[2].base
           /\ \A y \in ((segs \ {x}) \cup {z}) \ (faltan \ {x}) : Fin(y[2]) <= hasta + x[2].limite
<1> DEFINE segs2 == (segs \ {x}) \cup {z}
           faltan2 == faltan \ {x}
           hasta2 == hasta + x[2].limite
<1> USE DEF Fin, Disjuntos
<1>1. /\ x \in segs /\ x[2].base \in Nat /\ x[2].limite \in Nat
      /\ \A y \in segs : y[2].base \in Nat /\ y[2].limite \in Nat
      /\ z[2].base \in Nat /\ z[2].limite \in Nat
  BY DEF Segmento
<1>2. \A y \in faltan2 : hasta2 <= y[2].base
  <2>1. SUFFICES ASSUME NEW y \in faltan2 PROVE hasta2 <= y[2].base
    OBVIOUS
  <2>2. y \in segs /\ y # x /\ x[2].base <= y[2].base /\ hasta <= x[2].base /\ y[2].limite > 0
    OBVIOUS
  <2>3. Disjuntos(x[2], y[2])
    BY <1>1, <2>2
  <2>4. QED
    BY <1>1, <2>2, <2>3
<1>4. \A y \in segs \ {x} : Disjuntos(z[2], y[2])
  <2>1. SUFFICES ASSUME NEW y \in segs \ {x} PROVE Disjuntos(z[2], y[2])
    OBVIOUS
  <2>2. CASE y \in faltan
    BY <1>1, <1>2, <2>2
  <2>3. CASE y \notin faltan
    BY <1>1, <2>3
  <2>4. QED
    BY <2>2, <2>3
<1>5. \A y, w \in segs2 : y # w => Disjuntos(y[2], w[2])
  BY <1>4
<1>6. \A y \in segs2 \ faltan2 : Fin(y[2]) <= hasta2
  BY <1>1
<1>7. QED
  BY <1>2, <1>5, <1>6

LEMMA LugarMover ==
    ASSUME TypeOK, TypeOK', Firme, Firme', LugarBien, MoverSegmento
    PROVE  LugarBien'
<1>1. /\ hilo.op = "compactar"
      /\ UNCHANGED <<lista_procesos, en_swap, perdidos, lista_huecos, memoria_libre_size,
                     memoria_total_size, tabla_swap, hilo>>
  BY MoverHace
<1>2. PICK x \in todos, r \in Segmento :
                /\ \A y \in todos : x[2].base <= y[2].base
                /\ todos' = todos \ {x}
                /\ x[1] \in PIDS /\ x[2] \in Segmento /\ x = <<x[1], x[2]>>
                /\ r.id = x[2].id /\ r.base = cursor /\ r.limite = x[2].limite
                /\ IF Movible(x[2])
                   THEN /\ cursor' = cursor + x[2].limite
                        /\ tabla_segmentos'[x[1]] = (tabla_segmentos[x[1]] \ {x[2]}) \cup {r}
                        /\ \A q \in PIDS : q # x[1] => tabla_segmentos'[q] = tabla_segmentos[q]
                   ELSE UNCHANGED <<tabla_segmentos, cursor>>
  BY MoverHace
<1>3. /\ cursor' = cursor + x[2].limite
      /\ tabla_segmentos'[x[1]] = (tabla_segmentos[x[1]] \ {x[2]}) \cup {r}
      /\ \A q \in PIDS : q # x[1] => tabla_segmentos'[q] = tabla_segmentos[q]
  BY <1>1, <1>2, VivoMovible
<1> DEFINE z == <<x[1], r>>
           V == (Vivos \ {x}) \cup {z}
<1>4. z \in PIDS \X Segmento /\ z[2] = r /\ z[1] = x[1]
  BY <1>2
<1>5. /\ Vivos \in SUBSET (PIDS \X Segmento) /\ todos \in SUBSET Vivos /\ cursor \in Nat
      /\ \A y \in Vivos : y[2].limite > 0
      /\ \A y, w \in Vivos : y # w => Disjuntos(y[2], w[2])
      /\ \A y \in todos : cursor <= y[2].base
      /\ \A y \in Vivos \ todos : Fin(y[2]) <= cursor
      /\ \A p \in perdidos : en_swap[p]
  BY <1>1, VivosTipo DEF LugarBien, Sueltos, TypeOK
<1>6. /\ \A y, w \in V : y # w => Disjuntos(y[2], w[2])
      /\ \A y \in todos \ {x} : cursor + x[2].limite <= y[2].base
      /\ \A y \in V \ (todos \ {x}) : Fin(y[2]) <= cursor + x[2].limite
  <2>1. z[2].base = cursor /\ z[2].limite = x[2].limite
    BY <1>2, <1>4
  <2> HIDE DEF z
  <2>2. QED
    BY <1>2, <1>4, <1>5, <2>1, SueltosMover
<1>7. \A q, id : EnMemoria(q, id)' <=> EnMemoria(q, id)
  BY <1>1 DEF EnMemoria, EnBloque
<1>8. Vivos' \subseteq V
  <2>1. ASSUME NEW q \in PIDS, NEW v \in Segmento,
               q \notin perdidos', v \in tabla_segmentos'[q], EnMemoria(q, v.id)'
        PROVE  <<q, v>> \in V
    <3>1. CASE v \in tabla_segmentos[q] /\ <<q, v>> # x
      BY <1>1, <1>7, <2>1, <3>1, VivosTipo
    <3>2. CASE q = x[1] /\ v = r
      BY <3>2
    <3>3. QED
      BY <1>2, <1>3, <2>1, <3>1, <3>2
  <2> HIDE DEF V
  <2>2. QED
    BY <2>1, VivosPorPares
<1>9. todos' \subseteq Vivos'
  <2>1. SUFFICES ASSUME NEW y \in todos, y # x PROVE y \in Vivos'
    BY <1>2
  <2>2. y \in Vivos /\ y[1] \in PIDS /\ y[2] \in Segmento /\ y = <<y[1], y[2]>>
    BY <1>5, VivosTipo
  <2>3. y[2] \in tabla_segmentos[y[1]] /\ EnMemoria(y[1], y[2].id) /\ y[1] \notin perdidos
    BY <2>2, VivosTipo
  <2>4. y[2] \in tabla_segmentos'[y[1]]
    BY <1>2, <1>3, <2>1, <2>2, <2>3
  <2>5. QED
    BY <1>1, <1>7, <2>2, <2>3, <2>4, VivosTipoPrima
<1> HIDE DEF V
<1>10. Sueltos'
  BY <1>6, <1>8 DEF Sueltos
<1>11. QED
  BY <1>1, <1>2, <1>3, <1>5, <1>6, <1>8, <1>9, <1>10 DEF LugarBien

LEMMA LugarTerminarCompactacion ==
    ASSUME TypeOK, TypeOK', Firme, Firme', LugarBien, TerminarCompactacion
    PROVE  LugarBien'
<1>1. /\ hilo.op = "compactar" /\ hilo'.op # "compactar" /\ todos = {}
      /\ lista_huecos' = HuecosFinales
      /\ UNCHANGED <<lista_procesos, en_swap, perdidos, memoria_total_size, tabla_segmentos,
                     tabla_swap>>
  BY DEF TerminarCompactacion, procesos, Ocioso
<1>2. Vivos' \subseteq Vivos
  <2>1. hilo'.op \notin {"liberar", "desocupar"}
    BY DEF TerminarCompactacion, Ocioso
  <2>2. QED
    BY <1>1, <2>1, VivosIgual
<1>3. Sueltos' /\ \A p \in perdidos' : en_swap'[p]
  BY <1>1, <1>2 DEF LugarBien, Sueltos
<1>4. \A x \in Vivos : Fin(x[2]) <= cursor
  BY <1>1 DEF LugarBien
<1>5. \A h \in lista_huecos' : /\ h.base = cursor /\ h.limite = memoria_total_size - cursor
                               /\ cursor < memoria_total_size
  BY <1>1 DEF HuecosFinales
<1>6. Fusionados(lista_huecos', memoria_total_size)
  <2>1. \A g, h \in lista_huecos' : g = h
    BY <1>1 DEF HuecosFinales
  <2>2. \A h \in lista_huecos' : h.limite > 0 /\ Fin(h) <= memoria_total_size
    BY <1>5 DEF Fin, TypeOK
  <2>3. QED
    BY <2>1, <2>2 DEF Fusionados
<1>7. Apartados'
  BY <1>2, <1>4, <1>5 DEF Apartados, Disjuntos
<1>8. QED
  BY <1>1, <1>3, <1>6, <1>7 DEF LugarBien

-----------------------------------------------------------------------------
(* The other steps.                                                        *)

\* Steps that only write down where the thread is.
LEMMA LugarAnota ==
    ASSUME TypeOK, TypeOK', Firme, LugarBien,
           UNCHANGED <<tabla_segmentos, tabla_swap, lista_huecos, memoria_total_size>>,
           perdidos \subseteq perdidos', \A p \in perdidos' : en_swap'[p],
           hilo.op \notin {"liberar", "desocupar", "compactar"},
           hilo'.op \notin {"liberar", "desocupar", "compactar"}
    PROVE  LugarBien'
<1>1. Vivos' \subseteq Vivos
  BY VivosIgual
<1>2. QED
  BY <1>1, LugarQuieto

LEMMA LugarAnotan ==
    ASSUME TypeOK, TypeOK', Firme, LugarBien,
           \/ TerminarFin \/ TerminarSuspension \/ TerminarDesuspension \/ FallarDesuspension
           \/ \E p \in PIDS :
                \/ InicializarProceso(p) \/ IniciarFin(p) \/ IniciarSuspension(p)
                \/ IniciarDesuspension(p)
                \/ \E id \in IDS, tamanio \in TAMANIOS : PedirCompactacion(p, id, tamanio)
    PROVE  LugarBien'
<1>0. \A p \in perdidos : p \in PIDS /\ en_swap[p]
  BY DEF LugarBien, TypeOK
<1>f. RegistroFirme
  BY DEF Firme
<1>1. ASSUME NEW p \in PIDS, InicializarProceso(p) PROVE LugarBien'
  <2>1. UNCHANGED <<tabla_segmentos, en_swap>>
    BY <1>1, FirmeInicializar
  <2>2. QED
    BY <1>0, <1>1, <2>1, LugarAnota DEF InicializarProceso, contables, Ocioso
<1>2. ASSUME NEW p \in PIDS, IniciarFin(p) PROVE LugarBien'
  BY <1>0, <1>2, LugarAnota DEF IniciarFin, Atendible, contables, Ocioso
<1>3. ASSUME NEW p \in PIDS, IniciarSuspension(p) PROVE LugarBien'
  BY <1>0, <1>3, LugarAnota DEF IniciarSuspension, Atendible, procesos, contables, Ocioso
<1>4. ASSUME NEW p \in PIDS, IniciarDesuspension(p) PROVE LugarBien'
  BY <1>0, <1>4, LugarAnota DEF IniciarDesuspension, Atendible, procesos, contables, Ocioso
<1>5. ASSUME NEW p \in PIDS, NEW id \in IDS, NEW tamanio \in TAMANIOS,
             PedirCompactacion(p, id, tamanio)
      PROVE  LugarBien'
  BY <1>0, <1>5, LugarAnota DEF PedirCompactacion, Solicitable, Atendible, procesos, contables,
                                 Ocioso
<1>6. CASE TerminarFin
  BY <1>0, <1>6, LugarAnota DEF TerminarFin, procesos, contables, Ocioso
<1>7. CASE TerminarSuspension
  <2>1. \A p \in perdidos' : en_swap'[p]
    BY <1>0, <1>7 DEF TerminarSuspension, TypeOK
  <2>2. QED
    BY <1>7, <2>1, LugarAnota DEF TerminarSuspension, contables, Ocioso
<1>8. CASE TerminarDesuspension
  <2>1. hilo.pid \notin perdidos
    BY <1>f, <1>8 DEF TerminarDesuspension, RegistroFirme, ConPid
  <2>2. \A p \in perdidos' : en_swap'[p]
    BY <1>0, <1>8, <2>1 DEF TerminarDesuspension, TypeOK
  <2>3. QED
    BY <1>8, <2>2, LugarAnota DEF TerminarDesuspension, contables, Ocioso
<1>9. CASE FallarDesuspension
  <2>1. en_swap[hilo.pid]
    BY <1>f, <1>9 DEF FallarDesuspension, RegistroFirme, RegistroBien
  <2>2. \A p \in perdidos' : en_swap'[p]
    BY <1>0, <1>9, <2>1 DEF FallarDesuspension
  <2>3. QED
    BY <1>9, <2>2, LugarAnota DEF FallarDesuspension, contables, Ocioso
<1>10. QED
  BY <1>1, <1>2, <1>3, <1>4, <1>5, <1>6, <1>7, <1>8, <1>9

LEMMA LugarCrear ==
    ASSUME TypeOK, TypeOK', Firme, Firme', LugarBien, NEW p \in PIDS, NEW id \in IDS,
           NEW tamanio \in TAMANIOS, CrearSegmento(p, id, tamanio)
    PROVE  LugarBien'
<1>1. /\ hilo = Ocioso
      /\ UNCHANGED <<en_swap, perdidos, memoria_total_size, tabla_swap, hilo>>
  BY DEF CrearSegmento, Solicitable, Atendible, procesos
<1>2. PICK h \in EncontrarHueco(lista_huecos, tamanio) :
            /\ tabla_segmentos' = [tabla_segmentos EXCEPT ![p] =
                    @ \cup {[id |-> id, base |-> h.base, limite |-> tamanio]}]
            /\ TomarHueco(h, tamanio)
  BY DEF CrearSegmento
<1> DEFINE s == [id |-> id, base |-> h.base, limite |-> tamanio]
<1>3. tamanio \in Nat \ {0} /\ h \in Hueco
  BY TamaniosAssumption DEF EncontrarHueco, Elegido, Caben, TypeOK
<1>4. s \in Segmento /\ s.base = h.base /\ s.limite = tamanio
  BY <1>3 DEF Segmento, Hueco
<1>5. tabla_segmentos'[p] = tabla_segmentos[p] \cup {s}
      /\ \A q \in PIDS : q # p => tabla_segmentos'[q] = tabla_segmentos[q]
  BY <1>2 DEF TypeOK
<1> HIDE DEF s
<1>6. \A q, i : EnMemoria(q, i)' <=> EnMemoria(q, i)
  BY <1>1 DEF EnMemoria, EnBloque
<1> DEFINE V == Vivos \cup {<<p, s>>}
<1>7. ASSUME NEW q \in PIDS, NEW v \in Segmento,
             q \notin perdidos', v \in tabla_segmentos'[q], EnMemoria(q, v.id)'
      PROVE  <<q, v>> \in V
  <2>1. CASE v \in tabla_segmentos[q]
    BY <1>1, <1>6, <1>7, <2>1, VivosTipo
  <2>2. CASE q = p /\ v = s
    BY <2>2
  <2>3. QED
    BY <1>5, <1>7, <2>1, <2>2
<1>8. Vivos' \subseteq V
  <2> HIDE DEF V
  <2> QED BY <1>7, VivosPorPares
<1>9. /\ <<p, s>> \in PIDS \X Segmento /\ <<p, s>>[2].base = h.base /\ <<p, s>>[2].limite = tamanio
      /\ hilo.op # "compactar" /\ hilo'.op # "compactar" /\ \A q \in perdidos' : en_swap'[q]
      /\ UNCHANGED memoria_total_size
  BY <1>1, <1>4 DEF LugarBien, Ocioso
<1>10. QED
  BY <1>2, <1>3, <1>8, <1>9, LugarToma

LEMMA LugarQuitar ==
    ASSUME TypeOK, TypeOK', Firme, Firme', LugarBien, NEW p \in PIDS, NEW s \in tabla_segmentos[p],
           ~en_swap[p], p \notin perdidos, hilo.op \in {"ocioso", "finalizar"}, LiberarSegmento(s),
           tabla_segmentos' = [tabla_segmentos EXCEPT ![p] = @ \ {s}],
           UNCHANGED <<lista_procesos, en_swap, perdidos, memoria_total_size, tabla_swap, hilo>>
    PROVE  LugarBien'
<1>1. s \in Segmento
  BY DEF TypeOK
<1>2. \A t \in tabla_swap : t.pid # p
  BY FirmeSinBloques
<1>3. <<p, s>> \in Vivos
  BY <1>1, <1>2, VivosTipo, SinBloquesEnMemoria
<1>4. /\ \A q \in PIDS : q # p => tabla_segmentos'[q] = tabla_segmentos[q]
      /\ tabla_segmentos'[p] = tabla_segmentos[p] \ {s}
  BY DEF TypeOK
<1>5. \A q, i : EnMemoria(q, i)' <=> EnMemoria(q, i)
  BY DEF EnMemoria, EnBloque
<1> DEFINE V == Vivos \ {<<p, s>>}
<1>6. ASSUME NEW q \in PIDS, NEW v \in Segmento,
             q \notin perdidos', v \in tabla_segmentos'[q], EnMemoria(q, v.id)'
      PROVE  <<q, v>> \in V
  <2>1. v \in tabla_segmentos[q] /\ <<q, v>> # <<p, s>>
    BY <1>4, <1>6
  <2>2. QED
    BY <1>5, <1>6, <2>1, VivosTipo
<1>7. Vivos' \subseteq V
  <2> HIDE DEF V
  <2> QED BY <1>6, VivosPorPares
<1>8. /\ LiberarSegmento(<<p, s>>[2]) /\ \A q \in perdidos' : en_swap'[q]
      /\ hilo.op # "compactar" /\ hilo'.op # "compactar"
  BY DEF LugarBien
<1>9. QED
  BY <1>3, <1>7, <1>8, LugarLibera

LEMMA LugarEliminar ==
    ASSUME TypeOK, TypeOK', Firme, Firme', LugarBien, NEW p \in PIDS, NEW id \in IDS,
           EliminarSegmento(p, id)
    PROVE  LugarBien'
<1>1. PICK s \in tabla_segmentos[p] :
            LiberarSegmento(s) /\ tabla_segmentos' = [tabla_segmentos EXCEPT ![p] = @ \ {s}]
  BY DEF EliminarSegmento
<1>2. /\ ~en_swap[p] /\ p \notin perdidos /\ hilo.op \in {"ocioso", "finalizar"}
      /\ UNCHANGED <<lista_procesos, en_swap, perdidos, memoria_total_size, tabla_swap, hilo>>
  BY DEF EliminarSegmento, Atendible, Ocioso, procesos
<1>3. QED
  BY <1>1, <1>2, LugarQuitar

LEMMA LugarLiberarDeMuerto ==
    ASSUME TypeOK, TypeOK', Firme, Firme', LugarBien, LiberarDeMuerto
    PROVE  LugarBien'
<1>1. PICK s \in tabla_segmentos[hilo.pid] :
            /\ LiberarSegmento(s)
            /\ tabla_segmentos' = [tabla_segmentos EXCEPT ![hilo.pid] = @ \ {s}]
  BY DEF LiberarDeMuerto
<1>2. /\ hilo.op = "finalizar"
      /\ UNCHANGED <<lista_procesos, en_swap, perdidos, memoria_total_size, tabla_swap, hilo>>
  BY DEF LiberarDeMuerto, procesos
<1>3. QED
  BY <1>1, <1>2, FirmeMuerto, LugarQuitar

LEMMA LugarFinEnSwap ==
    ASSUME TypeOK, TypeOK', Firme, Firme', LugarBien, NEW p \in PIDS, FinEnSwap(p)
    PROVE  LugarBien'
<1> USE DEF FinEnSwap, Atendible, contables, bucle, Ocioso
<1>1. /\ tabla_segmentos'[p] = {} /\ p \notin perdidos
      /\ \A q \in PIDS : q # p => /\ tabla_segmentos'[q] = tabla_segmentos[q]
                                  /\ en_swap'[q] = en_swap[q]
  BY DEF TypeOK
<1>2. \A q \in PIDS : \A id : q # p => (EnMemoria(q, id)' <=> EnMemoria(q, id))
  BY DEF EnMemoria, EnBloque
<1>3. Vivos' \subseteq Vivos
  <2>1. ASSUME NEW q \in PIDS, NEW v \in Segmento,
             q \notin perdidos', v \in tabla_segmentos'[q], EnMemoria(q, v.id)'
        PROVE  <<q, v>> \in Vivos
    BY <1>1, <1>2, <2>1, VivosTipo
  <2>2. QED
    BY <2>1, VivosPorPares
<1>4. \A q \in perdidos' : en_swap'[q]
  BY <1>1 DEF LugarBien, TypeOK
<1>5. QED
  BY <1>3, <1>4, LugarQuieto

LEMMA LugarOcuparBloque ==
    ASSUME TypeOK, TypeOK', Firme, Firme', LugarBien, OcuparBloque
    PROVE  LugarBien'
<1>1. /\ hilo.op = "suspender" /\ hilo'.op = "liberar" /\ hilo'.pid = hilo.pid
      /\ UNCHANGED <<en_swap, perdidos, lista_huecos, memoria_total_size, tabla_segmentos>>
      /\ \E s \in tabla_segmentos[hilo.pid] :
            /\ ~EnBloque(hilo.pid, s.id) /\ hilo'.id = s.id
            /\ \A q, id : EnBloque(q, id)' <=> EnBloque(q, id) \/ (q = hilo.pid /\ id = s.id)
  BY OcuparHace
<1>2. \A q, id : EnMemoria(q, id)' <=> EnMemoria(q, id)
  BY <1>1 DEF EnMemoria
<1>3. Vivos' \subseteq Vivos
  BY <1>1, <1>2 DEF Vivos, Residentes, Segmentos
<1>4. QED
  BY <1>1, <1>3, LugarQuieto DEF LugarBien

LEMMA LugarLiberarFisica ==
    ASSUME TypeOK, TypeOK', Firme, Firme', LugarBien, LiberarFisica
    PROVE  LugarBien'
<1> DEFINE p == hilo.pid
<1>1. PICK s \in tabla_segmentos[p] : s.id = hilo.id /\ LiberarSegmento(s)
  BY DEF LiberarFisica
<1>2. /\ hilo.op = "liberar" /\ hilo'.op = "suspender" /\ hilo'.pid = p
      /\ UNCHANGED <<en_swap, perdidos, memoria_total_size, tabla_segmentos, tabla_swap>>
  BY DEF LiberarFisica, procesos
<1>3. p \in PIDS /\ p \notin perdidos /\ s \in Segmento /\ EnBloque(p, s.id)
  BY <1>1, <1>2, HiloTipo DEF TypeOK, Firme, RegistroFirme, RegistroBien, ConPid
<1>4. <<p, s>> \in Vivos
  BY <1>1, <1>2, <1>3, VivosTipo DEF EnMemoria
<1> DEFINE V == Vivos \ {<<p, s>>}
<1>5. ASSUME NEW q \in PIDS, NEW v \in Segmento,
             q \notin perdidos', v \in tabla_segmentos'[q], EnMemoria(q, v.id)'
      PROVE  <<q, v>> \in V
  <2>1. ~EnBloque(q, v.id)
    BY <1>2, <1>5 DEF EnMemoria, EnBloque
  <2>2. QED
    BY <1>2, <1>3, <1>5, <2>1, VivosTipo DEF EnMemoria
<1>6. Vivos' \subseteq V
  <2> HIDE DEF V
  <2> QED BY <1>5, VivosPorPares
<1>7. /\ LiberarSegmento(<<p, s>>[2]) /\ \A q \in perdidos' : en_swap'[q]
      /\ hilo.op # "compactar" /\ hilo'.op # "compactar" /\ UNCHANGED memoria_total_size
  BY <1>1, <1>2 DEF LugarBien
<1>8. QED
  BY <1>4, <1>6, <1>7, LugarLibera

LEMMA LugarAsignarFisica ==
    ASSUME TypeOK, TypeOK', Firme, Firme', LugarBien, AsignarFisica
    PROVE  LugarBien'
<1> DEFINE p == hilo.pid
<1>1. /\ p \in PIDS /\ hilo.op = "desuspender" /\ hilo'.op = "desocupar" /\ hilo'.pid = p
      /\ UNCHANGED <<en_swap, perdidos, memoria_total_size, tabla_swap>>
  BY AsignarHace
<1>2. PICK t \in ProximoBloque(p), s \in tabla_segmentos[p], r \in Segmento, h \in Hueco :
                /\ h \in EncontrarHueco(lista_huecos, t.tamanio)
                /\ t.tamanio \in Nat \ {0} /\ s.limite = t.tamanio
                /\ r.id = s.id /\ r.base = h.base /\ r.limite = s.limite /\ hilo'.id = s.id
                /\ TomarHueco(h, t.tamanio)
                /\ \A w \in tabla_segmentos[p] \ {s} : w.id # s.id
                /\ tabla_segmentos'[p] = (tabla_segmentos[p] \ {s}) \cup {r}
                /\ \A q \in PIDS : q # p => tabla_segmentos'[q] = tabla_segmentos[q]
  BY AsignarHace
<1> HIDE DEF p
<1> DEFINE V == Vivos \cup {<<p, r>>}
<1>3. ASSUME NEW q \in PIDS, NEW v \in Segmento,
             q \notin perdidos', v \in tabla_segmentos'[q], EnMemoria(q, v.id)'
      PROVE  <<q, v>> \in V
  <2>1. CASE q = p /\ v = r
    BY <2>1
  <2>2. CASE v \in tabla_segmentos[q] /\ (q = p => v # s)
    <3>1. ~EnBloque(q, v.id)
      BY <1>1, <1>2, <1>3, <2>2 DEF EnMemoria, EnBloque
    <3>2. QED
      BY <1>1, <1>3, <2>2, <3>1, VivosTipo DEF EnMemoria
  <2>3. QED
    BY <1>2, <1>3, <2>1, <2>2
<1>4. Vivos' \subseteq V
  <2> HIDE DEF V
  <2> QED BY <1>3, VivosPorPares
<1>5. /\ <<p, r>> \in PIDS \X Segmento /\ <<p, r>>[2].base = h.base
      /\ <<p, r>>[2].limite = t.tamanio
      /\ hilo.op # "compactar" /\ hilo'.op # "compactar" /\ \A q \in perdidos' : en_swap'[q]
      /\ UNCHANGED memoria_total_size
  BY <1>1, <1>2 DEF LugarBien
<1>6. QED
  BY <1>2, <1>4, <1>5, LugarToma

LEMMA LugarDesocupar ==
    ASSUME TypeOK, TypeOK', Firme, Firme', LugarBien, DesocuparBloque
    PROVE  LugarBien'
<1> DEFINE p == hilo.pid
<1>1. /\ hilo.op = "desocupar" /\ hilo'.op = "desuspender" /\ hilo'.pid = p
      /\ tabla_swap' = {t \in tabla_swap : t.pid # p \/ t.segmento_id # hilo.id}
      /\ UNCHANGED <<en_swap, perdidos, lista_huecos, memoria_total_size, tabla_segmentos>>
  BY DEF DesocuparBloque, procesos, contables
<1>2. \A q, id : EnBloque(q, id)' <=> EnBloque(q, id) /\ ~(q = p /\ id = hilo.id)
  BY <1>1 DEF EnBloque
<1>3. \A q, id : EnMemoria(q, id)' <=> EnMemoria(q, id)
  BY <1>1, <1>2 DEF EnMemoria
<1>4. Vivos' \subseteq Vivos
  BY <1>1, <1>3 DEF Vivos, Residentes, Segmentos
<1>5. QED
  BY <1>1, <1>4, LugarQuieto DEF LugarBien

LEMMA LugarInicial == Init => LugarBien
  BY DEF Init, LugarBien, Sueltos, Apartados, Vivos, Residentes, Segmentos, Fusionados, Ocioso

\* LugarBien is inductive while no suspension fails.
LEMMA LugarPaso ==
    ASSUME TypeOK, TypeOK', Firme, Firme', LugarBien, [Next]_vars, ~FallarSuspension
    PROVE  LugarBien'
<1>1. CASE UNCHANGED vars
  BY <1>1 DEF vars, LugarBien, Sueltos, Apartados, Vivos, Residentes, Segmentos, EnMemoria, EnBloque
<1>2. CASE Next
  BY <1>2, LugarAnotan, LugarStick, LugarIniciarCompactacion, LugarMover, LugarTerminarCompactacion,
     LugarCrear, LugarEliminar, LugarLiberarDeMuerto, LugarFinEnSwap, LugarOcuparBloque,
     LugarLiberarFisica, LugarAsignarFisica, LugarDesocupar
     DEF Next, Continuar
<1>3. QED
  BY <1>1, <1>2

\* As long as no suspension fails, even if resumptions do, no byte of a process that was not
\* given up belongs to another segment or to a hole.
THEOREM ProteccionVivos == Spec /\ [][~FallarSuspension]_vars => []LugarBien
<1>1. /\ TypeOK /\ TypeOK' /\ InvFirme /\ InvFirme' /\ LugarBien
      /\ [Next]_vars /\ [~FallarSuspension]_vars
      => LugarBien'
  <2> SUFFICES ASSUME TypeOK, TypeOK', InvFirme, InvFirme', LugarBien, [Next]_vars,
                      [~FallarSuspension]_vars
               PROVE  LugarBien'
    OBVIOUS
  <2>1. Firme /\ Firme'
    BY DEF InvFirme
  <2>2. CASE ~FallarSuspension
    BY <2>1, <2>2, LugarPaso
  <2>3. CASE UNCHANGED vars
    BY <2>3 DEF vars, LugarBien, Sueltos, Apartados, Vivos, Residentes, Segmentos, EnMemoria, EnBloque
  <2>4. QED
    BY <2>2, <2>3
<1>2. QED
  BY <1>1, LugarInicial, TipoCorrecto, RegistroCorrecto, PTL DEF Spec

-----------------------------------------------------------------------------
(* A swap that is large enough.                                            *)

\* The swap holds every segment of every process at once.
SwapAlcanza ==
    /\ IsFiniteSet(PIDS) /\ IsFiniteSet(IDS)
    /\ Cardinality(PIDS) * Cardinality(IDS) <= SWAP_NUM_BLOQUES
    /\ SEGMENT_MAX_SIZE <= SWAP_BLOCK_SIZE

\* What the scheduler lets through is what a segment measures for as long as it lives.
Medidos == \A p \in PIDS : \A s \in tabla_segmentos[p] : s.limite <= SEGMENT_MAX_SIZE

\* Medidos is inductive.
LEMMA MedidosPaso ==
    ASSUME TypeOK, InvFirme, Medidos, [Next]_vars
    PROVE  Medidos'
<1>0. tabla_segmentos \in [PIDS -> SUBSET Segmento]
  BY DEF TypeOK
<1>1. ASSUME NEW p \in PIDS, NEW nuevo, nuevo \subseteq tabla_segmentos[p],
             tabla_segmentos' = [tabla_segmentos EXCEPT ![p] = nuevo]
      PROVE  Medidos'
  BY <1>0, <1>1 DEF Medidos
<1>2. ASSUME NEW p \in PIDS, NEW viejo, viejo \subseteq tabla_segmentos[p],
             NEW s, s.limite <= SEGMENT_MAX_SIZE,
             tabla_segmentos' = [tabla_segmentos EXCEPT ![p] = viejo \cup {s}]
      PROVE  Medidos'
  BY <1>0, <1>2 DEF Medidos
<1>3. ASSUME UNCHANGED tabla_segmentos PROVE Medidos'
  BY <1>3 DEF Medidos
<1>4. ASSUME NEW p \in PIDS, InicializarProceso(p) \/ FinEnSwap(p) PROVE Medidos'
  BY <1>1, <1>4 DEF InicializarProceso, FinEnSwap
<1>5. ASSUME NEW p \in PIDS, IniciarFin(p) \/ IniciarSuspension(p) \/ IniciarDesuspension(p)
      PROVE  Medidos'
  BY <1>3, <1>5 DEF IniciarFin, IniciarSuspension, IniciarDesuspension
<1>6. ASSUME NEW p \in PIDS, NEW id \in IDS, EliminarSegmento(p, id) PROVE Medidos'
  <2>1. PICK s \in tabla_segmentos[p] : tabla_segmentos' = [tabla_segmentos EXCEPT ![p] = @ \ {s}]
    BY <1>6 DEF EliminarSegmento
  <2>2. tabla_segmentos[p] \ {s} \subseteq tabla_segmentos[p]
    OBVIOUS
  <2>3. QED
    BY <1>1, <2>1, <2>2
<1>7. ASSUME NEW p \in PIDS, NEW id \in IDS, NEW tamanio \in TAMANIOS,
             CrearSegmento(p, id, tamanio) \/ PedirCompactacion(p, id, tamanio)
      PROVE  Medidos'
  <2>1. CASE PedirCompactacion(p, id, tamanio)
    BY <1>3, <2>1 DEF PedirCompactacion
  <2>2. CASE CrearSegmento(p, id, tamanio)
    <3>1. tamanio <= SEGMENT_MAX_SIZE
      BY <2>2 DEF CrearSegmento, Solicitable
    <3>2. PICK h \in EncontrarHueco(lista_huecos, tamanio) :
              tabla_segmentos' = [tabla_segmentos EXCEPT ![p] =
                  @ \cup {[id |-> id, base |-> h.base, limite |-> tamanio]}]
      BY <2>2 DEF CrearSegmento
    <3>3. PICK s : s = [id |-> id, base |-> h.base, limite |-> tamanio]
      OBVIOUS
    <3>4. s.limite <= SEGMENT_MAX_SIZE
      BY <3>1, <3>3
    <3>5. tabla_segmentos' = [tabla_segmentos EXCEPT ![p] = tabla_segmentos[p] \cup {s}]
      BY <3>2, <3>3
    <3>6. QED
      BY <1>2, <3>4, <3>5
  <2>3. QED
    BY <1>7, <2>1, <2>2
<1>8. ASSUME NEW p \in PIDS, NEW s \in tabla_segmentos[p], NEW dir,
             tabla_segmentos' = [tabla_segmentos EXCEPT ![p] = (@ \ {s}) \cup {Reubicado(s, dir)}]
      PROVE  Medidos'
  <2>1. PICK r : r = Reubicado(s, dir)
    OBVIOUS
  <2>2. r.limite <= SEGMENT_MAX_SIZE
    BY <2>1 DEF Reubicado, Medidos
  <2>3. tabla_segmentos[p] \ {s} \subseteq tabla_segmentos[p]
    OBVIOUS
  <2>4. tabla_segmentos' = [tabla_segmentos EXCEPT ![p] = (tabla_segmentos[p] \ {s}) \cup {r}]
    BY <1>8, <2>1
  <2>5. QED
    BY <1>2, <2>2, <2>3, <2>4
<1>9. CASE Continuar
  <2>1. CASE LiberarDeMuerto
    <3>1. hilo.pid \in PIDS
      BY <2>1, HiloTipo DEF LiberarDeMuerto
    <3>2. PICK s \in tabla_segmentos[hilo.pid] :
              tabla_segmentos' = [tabla_segmentos EXCEPT ![hilo.pid] = @ \ {s}]
      BY <2>1 DEF LiberarDeMuerto
    <3>3. tabla_segmentos[hilo.pid] \ {s} \subseteq tabla_segmentos[hilo.pid]
      OBVIOUS
    <3>4. QED
      BY <1>1, <3>1, <3>2, <3>3
  <2>2. CASE AsignarFisica
    <3>1. hilo.pid \in PIDS
      BY <2>2, HiloTipo DEF AsignarFisica
    <3>2. \E s \in tabla_segmentos[hilo.pid], h \in lista_huecos :
              tabla_segmentos' = [tabla_segmentos EXCEPT ![hilo.pid] = (@ \ {s}) \cup {Reubicado(s, h.base)}]
      BY <2>2 DEF AsignarFisica, EncontrarHueco, Elegido, Caben
    <3>3. QED
      BY <1>8, <3>1, <3>2
  <2>3. CASE MoverSegmento
    <3>1. PICK x \in todos :
              \/ tabla_segmentos' = [tabla_segmentos EXCEPT ![x[1]] =
                       (@ \ {x[2]}) \cup {Reubicado(x[2], cursor)}]
              \/ UNCHANGED tabla_segmentos
      BY <2>3 DEF MoverSegmento, MasALaIzquierda
    <3>2. x[2] \in tabla_segmentos[x[1]] /\ x[1] \in PIDS
      BY <2>3 DEF MoverSegmento, InvFirme, PendientesBien, TypeOK
    <3>3. QED
      BY <1>3, <1>8, <3>1, <3>2
  <2>4. CASE \/ TerminarFin \/ OcuparBloque \/ LiberarFisica \/ TerminarSuspension \/ FallarSuspension
             \/ DesocuparBloque \/ TerminarDesuspension \/ FallarDesuspension \/ TerminarCompactacion
    BY <1>3, <2>4 DEF TerminarFin, OcuparBloque, LiberarFisica, TerminarSuspension, FallarSuspension,
       DesocuparBloque, TerminarDesuspension, FallarDesuspension, TerminarCompactacion
  <2>5. QED
    BY <1>9, <2>1, <2>2, <2>3, <2>4 DEF Continuar
<1>10. ASSUME IniciarCompactacion \/ \E tamanio \in STICKS : AgregarStick(tamanio) PROVE Medidos'
  BY <1>3, <1>10 DEF IniciarCompactacion, AgregarStick
<1>11. CASE UNCHANGED vars
  BY <1>3, <1>11 DEF vars
<1>12. QED
  BY <1>4, <1>5, <1>6, <1>7, <1>9, <1>10, <1>11 DEF Next

\* A segment that has no block yet finds one.
LEMMA QuedaBloque ==
    ASSUME SwapAlcanza, TypeOK, Firme, NEW p \in PIDS, NEW s \in tabla_segmentos[p], ~EnBloque(p, s.id)
    PROVE  BloqueLibre # {}
<1>1. SWAP_NUM_BLOQUES \in Nat /\ s.id \in IDS /\ tabla_swap \in SUBSET BloqueSwap
  BY LimitesAssumption DEF TypeOK, Segmento
<1> DEFINE sueltos == {b \in Bloques : \A t \in tabla_swap : t.bloque # b}
<1>2. CASE sueltos # {}
  <2>1. sueltos \in SUBSET Nat
    BY <1>1 DEF Bloques
  <2>2. PICK b \in sueltos : \A c \in sueltos : b <= c
    BY <1>2, <2>1, HayPrimero
  <2>3. b \in BloqueLibre
    BY <2>2 DEF BloqueLibre
  <2>4. QED
    BY <2>3
<1>3. CASE sueltos = {}
  <2>1. \A b \in Bloques : \E t \in tabla_swap : t.bloque = b
    BY <1>3
  <2> DEFINE T == (PIDS \X IDS) \ {<<p, s.id>>}
             de(b) == CHOOSE t \in tabla_swap : t.bloque = b
             f == [b \in Bloques |-> <<de(b).pid, de(b).segmento_id>>]
  <2>2. \A b \in Bloques : de(b) \in tabla_swap /\ de(b).bloque = b
    BY <2>1
  <2>3. \A t \in tabla_swap : t.pid \in PIDS /\ t.segmento_id \in IDS
    BY <1>1 DEF BloqueSwap
  <2>4. \A t \in tabla_swap : <<t.pid, t.segmento_id>> # <<p, s.id>>
    BY DEF EnBloque
  <2> HIDE DEF de
  <2>5. f \in [Bloques -> T]
    BY <2>2, <2>3, <2>4
  <2>6. \A b, c \in Bloques : f[b] = f[c] => b = c
    <3> SUFFICES ASSUME NEW b \in Bloques, NEW c \in Bloques, f[b] = f[c] PROVE b = c
      OBVIOUS
    <3>1. <<de(b).pid, de(b).segmento_id>> = <<de(c).pid, de(c).segmento_id>>
      OBVIOUS
    <3>2. de(b) = de(c)
      BY <2>2, <3>1 DEF Firme, BloquesBien
    <3>3. QED
      BY <2>2, <3>2
  <2> HIDE DEF f
  <2>7. f \in Injection(Bloques, T)
    BY <2>5, <2>6 DEF Injection, IsInjective
  <2>8. /\ IsFiniteSet(PIDS \X IDS) /\ Cardinality(PIDS \X IDS) = Cardinality(PIDS) * Cardinality(IDS)
    BY FS_Product DEF SwapAlcanza
  <2>9. <<p, s.id>> \in PIDS \X IDS
    BY <1>1
  <2>10. IsFiniteSet(T) /\ Cardinality(T) = Cardinality(PIDS \X IDS) - 1
    BY <2>8, <2>9, FS_RemoveElement
  <2>11. Cardinality(PIDS \X IDS) \in Nat
    BY <2>8, FS_CardinalityType
  <2> HIDE DEF T
  <2>12. Cardinality(Bloques) <= Cardinality(T)
    BY <2>7, <2>10, FS_Injection
  <2>13. Cardinality(Bloques) = SWAP_NUM_BLOQUES
    <3>1. Cardinality(0 .. SWAP_NUM_BLOQUES - 1) =
              IF 0 > SWAP_NUM_BLOQUES - 1 THEN 0 ELSE SWAP_NUM_BLOQUES - 1 - 0 + 1
      BY <1>1, FS_Interval
    <3>2. QED
      BY <1>1, <3>1 DEF Bloques
  <2>14. Cardinality(PIDS \X IDS) <= SWAP_NUM_BLOQUES
    BY <2>8 DEF SwapAlcanza
  <2>15. QED
    BY <1>1, <2>10, <2>11, <2>12, <2>13, <2>14
<1>4. QED
  BY <1>2, <1>3

LEMMA MedidosSiempre == Spec => []Medidos
<1>1. Init => Medidos
  BY DEF Init, Medidos
<1>2. QED
  BY <1>1, MedidosPaso, TipoCorrecto, RegistroCorrecto, PTL DEF Spec

\* A swap with a block of SEGMENT_MAX_SIZE for each segment there may be never answers
\* MEMORIA_NO_DISPONIBLE to a suspension (swap_gestor.c, utils_scheduler.c).
THEOREM NingunaFalla == ASSUME SwapAlcanza PROVE Spec => [][~FallarSuspension]_vars
<1>1. TypeOK /\ InvFirme /\ Medidos => [~FallarSuspension]_vars
  <2> SUFFICES ASSUME TypeOK, InvFirme, Medidos, FallarSuspension PROVE FALSE
    OBVIOUS
  <2>1. Firme
    BY DEF InvFirme
  <2>2. hilo.pid \in PIDS
    BY HiloTipo DEF FallarSuspension
  <2>3. PICK s \in tabla_segmentos[hilo.pid] : ~EnBloque(hilo.pid, s.id) /\ NoEntraEnSwap(s)
    BY DEF FallarSuspension
  <2>4. BloqueLibre # {}
    BY <2>1, <2>2, <2>3, QuedaBloque
  <2>5. s.limite <= SEGMENT_MAX_SIZE /\ s.limite \in Nat
    BY <2>2, <2>3 DEF Medidos, TypeOK, Segmento
  <2>6. ~(s.limite > SWAP_BLOCK_SIZE)
    BY <2>5, LimitesAssumption DEF SwapAlcanza
  <2>7. QED
    BY <2>3, <2>4, <2>6 DEF NoEntraEnSwap
<1>2. QED
  BY <1>1, TipoCorrecto, RegistroCorrecto, MedidosSiempre, PTL

-----------------------------------------------------------------------------
(* The list of memory sticks.                                              *)

\* The stick after another one is the next of the list.
LEMMA SiguienteEs ==
    ASSUME NEW sticks, NEW total, SticksBien(sticks, total), NEW k \in DOMAIN sticks
    PROVE  buscar_siguiente_stick(sticks, k) = IF k = Len(sticks) THEN {} ELSE {k + 1}
<1> DEFINE pegados == {j \in DOMAIN sticks : sticks[j].base = FinStick(sticks, k)}
<1>1. /\ Len(sticks) \in Nat /\ DOMAIN sticks = 1 .. Len(sticks) /\ total \in Nat
      /\ \A j \in DOMAIN sticks :
             /\ j \in Nat /\ sticks[j].base \in Nat /\ FinStick(sticks, j) \in Nat
             /\ sticks[j].base < FinStick(sticks, j)
  BY SticksTipo
<1>2. ASSUME NEW j \in DOMAIN sticks, sticks[j].base = FinStick(sticks, k)
      PROVE  k # Len(sticks) /\ j = k + 1
  <2>1. k < j
    <3>1. CASE j = k
      BY <1>1, <1>2, <3>1
    <3>2. CASE j < k
      <4>1. FinStick(sticks, j) <= sticks[k].base
        BY <3>2 DEF SticksBien
      <4>2. QED
        BY <1>1, <1>2, <4>1
    <3>3. QED
      BY <1>1, <3>1, <3>2
  <2>2. k + 1 \in DOMAIN sticks /\ k # Len(sticks)
    BY <1>1, <2>1
  <2>3. CASE k + 1 < j
    <3>1. FinStick(sticks, k + 1) <= sticks[j].base /\ FinStick(sticks, k) = sticks[k + 1].base
      BY <2>2, <2>3 DEF SticksBien
    <3>2. QED
      BY <1>1, <1>2, <2>2, <3>1
  <2>4. QED
    BY <1>1, <2>1, <2>2, <2>3
<1>3. CASE k = Len(sticks)
  <2>1. pegados = {}
    BY <1>2, <1>3
  <2>2. QED
    BY <1>3, <2>1 DEF buscar_siguiente_stick, FinStick
<1>4. CASE k # Len(sticks)
  <2>1. k + 1 \in DOMAIN sticks /\ sticks[k + 1].base = FinStick(sticks, k)
    BY <1>4 DEF SticksBien
  <2>2. pegados = {k + 1}
    BY <1>2, <2>1
  <2>3. Min(pegados) = k + 1
    BY <1>1, <2>1, <2>2, MinimoUnico
  <2>4. buscar_siguiente_stick(sticks, k) = IF pegados = {} THEN {} ELSE {Min(pegados)}
    BY DEF buscar_siguiente_stick, FinStick
  <2>5. QED
    BY <1>4, <2>2, <2>3, <2>4
<1>5. QED
  BY <1>3, <1>4

\* The two searches for the stick of an address find it, or none past the end.
LEMMA BuscarStick ==
    ASSUME NEW sticks, NEW total, SticksBien(sticks, total), NEW dir \in Nat
    PROVE  /\ dir >= total => buscar_stick_base(sticks, dir) = {} /\ StickDe(sticks, dir) = {}
           /\ \A k \in DOMAIN sticks :
                sticks[k].base <= dir /\ dir < FinStick(sticks, k) =>
                    buscar_stick_base(sticks, dir) = {k} /\ StickDe(sticks, dir) = {k}
<1> DEFINE despues == {k \in DOMAIN sticks : FinStick(sticks, k) > dir}
           lo == {k \in DOMAIN sticks : dir >= sticks[k].base /\ dir < FinStick(sticks, k)}
<1>1. /\ DOMAIN sticks \in SUBSET Nat /\ total \in Nat
      /\ \A i \in DOMAIN sticks : /\ sticks[i].base \in Nat /\ FinStick(sticks, i) \in Nat
                                  /\ FinStick(sticks, i) <= total
  BY SticksTipo
<1>2. buscar_stick_base(sticks, dir) = IF despues = {} THEN {} ELSE {Min(despues)}
  BY DEF buscar_stick_base, FinStick
<1>3. StickDe(sticks, dir) = IF lo = {} THEN {} ELSE {Min(lo)}
  BY DEF StickDe, FinStick
<1>4. CASE dir >= total
  <2>1. despues = {} /\ lo = {}
    BY <1>1, <1>4
  <2>2. \A k \in DOMAIN sticks : ~(dir < FinStick(sticks, k))
    BY <1>1, <1>4
  <2>3. QED
    BY <1>2, <1>3, <2>1, <2>2
<1>5. CASE dir < total
  <2>1. ASSUME NEW k \in DOMAIN sticks, sticks[k].base <= dir, dir < FinStick(sticks, k)
        PROVE  buscar_stick_base(sticks, dir) = {k} /\ StickDe(sticks, dir) = {k}
    <3>1. k \in despues /\ k \in lo
      BY <1>1, <2>1
    <3>2. \A j \in despues : k <= j
      BY <1>1, <2>1, UnStick
    <3>3. \A j \in lo : j = k
      BY <1>1, <2>1, UnStick
    <3>4. despues \in SUBSET Nat
      BY <1>1
    <3> HIDE DEF despues, lo
    <3>5. Min(despues) \in despues /\ \A j \in despues : Min(despues) <= j
      BY <3>1, <3>4, HayPrimero
    <3>6. Min(despues) = k
      BY <3>1, <3>2, <3>4, <3>5
    <3>7. lo = {k}
      BY <3>1, <3>3
    <3>8. Min(lo) = k
      BY <1>1, <3>7, MinimoUnico
    <3>9. QED
      BY <1>2, <1>3, <3>1, <3>6, <3>8
  <2>2. QED
    BY <1>1, <1>5, <2>1
<1>6. QED
  BY <1>1, <1>4, <1>5

-----------------------------------------------------------------------------
(* The loop that cuts a range into pieces: its result in one expression,   *)
(* which satisfies the equation of the loop, as nothing else does.         *)

\* One turn of the loop of pedazos_fisico; g is what the turns that follow give.
CuerpoDelBucle(sticks, g, a) ==
    LET cabe   == sticks[a.stick].size - a.desde
        leo    == IF cabe >= a.restan THEN a.restan ELSE cabe
        pedazo == [stick |-> a.stick, desde |-> a.desde, tamanio |-> leo]
    IN  IF a.restan = 0 THEN {<<>>}
        ELSE IF leo = a.restan THEN {<<pedazo>>}
        ELSE {<<pedazo>> \o resto : resto \in
                 UNION {g[EnElSiguiente(k, a, leo)] :
                           k \in buscar_siguiente_stick(sticks, a.stick)}}

\* The function satisfies its definition everywhere.
EsBucle(sticks, tamanio, g) ==
    g = [a \in Lugares(sticks, tamanio) |-> CuerpoDelBucle(sticks, g, a)]

\* The pieces are what the loop of pedazos_fisico leaves.
LEMMA PedazosDef ==
    ASSUME NEW sticks, NEW primero, NEW offset, NEW tamanio
    PROVE  Pedazos(sticks, primero, offset, tamanio) =
               (CHOOSE g : EsBucle(sticks, tamanio, g))
                   [[stick |-> primero, desde |-> offset, restan |-> tamanio]]
  BY Zenon DEF Pedazos, EsBucle, CuerpoDelBucle, Lugares

\* One turn of the loop, where the list of sticks is and what is missing given names.
LEMMA UnaVuelta ==
    ASSUME NEW sticks, NEW total, SticksBien(sticks, total), NEW tamanio \in Nat,
           NEW g, \A b \in Lugares(sticks, tamanio) :
                     g[b] = Cortes(sticks, b.stick, sticks[b.stick].base + b.desde, b.restan),
           NEW k \in DOMAIN sticks, NEW d \in Nat, d < sticks[k].size, NEW r \in 0 .. tamanio
    PROVE  CuerpoDelBucle(sticks, g, [stick |-> k, desde |-> d, restan |-> r]) =
               Cortes(sticks, k, sticks[k].base + d, r)
<1> DEFINE dir == sticks[k].base + d
           hasta == dir + r
           fin == FinStick(sticks, k)
           cabe == sticks[k].size - d
           leo == IF cabe >= r THEN r ELSE cabe
           pedazo == [stick |-> k, desde |-> d, tamanio |-> leo]
           a == [stick |-> k, desde |-> d, restan |-> r]
<1>0. /\ dir = sticks[k].base + d /\ hasta = dir + r /\ cabe = sticks[k].size - d
      /\ leo = (IF cabe >= r THEN r ELSE cabe)
  OBVIOUS
<1>2. /\ DOMAIN sticks = 1 .. Len(sticks) /\ Len(sticks) \in Nat /\ k \in Nat /\ total \in Nat
      /\ sticks[k].base \in Nat /\ sticks[k].size \in Nat
  BY SticksTipo
<1>20. fin = sticks[k].base + sticks[k].size
  BY DEF FinStick
<1>3. CuentasDeVuelta(sticks[k].base, sticks[k].size, d, r, dir, hasta, fin, cabe, leo)
  <2>1. r \in Nat
    OBVIOUS
  <2>2. QED
    BY <1>0, <1>2, <1>20, <2>1, Cuentas
<1>5. pedazo = Trozo(sticks, dir, hasta, k)
  <2> HIDE DEF dir, hasta, fin, cabe, leo
  <2>1. fin = FinStick(sticks, k)
    BY DEF fin
  <2>2. QED
    BY <1>3, <2>1 DEF CuentasDeVuelta, Trozo
<1>6. CuerpoDelBucle(sticks, g, a) =
          IF r = 0 THEN {<<>>}
          ELSE IF leo = r THEN {<<pedazo>>}
          ELSE {<<pedazo>> \o resto : resto \in
                   UNION {g[EnElSiguiente(j, a, leo)] : j \in buscar_siguiente_stick(sticks, k)}}
  BY DEF CuerpoDelBucle
<1> HIDE DEF hasta, fin, cabe, leo
<1>60. hasta = dir + r /\ fin = FinStick(sticks, k)
  BY DEF hasta, fin
<1> HIDE DEF dir, pedazo
<1>7. Cortes(sticks, k, dir, r) =
          IF r = 0 THEN {<<>>}
          ELSE {Trozos(sticks, dir, hasta, k, m) : m \in Ultimos(sticks, hasta)}
  BY <1>60 DEF Cortes
<1>70. SUFFICES CuerpoDelBucle(sticks, g, a) = Cortes(sticks, k, dir, r)
  BY DEF a, dir
<1> HIDE DEF a
<1>8. CASE r = 0
  BY <1>6, <1>7, <1>8
<1>9. CASE r # 0 /\ cabe >= r
  <2>1. leo = r /\ sticks[k].base < hasta /\ hasta <= fin /\ hasta \in Nat
    BY <1>3, <1>9 DEF CuentasDeVuelta
  <2>3. Ultimos(sticks, hasta) = {k}
    BY <1>60, <2>1, UltimoTipo
  <2>4. Trozos(sticks, dir, hasta, k, k) = <<pedazo>>
    BY <1>2, <1>5, UnTrozo
  <2>5. {Trozos(sticks, dir, hasta, k, m) : m \in Ultimos(sticks, hasta)} = {<<pedazo>>}
    BY <2>3, <2>4
  <2>6. QED
    BY <1>6, <1>7, <1>9, <2>1, <2>5
<1>10. CASE r # 0 /\ ~(cabe >= r)
  <2>1. /\ leo # r /\ fin < hasta /\ r - leo \in Nat /\ r - leo # 0 /\ r - leo <= r
        /\ fin + 0 = fin /\ fin + (r - leo) = hasta
        /\ hasta \in Nat /\ fin \in Nat /\ dir \in Nat /\ sticks[k].base <= dir /\ dir < fin
    BY <1>3, <1>10 DEF CuentasDeVuelta
  <2>2. CASE k = Len(sticks)
    <3>1. buscar_siguiente_stick(sticks, k) = {}
      BY <2>2, SiguienteEs
    <3>2. fin = total
      <4>1. sticks # <<>>
        BY <1>2, EmptySeq
      <4>2. QED
        BY <1>60, <2>2, <4>1 DEF SticksBien
    <3>3. Ultimos(sticks, hasta) = {}
      BY <1>2, <2>1, <3>2, UltimoTipo
    <3>4. QED
      BY <1>6, <1>7, <1>10, <2>1, <3>1, <3>3
  <2>3. CASE k # Len(sticks)
    <3> DEFINE b == [stick |-> k + 1, desde |-> 0, restan |-> r - leo]
    <3>1. /\ buscar_siguiente_stick(sticks, k) = {k + 1}
          /\ k + 1 \in DOMAIN sticks /\ sticks[k + 1].base = fin
      BY <1>60, <2>3, SiguienteEs DEF SticksBien
    <3>2. EnElSiguiente(k + 1, a, leo) = b
      BY DEF EnElSiguiente, a
    <3>3. r - leo \in 0 .. tamanio
      BY <2>1
    <3>4. 0 < sticks[k + 1].size
      BY <3>1, SticksTipo
    <3>5. b \in Lugares(sticks, tamanio)
      BY <3>1, <3>3, <3>4 DEF Lugares
    <3>7. g[b] = Cortes(sticks, k + 1, fin + 0, r - leo)
      BY <3>1, <3>5
    <3>70. g[b] = Cortes(sticks, k + 1, fin, r - leo)
      BY <2>1, <3>7
    <3> HIDE DEF b
    <3>71. g[b] = {Trozos(sticks, fin, hasta, k + 1, m) : m \in Ultimos(sticks, hasta)}
      BY <2>1, <3>70 DEF Cortes
    <3>8. CuerpoDelBucle(sticks, g, a) = {<<pedazo>> \o resto : resto \in g[b]}
      <4>1. {g[EnElSiguiente(j, a, leo)] : j \in buscar_siguiente_stick(sticks, k)} = {g[b]}
        BY <3>1, <3>2
      <4>2. UNION {g[b]} = g[b]
        OBVIOUS
      <4>3. QED
        BY <1>6, <1>10, <2>1, <4>1, <4>2
    <3>9. ASSUME NEW m \in Ultimos(sticks, hasta)
          PROVE  <<pedazo>> \o Trozos(sticks, fin, hasta, k + 1, m) = Trozos(sticks, dir, hasta, k, m)
      <4>1. m \in DOMAIN sticks /\ k < m
        BY <1>60, <2>1, UltimoTipo DEF Ultimos
      <4>2. dir < FinStick(sticks, k) /\ FinStick(sticks, k) < hasta
        BY <1>60, <2>1
      <4>3. <<Trozo(sticks, dir, hasta, k)>> \o Trozos(sticks, FinStick(sticks, k), hasta, k + 1, m)
                = Trozos(sticks, dir, hasta, k, m)
        BY <2>1, <3>1, <4>1, <4>2, TrozosDeMas
      <4>4. QED
        BY <1>5, <1>60, <4>3
    <3>10. {<<pedazo>> \o resto : resto \in g[b]} =
               {Trozos(sticks, dir, hasta, k, m) : m \in Ultimos(sticks, hasta)}
      <4> DEFINE U == Ultimos(sticks, hasta)
                 P(m) == Trozos(sticks, fin, hasta, k + 1, m)
                 Q(m) == Trozos(sticks, dir, hasta, k, m)
      <4>1. g[b] = {P(m) : m \in U} /\ \A m \in U : <<pedazo>> \o P(m) = Q(m)
        BY <3>71, <3>9
      <4> HIDE DEF U, P, Q
      <4>2. {<<pedazo>> \o resto : resto \in g[b]} = {Q(m) : m \in U}
        BY <4>1
      <4>3. QED
        BY <4>2 DEF U, Q
    <3>11. QED
      BY <1>7, <1>10, <3>8, <3>10
  <2>4. QED
    BY <2>2, <2>3
<1>11. QED
  BY <1>8, <1>9, <1>10

\* The cut satisfies the equation of the loop.
LEMMA CortesCumplen ==
    ASSUME NEW sticks, NEW total, SticksBien(sticks, total), NEW tamanio \in Nat,
           NEW g, \A b \in Lugares(sticks, tamanio) :
                     g[b] = Cortes(sticks, b.stick, sticks[b.stick].base + b.desde, b.restan),
           NEW a \in Lugares(sticks, tamanio)
    PROVE  CuerpoDelBucle(sticks, g, a) = g[a]
<1>1. /\ a.stick \in DOMAIN sticks /\ a.desde \in Nat /\ a.restan \in 0 .. tamanio
      /\ a.desde < sticks[a.stick].size
      /\ a = [stick |-> a.stick, desde |-> a.desde, restan |-> a.restan]
  BY LugarTipo
<1>2. CuerpoDelBucle(sticks, g, a) =
          Cortes(sticks, a.stick, sticks[a.stick].base + a.desde, a.restan)
  BY <1>1, UnaVuelta
<1>3. QED
  BY <1>2

\* Nothing else does.
LEMMA UnBucle ==
    ASSUME NEW sticks, NEW total, SticksBien(sticks, total), NEW tamanio \in Nat,
           NEW g, EsBucle(sticks, tamanio, g), NEW a \in Lugares(sticks, tamanio)
    PROVE  g[a] = Cortes(sticks, a.stick, sticks[a.stick].base + a.desde, a.restan)
<1> DEFINE C(b) == Cortes(sticks, b.stick, sticks[b.stick].base + b.desde, b.restan)
           f == [b \in Lugares(sticks, tamanio) |-> C(b)]
           malos == {b \in Lugares(sticks, tamanio) : g[b] # C(b)}
           restos == {b.restan : b \in malos}
<1>1. \A b \in Lugares(sticks, tamanio) : f[b] = C(b)
  OBVIOUS
<1>2. \A b \in Lugares(sticks, tamanio) : CuerpoDelBucle(sticks, f, b) = C(b)
  <2>1. SUFFICES ASSUME NEW b \in Lugares(sticks, tamanio) PROVE CuerpoDelBucle(sticks, f, b) = f[b]
    BY <1>1
  <2> HIDE DEF f
  <2>2. QED
    BY <1>1, CortesCumplen
<1>3. SUFFICES ASSUME malos # {} PROVE FALSE
  OBVIOUS
<1>4. restos \in SUBSET Nat /\ restos # {}
  BY <1>3, LugarTipo
<1>5. PICK r \in restos : \A q \in restos : r <= q
  <2> HIDE DEF restos
  <2> QED BY <1>4, HayPrimero
<1>6. PICK b \in malos : b.restan = r
  BY <1>5
<1>7. \A c \in Lugares(sticks, tamanio) : c.restan < b.restan => g[c] = f[c]
  <2>1. SUFFICES ASSUME NEW c \in Lugares(sticks, tamanio), c.restan < b.restan, g[c] # C(c)
                 PROVE  FALSE
    BY <1>1
  <2>2. c \in malos /\ c.restan \in restos /\ b \in Lugares(sticks, tamanio)
    BY <2>1
  <2>3. c.restan \in Nat /\ b.restan \in Nat
    BY <2>2, LugarTipo
  <2>4. QED
    BY <1>5, <1>6, <2>1, <2>2, <2>3
<1>8. b \in Lugares(sticks, tamanio) /\ g[b] # C(b)
  OBVIOUS
<1>9. g[b] = CuerpoDelBucle(sticks, g, b)
  BY <1>8 DEF EsBucle
<1> HIDE DEF f, malos, restos, C
<1>10. CuerpoDelBucle(sticks, g, b) = CuerpoDelBucle(sticks, f, b)
  <2> DEFINE cabe == sticks[b.stick].size - b.desde
             leo == IF cabe >= b.restan THEN b.restan ELSE cabe
             pedazo == [stick |-> b.stick, desde |-> b.desde, tamanio |-> leo]
  <2>1. /\ b.stick \in DOMAIN sticks /\ b.desde \in Nat /\ b.restan \in Nat
        /\ b.restan <= tamanio /\ b.desde < sticks[b.stick].size
    BY <1>8, LugarTipo
  <2>2. sticks[b.stick].size \in Nat
    BY <2>1, SticksTipo
  <2>3. CASE b.restan = 0 \/ leo = b.restan
    <3> HIDE DEF leo
    <3>1. \A h : CuerpoDelBucle(sticks, h, b) =
                    IF b.restan = 0 THEN {<<>>} ELSE {<<pedazo>>}
      BY <2>3 DEF CuerpoDelBucle, leo
    <3>2. QED
      BY <3>1
  <2>4. CASE b.restan # 0 /\ leo # b.restan
    <3>1. leo = cabe /\ leo \in Nat /\ leo > 0 /\ leo < b.restan
      BY <2>1, <2>2, <2>4
    <3>2. ASSUME NEW k \in buscar_siguiente_stick(sticks, b.stick)
          PROVE  g[EnElSiguiente(k, b, leo)] = f[EnElSiguiente(k, b, leo)]
      <4> HIDE DEF leo, cabe
      <4>1. k \in DOMAIN sticks
        <5>1. b.stick # Len(sticks) /\ k = b.stick + 1
          BY <2>1, <3>2, SiguienteEs
        <5>2. QED
          BY <2>1, <5>1 DEF SticksBien
      <4>2. 0 < sticks[k].size
        BY <4>1, SticksTipo
      <4>3. b.restan - leo \in 0 .. tamanio /\ b.restan - leo < b.restan
        BY <2>1, <3>1
      <4>4. EnElSiguiente(k, b, leo) \in Lugares(sticks, tamanio)
        BY <4>1, <4>2, <4>3 DEF Lugares, EnElSiguiente
      <4>5. EnElSiguiente(k, b, leo).restan = b.restan - leo
        BY DEF EnElSiguiente
      <4>6. QED
        BY <1>7, <4>3, <4>4, <4>5
    <3>3. \A h : CuerpoDelBucle(sticks, h, b) =
                    {<<pedazo>> \o resto : resto \in
                        UNION {h[EnElSiguiente(k, b, leo)] :
                                  k \in buscar_siguiente_stick(sticks, b.stick)}}
      BY <2>4 DEF CuerpoDelBucle
    <3> HIDE DEF leo, cabe, pedazo
    <3>4. {g[EnElSiguiente(k, b, leo)] : k \in buscar_siguiente_stick(sticks, b.stick)} =
          {f[EnElSiguiente(k, b, leo)] : k \in buscar_siguiente_stick(sticks, b.stick)}
      BY <3>2
    <3>5. QED
      BY <3>3, <3>4
  <2>5. QED
    BY <2>3, <2>4
<1>11. QED
  BY <1>2, <1>8, <1>9, <1>10

\* The pieces of a range that begins in a stick.
LEMMA PedazosSon ==
    ASSUME NEW sticks, NEW total, SticksBien(sticks, total), NEW tamanio \in Nat,
           NEW k \in DOMAIN sticks, NEW dir \in Nat,
           sticks[k].base <= dir, dir < FinStick(sticks, k)
    PROVE  Pedazos(sticks, k, dir - sticks[k].base, tamanio) = Cortes(sticks, k, dir, tamanio)
<1> DEFINE L == Lugares(sticks, tamanio)
           f == [b \in L |-> Cortes(sticks, b.stick, sticks[b.stick].base + b.desde, b.restan)]
           lugar == [stick |-> k, desde |-> dir - sticks[k].base, restan |-> tamanio]
           g == CHOOSE h : EsBucle(sticks, tamanio, h)
<1>1. EsBucle(sticks, tamanio, f)
  <2>1. \A b \in L : f[b] = Cortes(sticks, b.stick, sticks[b.stick].base + b.desde, b.restan)
    OBVIOUS
  <2>2. f = [b \in L |-> f[b]]
    OBVIOUS
  <2> HIDE DEF f
  <2>3. \A b \in L : CuerpoDelBucle(sticks, f, b) = f[b]
    BY <2>1, CortesCumplen
  <2>4. f = [b \in L |-> CuerpoDelBucle(sticks, f, b)]
    BY <2>2, <2>3
  <2>5. QED
    BY <2>4 DEF EsBucle
<1>2. EsBucle(sticks, tamanio, g)
  <2> HIDE DEF f
  <2> QED BY <1>1
<1>3. sticks[k].base \in Nat /\ sticks[k].size \in Nat /\ FinStick(sticks, k) = sticks[k].base + sticks[k].size
  BY SticksTipo DEF FinStick
<1>4. lugar \in L /\ sticks[k].base + (dir - sticks[k].base) = dir
  BY <1>3 DEF Lugares
<1> HIDE DEF g
<1>5. g[lugar] = Cortes(sticks, k, sticks[k].base + (dir - sticks[k].base), tamanio)
  BY <1>2, <1>4, UnBucle
<1>6. QED
  BY <1>4, <1>5, PedazosDef DEF g

-----------------------------------------------------------------------------
(* The addresses of a list of pieces.                                      *)

\* Direcciones is the range the pieces make up.
LEMMA DireccionesSon ==
    ASSUME NEW sticks, NEW l, NEW desde \in Nat, NEW hasta \in Nat,
           Contiguos(sticks, l, desde, hasta)
    PROVE  Direcciones(sticks, l) = Rango(desde, hasta)
<1> DEFINE N == 0 .. Len(l)
           Es(g) == g = [n \in N |-> IF n = 0 THEN <<>> ELSE g[n - 1] \o DireccionesDe(sticks, l[n])]
           g == CHOOSE h : Es(h)
<1>1. Len(l) \in Nat /\ \A j \in 1 .. Len(l) : l[j] \in Pieza(sticks)
  BY ElementOfSeq, LenProperties DEF Contiguos
<1>2. PICK a : Cotas(sticks, l, desde, hasta, a)
  BY DEF Contiguos
<1>3. /\ \A n \in N : a[n + 1] \in Nat /\ desde <= a[n + 1]
      /\ \A n \in N : n # 0 => /\ a[n] \in Nat /\ desde <= a[n]
                               /\ DireccionesDe(sticks, l[n]) = Rango(a[n], a[n + 1])
                               /\ a[n] <= a[n + 1]
  <2>1. \A i \in 1 .. Len(l) + 1 : a[i] \in Nat /\ desde <= a[i]
    BY <1>1, <1>2 DEF Cotas
  <2>2. ASSUME NEW n \in N, n # 0
        PROVE  DireccionesDe(sticks, l[n]) = Rango(a[n], a[n + 1]) /\ a[n] <= a[n + 1]
    <3>1. n \in 1 .. Len(l) /\ l[n].tamanio \in Nat
      BY <1>1, <2>2 DEF Pieza
    <3>2. /\ sticks[l[n].stick].base + l[n].desde = a[n]
          /\ a[n + 1] = a[n] + l[n].tamanio /\ a[n] \in Nat
      BY <1>1, <1>2, <2>1, <3>1 DEF Cotas
    <3>3. a[n + 1] - a[n] = l[n].tamanio
      BY <3>1, <3>2
    <3>4. QED
      BY <3>1, <3>2, <3>3 DEF DireccionesDe, Rango
  <2>3. QED
    BY <1>1, <2>1, <2>2
<1>4. Rango(desde, desde) = <<>>
  <2>1. Rango(desde, desde) \in [1 .. 0 -> Nat]
    BY DEF Rango
  <2>2. Rango(desde, desde) \in Seq(Nat) /\ Len(Rango(desde, desde)) = 0
    BY <2>1, FuncionEsLista
  <2>3. QED
    BY <2>2, EmptySeq
<1>5. \A n \in N : n # 0 =>
          Rango(desde, a[n]) \o DireccionesDe(sticks, l[n]) = Rango(desde, a[n + 1])
  <2>1. SUFFICES ASSUME NEW n \in N, n # 0
                 PROVE  Rango(desde, a[n]) \o DireccionesDe(sticks, l[n]) = Rango(desde, a[n + 1])
    OBVIOUS
  <2>2. /\ a[n] \in Nat /\ a[n + 1] \in Nat /\ desde <= a[n] /\ a[n] <= a[n + 1]
        /\ DireccionesDe(sticks, l[n]) = Rango(a[n], a[n + 1])
    BY <1>3, <2>1
  <2>3. Rango(desde, a[n]) \o Rango(a[n], a[n + 1]) = Rango(desde, a[n + 1])
    BY <2>2, RangoMas
  <2>4. QED
    BY <2>2, <2>3
<1>50. a[1] = desde /\ a[Len(l) + 1] = hasta
  BY <1>2 DEF Cotas
<1> DEFINE f == [n \in N |-> Rango(desde, a[n + 1])]
<1>6. \A n \in N : n # 0 => n - 1 \in N /\ (n - 1) + 1 = n
  BY <1>1
<1>7. \A n \in N : n # 0 => f[n - 1] = Rango(desde, a[n])
  <2>1. SUFFICES ASSUME NEW n \in N, n # 0 PROVE f[n - 1] = Rango(desde, a[n])
    OBVIOUS
  <2>2. f[n - 1] = Rango(desde, a[(n - 1) + 1])
    BY <1>6, <2>1
  <2>3. QED
    BY <1>6, <2>1, <2>2
<1>8. Es(f)
  <2>1. ASSUME NEW n \in N
        PROVE  f[n] = IF n = 0 THEN <<>> ELSE f[n - 1] \o DireccionesDe(sticks, l[n])
    <3>0. f[n] = Rango(desde, a[n + 1])
      OBVIOUS
    <3> HIDE DEF f
    <3>1. CASE n = 0
      BY <1>4, <1>50, <3>0, <3>1
    <3>2. CASE n # 0
      BY <1>5, <1>7, <3>0, <3>2
    <3>3. QED
      BY <3>1, <3>2
  <2>2. f = [n \in N |-> f[n]]
    OBVIOUS
  <2> HIDE DEF f, N
  <2>3. QED
    BY <2>1, <2>2
<1>9. Es(g)
  <2> HIDE DEF f, Es
  <2> QED BY <1>8
<1> DEFINE malos == {n \in N : g[n] # Rango(desde, a[n + 1])}
<1>10. malos = {}
  <2> HIDE DEF g, f
  <2>1. SUFFICES ASSUME malos # {} PROVE FALSE
    OBVIOUS
  <2>2. malos \in SUBSET Nat
    BY <1>1
  <2>3. PICK n \in malos : \A m \in malos : n <= m
    <3> HIDE DEF malos
    <3> QED BY <2>1, <2>2, HayPrimero
  <2>4. n \in N /\ g[n] # Rango(desde, a[n + 1])
    OBVIOUS
  <2>5. g[n] = IF n = 0 THEN <<>> ELSE g[n - 1] \o DireccionesDe(sticks, l[n])
    BY <1>9, <2>4
  <2>6. CASE n = 0
    BY <1>4, <1>50, <2>4, <2>5, <2>6
  <2>7. CASE n # 0
    <3>1. n - 1 \in N /\ (n - 1) + 1 = n /\ ~(n <= n - 1)
      BY <1>1, <2>4, <2>7
    <3>2. g[n - 1] = Rango(desde, a[(n - 1) + 1])
      BY <2>3, <3>1
    <3>3. g[n - 1] = Rango(desde, a[n])
      BY <3>1, <3>2
    <3>4. QED
      BY <1>5, <2>4, <2>5, <2>7, <3>3
  <2>8. QED
    BY <2>6, <2>7
<1>11. Len(l) \in N
  BY <1>1
<1>12. g[Len(l)] = Rango(desde, hasta)
  <2> HIDE DEF g, f, N
  <2> QED BY <1>10, <1>11, <1>50
<1>13. Direcciones(sticks, l) = g[Len(l)]
  BY Zenon DEF Direcciones
<1>14. QED
  BY <1>12, <1>13

-----------------------------------------------------------------------------
(* Translation.                                                            *)

\* The pieces of a physical range, looked for in either way.
DesdeBase(sticks, dir, tamanio) ==
    UNION {Pedazos(sticks, k, dir - sticks[k].base, tamanio) : k \in buscar_stick_base(sticks, dir)}

\* What pedazos_fisico gives for a physical range: its pieces if it ends inside the memory.
LEMMA FisicoDa ==
    ASSUME NEW sticks, NEW total, SticksBien(sticks, total), NEW dir \in Nat,
           NEW tamanio \in Nat \ {0}
    PROVE  /\ dir + tamanio <= total =>
                \E l : /\ pedazos_fisico(sticks, dir, tamanio) = {l}
                      /\ DesdeBase(sticks, dir, tamanio) = {l}
                      /\ Contiguos(sticks, l, dir, dir + tamanio)
           /\ ~(dir + tamanio <= total) => /\ pedazos_fisico(sticks, dir, tamanio) = {}
                                          /\ DesdeBase(sticks, dir, tamanio) = {}
<1>1. total \in Nat
  BY SticksTipo
<1>2. CASE dir < total
  <2>1. PICK k \in DOMAIN sticks : sticks[k].base <= dir /\ dir < FinStick(sticks, k)
    BY <1>2, HayStick
  <2>2. buscar_stick_base(sticks, dir) = {k} /\ StickDe(sticks, dir) = {k}
    BY <2>1, BuscarStick
  <2> DEFINE C == Cortes(sticks, k, dir, tamanio)
  <2>3. Pedazos(sticks, k, dir - sticks[k].base, tamanio) = C
    BY <2>1, PedazosSon
  <2>4. /\ dir + tamanio <= total => \E l : C = {l} /\ Contiguos(sticks, l, dir, dir + tamanio)
        /\ ~(dir + tamanio <= total) => C = {}
    BY <2>1, CortesDan
  <2> HIDE DEF C
  <2>5. /\ {Pedazos(sticks, j, dir - sticks[j].base, tamanio) : j \in {k}} = {C}
        /\ UNION {C} = C
    BY <2>3
  <2>6. pedazos_fisico(sticks, dir, tamanio) = C /\ DesdeBase(sticks, dir, tamanio) = C
    BY <2>2, <2>5 DEF pedazos_fisico, DesdeBase
  <2>7. QED
    BY <2>4, <2>6
<1>3. CASE ~(dir < total)
  <2>1. buscar_stick_base(sticks, dir) = {} /\ StickDe(sticks, dir) = {}
    BY <1>1, <1>3, BuscarStick
  <2>2. pedazos_fisico(sticks, dir, tamanio) = {} /\ DesdeBase(sticks, dir, tamanio) = {}
    BY <2>1 DEF pedazos_fisico, DesdeBase
  <2>3. ~(dir + tamanio <= total)
    BY <1>1, <1>3
  <2>4. QED
    BY <2>2, <2>3
<1>4. QED
  BY <1>2, <1>3

\* What a table of segments must be for the translation to mean anything.
TablaTraducible(segmentos, total) ==
    /\ \A s \in segmentos : s.base \in Nat /\ s.limite \in Nat /\ s.base + s.limite <= total
    /\ \A s, t \in segmentos : s.id = t.id => s = t

\* The range is inside segment s.
Dentro(s, dir, tamanio) ==
    s.id = numero_de_segmento(dir) /\ desplazamiento(dir) + tamanio <= s.limite

\* traducir_logica_a_fisica gives the bytes of the range if it is inside a segment, and nothing
\* otherwise.
LEMMA TraduccionDa ==
    ASSUME NEW sticks, NEW total, SticksBien(sticks, total),
           UINT32 \in Nat \ {0}, SEGMENT_MAX_SIZE \in 1 .. UINT32 - 1, total < UINT32,
           NEW segmentos, TablaTraducible(segmentos, total),
           NEW dir \in Nat, NEW tamanio \in 1 .. UINT32 - 1
    PROVE  /\ \A s \in segmentos : Dentro(s, dir, tamanio) =>
                \E l : /\ traducir_logica_a_fisica(segmentos, sticks, dir, tamanio) = {l}
                      /\ Contiguos(sticks, l, s.base + desplazamiento(dir),
                                   s.base + desplazamiento(dir) + tamanio)
           /\ (\A s \in segmentos : ~Dentro(s, dir, tamanio)) =>
                traducir_logica_a_fisica(segmentos, sticks, dir, tamanio) = {}
<1> DEFINE d == desplazamiento(dir)
           lo == {t \in segmentos : /\ t.id = numero_de_segmento(dir)
                                    /\ ~hay_segmentation_fault(d, t.limite, tamanio)}
           T(s) == DesdeBase(sticks, s.base + d, tamanio)
<1>1. d \in Nat /\ d < UINT32 /\ tamanio \in Nat \ {0} /\ total \in Nat
  BY SticksTipo DEF desplazamiento
<1> DEFINE P(s, k) == Pedazos(sticks, k, s.base + d - sticks[k].base, tamanio)
           Q(s, k) == Pedazos(sticks, k, (s.base + d) - sticks[k].base, tamanio)
           B(s) == buscar_stick_base(sticks, s.base + d)
<1>20. traducir_logica_a_fisica(segmentos, sticks, dir, tamanio) =
           UNION {UNION {P(s, k) : k \in B(s)} : s \in lo}
  BY Zenon DEF traducir_logica_a_fisica
<1>21. ASSUME NEW s \in segmentos, NEW k \in B(s) PROVE P(s, k) = Q(s, k)
  <2>1. s.base \in Nat /\ s.base + d \in Nat
    BY <1>1 DEF TablaTraducible
  <2>2. k \in DOMAIN sticks
    <3>1. CASE s.base + d < total
      <4>1. PICK j \in DOMAIN sticks : sticks[j].base <= s.base + d /\ s.base + d < FinStick(sticks, j)
        BY <2>1, <3>1, HayStick
      <4>2. buscar_stick_base(sticks, s.base + d) = {j}
        BY <2>1, <4>1, BuscarStick
      <4>3. QED
        BY <4>2
    <3>2. CASE ~(s.base + d < total)
      <4>1. buscar_stick_base(sticks, s.base + d) = {}
        BY <1>1, <2>1, <3>2, BuscarStick
      <4>2. QED
        BY <4>1
    <3>3. QED
      BY <3>1, <3>2
  <2>3. sticks[k].base \in Nat
    BY <2>2, SticksTipo
  <2>4. s.base + d - sticks[k].base = (s.base + d) - sticks[k].base
    BY <1>1, <2>1, <2>3
  <2>5. QED
    BY <2>4
<1>22. \A s : T(s) = UNION {Q(s, k) : k \in B(s)}
  BY Zenon DEF DesdeBase
<1>23. \A s \in lo : s \in segmentos
  OBVIOUS
<1>2. traducir_logica_a_fisica(segmentos, sticks, dir, tamanio) = UNION {T(s) : s \in lo}
  <2> HIDE DEF lo, d, T, P, Q, B
  <2>1. ASSUME NEW s \in lo PROVE UNION {P(s, k) : k \in B(s)} = T(s)
    <3>1. \A k \in B(s) : P(s, k) = Q(s, k)
      BY <1>21, <1>23
    <3>2. {P(s, k) : k \in B(s)} = {Q(s, k) : k \in B(s)}
      BY <3>1
    <3>3. QED
      BY <1>22, <3>2
  <2>2. {UNION {P(s, k) : k \in B(s)} : s \in lo} = {T(s) : s \in lo}
    BY <2>1
  <2>3. QED
    BY <1>20, <2>2
<1> HIDE DEF d, T, P, Q, B
<1>3. ASSUME NEW s \in segmentos
      PROVE  /\ s.base \in Nat /\ s.limite \in Nat /\ s.base + s.limite <= total
             /\ s.base + d \in Nat
  BY <1>1 DEF TablaTraducible
<1>4. ASSUME NEW s \in segmentos, s.id = numero_de_segmento(dir), d + tamanio <= s.limite
      PROVE  \E l : /\ traducir_logica_a_fisica(segmentos, sticks, dir, tamanio) = {l}
                    /\ Contiguos(sticks, l, s.base + d, s.base + d + tamanio)
  <2>1. d + tamanio < UINT32 /\ d + tamanio \in Nat
    BY <1>1, <1>3, <1>4
  <2>2. (d + tamanio) % UINT32 = d + tamanio
    BY <2>1
  <2>3. s \in lo
    BY <1>3, <1>4, <2>1, <2>2 DEF hay_segmentation_fault, Mas
  <2>4. \A t \in lo : t = s
    BY <1>4 DEF TablaTraducible
  <2>5. lo = {s}
    BY <2>3, <2>4
  <2> HIDE DEF lo
  <2>6. {T(t) : t \in lo} = {T(s)} /\ UNION {T(s)} = T(s)
    BY <2>5
  <2>7. s.base + d + tamanio <= total
    BY <1>1, <1>3, <1>4
  <2>8. PICK l : T(s) = {l} /\ Contiguos(sticks, l, s.base + d, s.base + d + tamanio)
    BY <1>1, <1>3, <2>7, FisicoDa DEF T
  <2>9. traducir_logica_a_fisica(segmentos, sticks, dir, tamanio) = {l}
    BY <1>2, <2>6, <2>8
  <2>10. QED
    BY <2>8, <2>9
<1>5. ASSUME \A s \in segmentos : ~(s.id = numero_de_segmento(dir) /\ d + tamanio <= s.limite)
      PROVE  traducir_logica_a_fisica(segmentos, sticks, dir, tamanio) = {}
  <2>1. ASSUME NEW s \in lo PROVE T(s) = {}
    <3>1. s \in segmentos /\ ~(d + tamanio <= s.limite) /\ (d + tamanio) % UINT32 <= s.limite
      BY <1>1, <1>3, <1>5 DEF hay_segmentation_fault, Mas
    <3>2. d + tamanio >= UINT32
      <4>1. d + tamanio < UINT32 => (d + tamanio) % UINT32 = d + tamanio
        BY <1>1
      <4>2. QED
        BY <1>1, <1>3, <3>1, <4>1
    <3>3. ~((s.base + d) + tamanio <= total)
      BY <1>1, <1>3, <3>1, <3>2
    <3>4. QED
      BY <1>1, <1>3, <3>1, <3>3, FisicoDa DEF T
  <2> HIDE DEF lo
  <2>2. UNION {T(s) : s \in lo} = {}
    BY <2>1
  <2>3. QED
    BY <1>2, <2>2
<1>6. QED
  BY <1>4, <1>5 DEF Dentro, d

-----------------------------------------------------------------------------
(* Datos over Segmentacion: the sticks.                                    *)

\* A step of Datos is a step of Segmentacion with the bytes.
LEMMA PasoDeSegmentacion == [NextDatos]_varsDatos => [Next]_vars
<1>1. ASSUME NEW p \in PIDS, Pedidos(p) PROVE Next
  BY <1>1 DEF Pedidos, Next
<1>2. SinCopia => Next
  BY <1>1 DEF SinCopia, Next, Continuar
<1>3. Guardar \/ Traer \/ Restaurar \/ Mover => Next
  BY DEF Guardar, Traer, Restaurar, Mover, Next, Continuar
<1>4. ASSUME NEW tamanio \in STICKS, Conectar(tamanio) PROVE Next
  BY <1>4 DEF Conectar, Next
<1>5. ASSUME NEW p \in PIDS, Programa(p) PROVE [Next]_vars
  <2>1. CASE FinPorFallo(p)
    BY <2>1 DEF FinPorFallo, Next
  <2>2. CASE ~FinPorFallo(p)
    BY <1>5, <2>2 DEF Programa, ejecutar_mov_in, ejecutar_mov_out, ejecutar_copy_mem, Acceder,
       LeerPedazo, TraducirDestino, EscribirPedazo, TerminarAcceso
  <2>3. QED
    BY <2>1, <2>2
<1>6. NextDatos => [Next]_vars
  <2>1. CASE SinCopia \/ Guardar \/ Traer \/ Restaurar \/ Mover
    BY <1>2, <1>3, <2>1
  <2>2. CASE \E tamanio \in STICKS : Conectar(tamanio)
    BY <1>4, <2>2
  <2>3. CASE \E p \in PIDS : Programa(p)
    BY <1>5, <2>3
  <2>4. QED
    BY <2>1, <2>2, <2>3 DEF NextDatos
<1>7. UNCHANGED varsDatos => UNCHANGED vars
  BY DEF varsDatos
<1>8. QED
  BY <1>6, <1>7

\* So what was proved of Segmentacion holds of it.
LEMMA DatosEsSegmentacion == SpecDatos => Spec
<1>1. InitDatos => Init
  BY DEF InitDatos
<1>2. QED
  BY <1>1, PasoDeSegmentacion, PTL DEF SpecDatos, Spec

\* Only agregar_memory_stick changes how much memory there is.
LEMMA MismosSticks ==
    ASSUME [NextDatos]_varsDatos, \A tamanio \in STICKS : ~Conectar(tamanio)
    PROVE  UNCHANGED <<lista_memory_sticks, memoria_total_size>>
<1>1. ASSUME NEW p \in PIDS, Pedidos(p) PROVE UNCHANGED memoria_total_size
  BY <1>1 DEF Pedidos, InicializarProceso, FinEnSwap, IniciarSuspension, IniciarDesuspension,
     EliminarSegmento, CrearSegmento, PedirCompactacion
<1>2. ASSUME NEW p \in PIDS, IniciarFin(p) PROVE UNCHANGED memoria_total_size
  BY <1>2 DEF IniciarFin
<1>3. Continuar \/ IniciarCompactacion => UNCHANGED memoria_total_size
  BY DEF Continuar, IniciarCompactacion, LiberarDeMuerto, TerminarFin, OcuparBloque, LiberarFisica,
     TerminarSuspension, FallarSuspension, AsignarFisica, DesocuparBloque, TerminarDesuspension,
     FallarDesuspension, MoverSegmento, TerminarCompactacion
<1>4. CASE SinCopia
  BY <1>1, <1>2, <1>3, <1>4 DEF SinCopia, Continuar, datos
<1>5. CASE Guardar \/ Traer \/ Restaurar \/ Mover
  BY <1>3, <1>5 DEF Guardar, Traer, Restaurar, Mover, Continuar
<1>6. ASSUME NEW p \in PIDS, Programa(p)
      PROVE  UNCHANGED <<lista_memory_sticks, memoria_total_size>>
  <2>1. CASE FinPorFallo(p)
    BY <1>2, <2>1 DEF FinPorFallo
  <2>2. CASE ~FinPorFallo(p)
    BY <1>6, <2>2 DEF Programa, ejecutar_mov_in, ejecutar_mov_out, ejecutar_copy_mem, Acceder,
       LeerPedazo, TraducirDestino, EscribirPedazo, TerminarAcceso, vars
  <2>3. QED
    BY <2>1, <2>2
<1>7. CASE UNCHANGED varsDatos
  BY <1>7 DEF varsDatos, vars, datos
<1>8. QED
  BY <1>4, <1>5, <1>6, <1>7 DEF NextDatos

\* The sticks cover the memory, which a uint32_t addresses.
InvSticks ==
    /\ SticksBien(lista_memory_sticks, memoria_total_size)
    /\ memoria_total_size <= MAX_MEMORIA

\* It is inductive.
LEMMA SticksPaso == InvSticks /\ [NextDatos]_varsDatos => InvSticks'
<1> SUFFICES ASSUME InvSticks, [NextDatos]_varsDatos PROVE InvSticks'
  OBVIOUS
<1>1. CASE \A tamanio \in STICKS : ~Conectar(tamanio)
  BY <1>1, MismosSticks DEF InvSticks
<1>2. ASSUME NEW tamanio \in STICKS, Conectar(tamanio) PROVE InvSticks'
  <2>1. tamanio \in Nat \ {0}
    BY TamaniosAssumption
  <2>2. /\ lista_memory_sticks' =
              Append(lista_memory_sticks, [base |-> memoria_total_size, size |-> tamanio])
        /\ memoria_total_size' = memoria_total_size + tamanio
        /\ memoria_total_size' <= MAX_MEMORIA
    BY <1>2 DEF Conectar, AgregarStick
  <2>3. SticksBien(lista_memory_sticks, memoria_total_size)
    BY DEF InvSticks
  <2>4. SticksBien(lista_memory_sticks', memoria_total_size')
    BY <2>1, <2>2, <2>3, SticksMas
  <2>5. QED
    BY <2>2, <2>4 DEF InvSticks
<1>3. QED
  BY <1>1, <1>2

\* And holds at the start.
LEMMA SticksInicial == InitDatos => InvSticks
<1> SUFFICES ASSUME InitDatos PROVE InvSticks
  OBVIOUS
<1>1. lista_memory_sticks = <<>> /\ memoria_total_size = 0
  BY DEF InitDatos, Init
<1>2. lista_memory_sticks \in Seq([base : Nat, size : Nat \ {0}]) /\ DOMAIN lista_memory_sticks = {}
  BY <1>1
<1>3. QED
  BY <1>1, <1>2, LimitesAssumption DEF InvSticks, SticksBien

-----------------------------------------------------------------------------
(* The translation.                                                        *)

\* An identifier and a displacement come back from the address made of them.
LEMMA DivMod ==
    ASSUME NEW id \in Nat, NEW m \in Nat \ {0}, NEW desp \in 0 .. m - 1
    PROVE  (id * m + desp) \div m = id /\ (id * m + desp) % m = desp
  OBVIOUS

\* What the addresses of the programs are.
LEMMA DireccionTipo ==
    ASSUME NEW dir \in DIRECCIONES
    PROVE  /\ dir \in Nat /\ numero_de_segmento(dir) \in IDS
           /\ desplazamiento(dir) \in Nat /\ desplazamiento(dir) < SEGMENT_MAX_SIZE
<1>1. PICK id \in IDS, desp \in 0 .. SEGMENT_MAX_SIZE - 1 : dir = id * SEGMENT_MAX_SIZE + desp
  BY DEF DIRECCIONES
<1>2. id \in Nat /\ SEGMENT_MAX_SIZE \in Nat \ {0}
  BY DatosAssumption
<1>3. dir \div SEGMENT_MAX_SIZE = id /\ dir % SEGMENT_MAX_SIZE = desp
  BY <1>1, <1>2, DivMod
<1>4. QED
  BY <1>1, <1>2, <1>3 DEF numero_de_segmento, desplazamiento

\* The tables and the sticks are what the lemmas about the MMU need.
LEMMA Traducibles ==
    ASSUME TypeOK, Firme, InvSticks, NEW p \in PIDS
    PROVE  /\ TablaTraducible(tabla_segmentos[p], memoria_total_size)
           /\ memoria_total_size < UINT32
           /\ UINT32 \in Nat \ {0} /\ SEGMENT_MAX_SIZE \in 1 .. UINT32 - 1
           /\ SticksBien(lista_memory_sticks, memoria_total_size)
<1>1. \A s \in tabla_segmentos[p] : s \in Segmento
  BY DEF TypeOK
<1>2. \A s \in tabla_segmentos[p] :
          s.base \in Nat /\ s.limite \in Nat /\ s.base + s.limite <= memoria_total_size
  BY <1>1 DEF Segmento, Firme, DentroBien, Fin
<1>3. \A s, t \in tabla_segmentos[p] : s.id = t.id => s = t
  BY DEF Firme, TablasBien
<1>4. memoria_total_size \in Nat /\ MAX_MEMORIA \in Nat
  BY LimitesAssumption DEF TypeOK
<1>5. QED
  BY <1>2, <1>3, <1>4, DatosAssumption DEF TablaTraducible, InvSticks

\* The pieces of an access are contiguous and there are some if and only if it is inside.
LEMMA AccesoTraducido ==
    ASSUME TypeOK, Firme, InvSticks, NEW p \in PIDS, NEW dir \in DIRECCIONES,
           NEW tamanio \in 1 .. UINT32 - 1
    PROVE  /\ \A s \in tabla_segmentos[p] : Dentro(s, dir, tamanio) =>
                \E l : /\ traducir_logica_a_fisica(tabla_segmentos[p], lista_memory_sticks, dir, tamanio) = {l}
                      /\ Contiguos(lista_memory_sticks, l, s.base + desplazamiento(dir),
                                   s.base + desplazamiento(dir) + tamanio)
           /\ (\A s \in tabla_segmentos[p] : ~Dentro(s, dir, tamanio)) =>
                traducir_logica_a_fisica(tabla_segmentos[p], lista_memory_sticks, dir, tamanio) = {}
<1>1. dir \in Nat
  BY DireccionTipo
<1>2. QED
  BY <1>1, Traducibles, TraduccionDa

\* A range by its size.
LEMMA RangoDe ==
    ASSUME NEW desde \in Nat, NEW tamanio \in Nat
    PROVE  Rango(desde, desde + tamanio) = [i \in 1 .. tamanio |-> desde + i - 1]
<1>1. desde + tamanio - desde = tamanio
  OBVIOUS
<1>2. QED
  BY <1>1 DEF Rango

\* The property in every state the invariants allow.
LEMMA TraduccionFirme ==
    ASSUME TypeOK, Firme, InvSticks
    PROVE  TraduccionExacta
<1> SUFFICES ASSUME NEW p \in PIDS, NEW dir \in DIRECCIONES, NEW tamanio \in 1 .. UINT32 - 1
             PROVE  {Dirs(l) : l \in traducir_logica_a_fisica(tabla_segmentos[p], lista_memory_sticks,
                                                              dir, tamanio)} =
                    {[i \in 1 .. tamanio |-> s.base + desplazamiento(dir) + i - 1] :
                        s \in {s \in tabla_segmentos[p] :
                                 /\ s.id = numero_de_segmento(dir)
                                 /\ desplazamiento(dir) + tamanio <= s.limite}}
  <2>1. lista_procesos \ perdidos \subseteq PIDS
    BY DEF TypeOK
  <2>2. QED
    BY <2>1 DEF TraduccionExacta
<1> DEFINE lo == {s \in tabla_segmentos[p] : /\ s.id = numero_de_segmento(dir)
                                             /\ desplazamiento(dir) + tamanio <= s.limite}
           tr == traducir_logica_a_fisica(tabla_segmentos[p], lista_memory_sticks, dir, tamanio)
           R(s) == [i \in 1 .. tamanio |-> s.base + desplazamiento(dir) + i - 1]
<1>1. lo = {s \in tabla_segmentos[p] : Dentro(s, dir, tamanio)}
  BY DEF Dentro
<1>2. \A s \in lo : \A t \in lo : s = t
  BY Traducibles DEF TablaTraducible
<1>3. CASE lo = {}
  <2>1. tr = {}
    BY <1>1, <1>3, AccesoTraducido
  <2>2. QED
    BY <1>3, <2>1
<1>4. CASE lo # {}
  <2>1. PICK s \in lo : TRUE
    BY <1>4
  <2>2. PICK l : tr = {l} /\ Contiguos(lista_memory_sticks, l, s.base + desplazamiento(dir),
                                   s.base + desplazamiento(dir) + tamanio)
    BY <1>1, <2>1, AccesoTraducido
  <2>3. s.base + desplazamiento(dir) \in Nat /\ tamanio \in Nat
        /\ s.base + desplazamiento(dir) + tamanio \in Nat
    BY <2>1, DireccionTipo, Traducibles DEF TablaTraducible
  <2> DEFINE b == s.base + desplazamiento(dir)
  <2>4. Dirs(l) = R(s)
    <3>1. Dirs(l) = Rango(b, b + tamanio)
      BY <2>2, <2>3, DireccionesSon DEF Dirs
    <3>2. Rango(b, b + tamanio) = [i \in 1 .. tamanio |-> b + i - 1]
      BY <2>3, RangoDe
    <3>3. QED
      BY <3>1, <3>2
  <2>5. lo = {s}
    BY <1>2, <2>1
  <2> HIDE DEF lo, tr, R
  <2>6. {Dirs(k) : k \in tr} = {Dirs(l)} /\ {R(t) : t \in lo} = {R(s)}
    BY <2>2, <2>5
  <2>7. QED
    BY <2>4, <2>6 DEF lo, tr, R
<1>5. QED
  BY <1>3, <1>4

\* The translation of every access a process may ask for gives the bytes of the range, in
\* order, or NULL if the range leaves the segment, whatever sticks connected and in whatever
\* sizes, also when the sum of the uint32_t wraps, and also after failures of swap (mmu.c).
THEOREM TraduccionCorrecta == SpecDatos => []TraduccionExacta
<1>1. SpecDatos => []InvSticks
  BY SticksInicial, SticksPaso, PTL DEF SpecDatos
<1>2. TypeOK /\ InvFirme /\ InvSticks => TraduccionExacta
  BY TraduccionFirme DEF InvFirme
<1>3. QED
  BY <1>1, <1>2, DatosEsSegmentacion, TipoCorrecto, RegistroCorrecto, PTL

-----------------------------------------------------------------------------
(* What holds of the accesses and of the copies.                           *)

\* The types of Datos.
Accesos == [op : {"ninguno", "leer", "copiar", "escribir", "fallo"}, dir : Nat, destino : Nat,
            tamanio : Nat, datos : Seq(VALORES), hecho : Nat,
            faltan : Seq([stick : Nat, desde : Nat, tamanio : Nat])]

DatosTipo ==
    /\ bytes \in [0 .. memoria_total_size - 1 -> VALORES]
    /\ archivo \in [0 .. SWAP_NUM_BLOQUES * SWAP_BLOCK_SIZE - 1 -> VALORES]
    /\ acceso \in [PIDS -> Accesos]

\* What desuspender_proceso holds between the read and the write is what the block holds.
CopiaBien ==
    hilo.op = "desocupar" =>
        \E t \in tabla_swap : /\ t.pid = hilo.pid /\ t.segmento_id = hilo.id
                              /\ copia = leer_Bloque(t.bloque, t.tamanio)

\* How many bytes of the access are done.
Hechos(a) == IF a.op = "escribir" THEN a.hecho ELSE Len(a.datos)

\* The access is neither over nor refused.
EnCurso(p) == acceso[p].op \in {"leer", "copiar", "escribir"}

\* What is left of an access is the rest of its range, in a segment that has not moved, and no
\* compaction goes on.
CursoBien(p, a) ==
    /\ hilo.op # "compactar"
    /\ a.dir \in DIRECCIONES /\ a.tamanio \in 1 .. UINT32 - 1
    /\ \E s \in tabla_segmentos[p] :
        /\ Dentro(s, a.dir, a.tamanio)
        /\ Contiguos(lista_memory_sticks, a.faltan,
                     s.base + desplazamiento(a.dir) + Hechos(a),
                     s.base + desplazamiento(a.dir) + a.tamanio)
    /\ IF a.op = "escribir" THEN Len(a.datos) = a.tamanio ELSE a.hecho = 0
    /\ a.op = "copiar" => a.destino \in DIRECCIONES

\* Who accesses memory is there, and nothing is being done to its segments.
AccesosBien ==
    \A p \in PIDS :
        /\ acceso[p].op = "ninguno" => acceso[p] = Ninguno
        /\ acceso[p].op # "ninguno" =>
               /\ p \in lista_procesos \ perdidos /\ ~en_swap[p]
               /\ hilo.op \in {"suspender", "liberar"} => hilo.pid # p
        /\ acceso[p].op = "fallo" => acceso[p].datos = <<>> /\ acceso[p].hecho = 0
        /\ EnCurso(p) => CursoBien(p, acceso[p])

\* The invariant of the accesses and of the copies.
InvDatos == DatosTipo /\ CopiaBien /\ AccesosBien

-----------------------------------------------------------------------------
(* Bytes read and written.                                                 *)

\* What is read from contiguous pieces.
LEMMA LeerSon ==
    ASSUME NEW l, NEW x \in Nat, NEW y \in Nat, Contiguos(lista_memory_sticks, l, x, y)
    PROVE  leer_pedazos(l) = [i \in 1 .. y - x |-> bytes[x + i - 1]]
<1>1. x <= y
  BY ContiguosTipo
<1>2. Dirs(l) = Rango(x, y)
  BY DireccionesSon DEF Dirs
<1>3. DOMAIN Dirs(l) = 1 .. y - x /\ \A i \in 1 .. y - x : Dirs(l)[i] = x + i - 1
  <2>1. DOMAIN Rango(x, y) = 1 .. y - x /\ \A i \in 1 .. y - x : Rango(x, y)[i] = x + i - 1
    BY <1>1, RangoTipo
  <2>2. QED
    BY ONLY <1>2, <2>1
<1>4. QED
  BY <1>3 DEF leer_pedazos

\* What the sticks hold after writing contiguous pieces.
LEMMA EscribirSon ==
    ASSUME NEW l, NEW x \in Nat, NEW y \in Nat, Contiguos(lista_memory_sticks, l, x, y),
           NEW v, DOMAIN bytes \subseteq Nat
    PROVE  escribir_pedazos(l, v) =
               [d \in DOMAIN bytes |-> IF x <= d /\ d < y THEN v[d - x + 1] ELSE bytes[d]]
<1>1. x <= y
  BY ContiguosTipo
<1>2. Dirs(l) = Rango(x, y)
  BY DireccionesSon DEF Dirs
<1> DEFINE dirs == Dirs(l)
<1>3. /\ DOMAIN dirs = 1 .. y - x /\ Len(dirs) = y - x /\ \A i \in 1 .. y - x : dirs[i] = x + i - 1
  <2>1. /\ DOMAIN Rango(x, y) = 1 .. y - x /\ Len(Rango(x, y)) = y - x
        /\ \A i \in 1 .. y - x : Rango(x, y)[i] = x + i - 1
    BY <1>1, RangoTipo
  <2>2. dirs = Rango(x, y)
    BY <1>2
  <2>3. QED
    BY ONLY <2>1, <2>2
<1> DEFINE E(d) == IF Contains(dirs, d) THEN v[CHOOSE i \in DOMAIN dirs : dirs[i] = d] ELSE bytes[d]
           F(d) == IF x <= d /\ d < y THEN v[d - x + 1] ELSE bytes[d]
<1>4. escribir_pedazos(l, v) = [d \in DOMAIN bytes |-> E(d)]
  BY DEF escribir_pedazos
<1>5. ASSUME NEW d \in DOMAIN bytes PROVE E(d) = F(d)
  <2>0. d \in Nat
    OBVIOUS
  <2>1. Contains(dirs, d) <=> \E i \in 1 .. y - x : dirs[i] = d
    BY <1>3 DEF Contains
  <2>2. CASE x <= d /\ d < y
    <3>1. d - x + 1 \in 1 .. y - x /\ dirs[d - x + 1] = d
      BY <1>1, <1>3, <2>0, <2>2, Restas
    <3>2. \A i \in 1 .. y - x : dirs[i] = d => i = d - x + 1
      BY <1>3, <2>0
    <3>3. (CHOOSE i \in DOMAIN dirs : dirs[i] = d) = d - x + 1
      <4> DEFINE P(i) == dirs[i] = d
      <4>1. d - x + 1 \in DOMAIN dirs /\ P(d - x + 1) /\ \A i \in DOMAIN dirs : P(i) => i = d - x + 1
        BY <1>3, <3>1, <3>2
      <4> HIDE DEF P, dirs
      <4>2. (CHOOSE i \in DOMAIN dirs : P(i)) = d - x + 1
        BY <4>1
      <4>3. QED
        BY <4>2 DEF P
    <3>4. Contains(dirs, d)
      BY <2>1, <3>1
    <3> DEFINE c == CHOOSE i \in DOMAIN dirs : dirs[i] = d
    <3>5. c = d - x + 1 /\ E(d) = IF Contains(dirs, d) THEN v[c] ELSE bytes[d]
      BY <3>3
    <3> HIDE DEF c, dirs, E
    <3>6. QED
      BY <2>2, <3>4, <3>5
  <2>3. CASE ~(x <= d /\ d < y)
    <3>1. ~Contains(dirs, d)
      BY <1>1, <1>3, <2>0, <2>1, <2>3, Restas
    <3>2. QED
      BY <2>3, <3>1
  <2>4. QED
    BY <2>2, <2>3
<1> HIDE DEF E, F
<1>6. [d \in DOMAIN bytes |-> E(d)] = [d \in DOMAIN bytes |-> F(d)]
  BY <1>5
<1>7. QED
  BY <1>4, <1>6 DEF F

\* The two memories differ at most between x and y.
SoloEntre(antes, despues, x, y, total) ==
    \A d \in 0 .. total - 1 : ~(x <= d /\ d < y) => despues[d] = antes[d]

\* From x on, up to y, there are the values.
Escrito(despues, v, x, y, total) ==
    \A i \in 1 .. y - x : x + i - 1 \in 0 .. total - 1 => despues[x + i - 1] = v[i]

\* Both, when the range is inside the memory.
LEMMA LeerTipo ==
    ASSUME bytes \in [0 .. memoria_total_size - 1 -> VALORES], memoria_total_size \in Nat,
           NEW l, NEW x \in Nat, NEW y \in Nat, Contiguos(lista_memory_sticks, l, x, y),
           y <= memoria_total_size
    PROVE  /\ leer_pedazos(l) \in Seq(VALORES) /\ Len(leer_pedazos(l)) = y - x
           /\ \A i \in 1 .. y - x : leer_pedazos(l)[i] = bytes[x + i - 1]
<1>1. x <= y
  BY ContiguosTipo
<1>2. leer_pedazos(l) = [i \in 1 .. y - x |-> bytes[x + i - 1]]
  BY LeerSon
<1>3. y - x \in Nat /\ \A i \in 1 .. y - x : x + i - 1 \in 0 .. memoria_total_size - 1
  BY <1>1, Restas
<1>4. \A i \in 1 .. y - x : bytes[x + i - 1] \in VALORES
  BY <1>3
<1>5. leer_pedazos(l) \in [1 .. y - x -> VALORES]
  BY <1>2, <1>4
<1>6. QED
  BY <1>2, <1>3, <1>5, FuncionEsLista

\* Writing them changes the range and nothing else.
LEMMA EscribirTipo ==
    ASSUME bytes \in [0 .. memoria_total_size - 1 -> VALORES], memoria_total_size \in Nat,
           NEW l, NEW x \in Nat, NEW y \in Nat, Contiguos(lista_memory_sticks, l, x, y),
           NEW v, \A i \in 1 .. y - x : v[i] \in VALORES
    PROVE  /\ escribir_pedazos(l, v) \in [0 .. memoria_total_size - 1 -> VALORES]
           /\ SoloEntre(bytes, escribir_pedazos(l, v), x, y, memoria_total_size)
           /\ Escrito(escribir_pedazos(l, v), v, x, y, memoria_total_size)
<1>1. x <= y
  BY ContiguosTipo
<1>2. DOMAIN bytes = 0 .. memoria_total_size - 1 /\ DOMAIN bytes \subseteq Nat
  OBVIOUS
<1>3. escribir_pedazos(l, v) =
          [d \in 0 .. memoria_total_size - 1 |-> IF x <= d /\ d < y THEN v[d - x + 1] ELSE bytes[d]]
  BY <1>2, EscribirSon
<1>4. \A d \in 0 .. memoria_total_size - 1 : x <= d /\ d < y => v[d - x + 1] \in VALORES
  BY <1>1, Restas
<1>5. escribir_pedazos(l, v) \in [0 .. memoria_total_size - 1 -> VALORES]
  BY <1>3, <1>4
<1>6. SoloEntre(bytes, escribir_pedazos(l, v), x, y, memoria_total_size)
  BY <1>3 DEF SoloEntre
<1>7. Escrito(escribir_pedazos(l, v), v, x, y, memoria_total_size)
  <2> SUFFICES ASSUME NEW i \in 1 .. y - x, x + i - 1 \in 0 .. memoria_total_size - 1
               PROVE  escribir_pedazos(l, v)[x + i - 1] = v[i]
    BY DEF Escrito
  <2>1. x <= x + i - 1 /\ x + i - 1 < y /\ x + i - 1 - x + 1 = i
    BY <1>1, Restas
  <2> DEFINE d == x + i - 1
  <2>2. escribir_pedazos(l, v)[d] = v[d - x + 1]
    BY <1>3, <2>1
  <2>3. QED
    BY <2>1, <2>2
<1>8. QED
  BY <1>5, <1>6, <1>7

-----------------------------------------------------------------------------
(* The blocks of the swap file.                                            *)

\* Every byte of a block is in the file.
LEMMA BloqueDentro ==
    ASSUME NEW n \in Nat, NEW m \in Nat, NEW b \in 0 .. n - 1, NEW i \in 1 .. m
    PROVE  b * m + i - 1 \in 0 .. n * m - 1
<1>1. b * m \in Nat /\ n * m \in Nat
  OBVIOUS
<1>2. b * m + m <= n * m
  OBVIOUS
<1>3. QED
  BY <1>1, <1>2

\* No byte of a block is in another.
LEMMA BloquesAparte ==
    ASSUME NEW m \in Nat, NEW b \in Nat, NEW c \in Nat, b # c, NEW i \in 1 .. m,
           NEW k, k = c * m + i - 1
    PROVE  k - b * m + 1 \notin 1 .. m
<1>1. b * m \in Nat /\ c * m \in Nat
  OBVIOUS
<1>2. CASE b < c
  <2>1. b * m + m <= c * m
    BY <1>2
  <2>2. QED
    BY <1>1, <2>1
<1>3. CASE c < b
  <2>1. c * m + m <= b * m
    BY <1>3
  <2>2. QED
    BY <1>1, <2>1
<1>4. QED
  BY <1>2, <1>3

\* A byte of a block by its place.
LEMMA EnElBloque ==
    ASSUME NEW m \in Nat, NEW b \in Nat, NEW i \in Nat
    PROVE  b * m + i - 1 - b * m + 1 = i
<1>1. b * m \in Nat
  OBVIOUS
<1>2. QED
  BY <1>1

\* The swap file has its size.
ArchivoTipo == archivo \in [0 .. SWAP_NUM_BLOQUES * SWAP_BLOCK_SIZE - 1 -> VALORES]

\* What is read from a block.
LEMMA BloqueTipo ==
    ASSUME ArchivoTipo, NEW b \in Bloques, NEW tamanio \in Nat, tamanio <= SWAP_BLOCK_SIZE
    PROVE  /\ leer_Bloque(b, tamanio) \in Seq(VALORES) /\ Len(leer_Bloque(b, tamanio)) = tamanio
           /\ \A i \in 1 .. tamanio : leer_Bloque(b, tamanio)[i] = archivo[b * SWAP_BLOCK_SIZE + i - 1]
<1>1. \A i \in 1 .. tamanio : b * SWAP_BLOCK_SIZE + i - 1 \in 0 .. SWAP_NUM_BLOQUES * SWAP_BLOCK_SIZE - 1
  BY LimitesAssumption, BloqueDentro DEF Bloques
<1>2. \A i \in 1 .. tamanio : archivo[b * SWAP_BLOCK_SIZE + i - 1] \in VALORES
  BY <1>1 DEF ArchivoTipo
<1>3. leer_Bloque(b, tamanio) \in [1 .. tamanio -> VALORES]
  BY <1>2 DEF leer_Bloque
<1>4. QED
  BY <1>3, FuncionEsLista DEF leer_Bloque

\* Writing a block changes it and no other.
LEMMA EscribirBloque ==
    ASSUME ArchivoTipo, NEW b \in Bloques, NEW v \in Seq(VALORES), Len(v) <= SWAP_BLOCK_SIZE,
           archivo' = escribir_Bloque(b, v)
    PROVE  /\ ArchivoTipo'
           /\ leer_Bloque(b, Len(v))' = v
           /\ \A c \in Bloques, tamanio \in Nat : c # b /\ tamanio <= SWAP_BLOCK_SIZE =>
                  leer_Bloque(c, tamanio)' = leer_Bloque(c, tamanio)
<1> DEFINE m == SWAP_BLOCK_SIZE
           D == 0 .. SWAP_NUM_BLOQUES * m - 1
           G(d) == IF d - b * m + 1 \in DOMAIN v THEN v[d - b * m + 1] ELSE archivo[d]
<1>1. /\ m \in Nat /\ SWAP_NUM_BLOQUES \in Nat /\ Bloques \subseteq Nat /\ b \in Nat
      /\ Len(v) \in Nat /\ DOMAIN v = 1 .. Len(v) /\ \A i \in 1 .. Len(v) : v[i] \in VALORES
      /\ DOMAIN archivo = D
  BY LimitesAssumption, LenProperties, ElementOfSeq DEF Bloques, ArchivoTipo
<1>2. archivo' = [d \in D |-> G(d)]
  BY <1>1 DEF escribir_Bloque
<1>3. \A d \in D : G(d) \in VALORES
  BY <1>1 DEF ArchivoTipo
<1>4. ArchivoTipo'
  <2> HIDE DEF G
  <2>1. QED
    BY <1>2, <1>3 DEF ArchivoTipo
<1>5. ASSUME NEW i \in 1 .. Len(v) PROVE archivo'[b * m + i - 1] = v[i]
  <2>1. b * m + i - 1 \in D
    BY <1>1, BloqueDentro DEF Bloques
  <2>2. b * m + i - 1 - b * m + 1 = i
    BY <1>1, EnElBloque
  <2>3. G(b * m + i - 1) = v[i]
    BY <1>1, <2>2
  <2> HIDE DEF G
  <2>4. QED
    BY <1>2, <2>1, <2>3
<1>6. leer_Bloque(b, Len(v))' = v
  <2>1. leer_Bloque(b, Len(v))' = [i \in 1 .. Len(v) |-> archivo'[b * m + i - 1]]
    BY DEF leer_Bloque
  <2>2. v = [i \in 1 .. Len(v) |-> v[i]]
    BY <1>1
  <2>3. QED
    BY <1>5, <2>1, <2>2
<1>7. ASSUME NEW c \in Bloques, NEW tamanio \in Nat, c # b, tamanio <= SWAP_BLOCK_SIZE
      PROVE  leer_Bloque(c, tamanio)' = leer_Bloque(c, tamanio)
  <2>1. ASSUME NEW i \in 1 .. tamanio PROVE archivo'[c * m + i - 1] = archivo[c * m + i - 1]
    <3>1. c * m + i - 1 \in D
      BY <1>1, <1>7, BloqueDentro DEF Bloques
    <3> DEFINE k == c * m + i - 1
    <3>2. k - b * m + 1 \notin 1 .. m
      BY <1>1, <1>7, BloquesAparte
    <3>4. k \in D /\ k - b * m + 1 \notin DOMAIN v
      BY <1>1, <3>1, <3>2
    <3> HIDE DEF k
    <3>5. G(k) = archivo[k]
      BY <3>4
    <3> HIDE DEF G
    <3>6. archivo'[k] = archivo[k]
      BY <1>2, <3>4, <3>5
    <3>7. QED
      BY <3>6 DEF k
  <2>2. QED
    BY <2>1 DEF leer_Bloque
<1>8. QED
  BY <1>4, <1>6, <1>7

-----------------------------------------------------------------------------
(* A whole segment.                                                        *)

\* suspender_proceso and desuspender_proceso find every byte of the segment.
LEMMA SegmentoTraducido ==
    ASSUME TypeOK, Firme, InvSticks, NEW p \in PIDS, NEW s \in tabla_segmentos[p]
    PROVE  /\ s.base \in Nat /\ s.limite \in Nat \ {0} /\ s.id \in IDS
           /\ s.base + s.limite <= memoria_total_size
           /\ \E l : /\ PedazosDe(p, s.id, s.limite) = {l}
                     /\ Contiguos(lista_memory_sticks, l, s.base, s.base + s.limite)
<1>1. /\ s.base \in Nat /\ s.limite \in Nat /\ s.id \in IDS /\ s.limite > 0
      /\ s.base + s.limite <= memoria_total_size
  BY DEF TypeOK, Segmento, Firme, TablasBien, DentroBien, Fin
<1> DEFINE dir == s.id * SEGMENT_MAX_SIZE
<1>2. UINT32 \in Nat /\ SEGMENT_MAX_SIZE \in Nat \ {0} /\ memoria_total_size < UINT32
      /\ memoria_total_size \in Nat /\ s.id \in Nat
  <2>1. memoria_total_size \in Nat /\ s.id \in Nat
    BY <1>1, DatosAssumption DEF TypeOK
  <2>2. UINT32 \in Nat /\ SEGMENT_MAX_SIZE \in 1 .. UINT32 - 1
    BY DatosAssumption
  <2>3. memoria_total_size < UINT32
    BY Traducibles
  <2>4. SEGMENT_MAX_SIZE \in Nat \ {0}
    BY <2>2
  <2>5. QED
    BY <2>1, <2>2, <2>3, <2>4
<1>3. s.limite \in 1 .. UINT32 - 1
  BY <1>1, <1>2
<1>4. dir = s.id * SEGMENT_MAX_SIZE + 0 /\ 0 \in 0 .. SEGMENT_MAX_SIZE - 1
  BY <1>2
<1>5. dir \in DIRECCIONES
  BY <1>1, <1>4 DEF DIRECCIONES
<1>6. numero_de_segmento(dir) = s.id /\ desplazamiento(dir) = 0
  <2>1. /\ (s.id * SEGMENT_MAX_SIZE + 0) \div SEGMENT_MAX_SIZE = s.id
        /\ (s.id * SEGMENT_MAX_SIZE + 0) % SEGMENT_MAX_SIZE = 0
    BY <1>2, <1>4, DivMod
  <2> HIDE DEF dir
  <2>2. QED
    BY <1>4, <2>1 DEF numero_de_segmento, desplazamiento
<1> HIDE DEF dir
<1>7. Dentro(s, dir, s.limite)
  BY <1>1, <1>6 DEF Dentro
<1>8. PICK l : /\ traducir_logica_a_fisica(tabla_segmentos[p], lista_memory_sticks, dir, s.limite) = {l}
               /\ Contiguos(lista_memory_sticks, l, s.base + desplazamiento(dir),
                            s.base + desplazamiento(dir) + s.limite)
  BY <1>3, <1>5, <1>7, AccesoTraducido
<1>9. s.base + desplazamiento(dir) = s.base
  BY <1>1, <1>6
<1>10. Contiguos(lista_memory_sticks, l, s.base, s.base + s.limite)
  BY <1>8, <1>9
<1>11. PedazosDe(p, s.id, s.limite) = {l}
  BY <1>8 DEF PedazosDe, dir
<1>12. QED
  BY <1>1, <1>10, <1>11

-----------------------------------------------------------------------------
(* Accesses: what their steps do to the record.                            *)

\* What an access may have left.
Lista == Seq([stick : Nat, desde : Nat, tamanio : Nat])

\* The fields of an access.
LEMMA AccesoTipo ==
    ASSUME NEW a \in Accesos
    PROVE  /\ a = [op |-> a.op, dir |-> a.dir, destino |-> a.destino, tamanio |-> a.tamanio,
                   datos |-> a.datos, hecho |-> a.hecho, faltan |-> a.faltan]
           /\ a.op \in {"ninguno", "leer", "copiar", "escribir", "fallo"}
           /\ a.dir \in Nat /\ a.destino \in Nat /\ a.tamanio \in Nat /\ a.hecho \in Nat
           /\ a.datos \in Seq(VALORES) /\ a.faltan \in Lista
  BY DEF Accesos, Lista

\* Pieces are what an access may have left.
LEMMA PiezasTipo ==
    ASSUME InvSticks, NEW l \in Seq(Pieza(lista_memory_sticks))
    PROVE  l \in Lista
<1>1. DOMAIN lista_memory_sticks \subseteq Nat
  BY SticksTipo DEF InvSticks
<1>2. Pieza(lista_memory_sticks) \subseteq [stick : Nat, desde : Nat, tamanio : Nat]
  BY <1>1 DEF Pieza
<1>3. Len(l) \in Nat /\ l \in [1 .. Len(l) -> Pieza(lista_memory_sticks)]
  BY LenProperties
<1>4. l \in [1 .. Len(l) -> [stick : Nat, desde : Nat, tamanio : Nat]]
  BY <1>2, <1>3
<1>5. QED
  BY <1>3, <1>4, FuncionEsLista DEF Lista

\* An access inside a segment gets its pieces, any other is refused.
LEMMA TraducidoDa ==
    ASSUME TypeOK, Firme, InvSticks, NEW p \in PIDS, NEW a \in Accesos,
           a.dir \in DIRECCIONES, a.tamanio \in 1 .. UINT32 - 1
    PROVE  /\ \A s \in tabla_segmentos[p] : Dentro(s, a.dir, a.tamanio) =>
                \E l \in Lista :
                    /\ Traducido(a, p) = [a EXCEPT !.faltan = l]
                    /\ Contiguos(lista_memory_sticks, l, s.base + desplazamiento(a.dir),
                                 s.base + desplazamiento(a.dir) + a.tamanio)
           /\ (\A s \in tabla_segmentos[p] : ~Dentro(s, a.dir, a.tamanio)) =>
                Traducido(a, p) = [a EXCEPT !.op = "fallo", !.destino = 0, !.datos = <<>>]
<1> DEFINE tr == traducir_logica_a_fisica(tabla_segmentos[p], lista_memory_sticks, a.dir, a.tamanio)
<1>1. ASSUME NEW s \in tabla_segmentos[p], Dentro(s, a.dir, a.tamanio)
      PROVE  \E l \in Lista :
                /\ Traducido(a, p) = [a EXCEPT !.faltan = l]
                /\ Contiguos(lista_memory_sticks, l, s.base + desplazamiento(a.dir),
                             s.base + desplazamiento(a.dir) + a.tamanio)
  <2>1. PICK l : tr = {l} /\ Contiguos(lista_memory_sticks, l, s.base + desplazamiento(a.dir),
                                       s.base + desplazamiento(a.dir) + a.tamanio)
    BY <1>1, AccesoTraducido
  <2>2. l \in Lista
    BY <2>1, PiezasTipo DEF Contiguos
  <2>3. (CHOOSE k \in {l} : TRUE) = l
    OBVIOUS
  <2> HIDE DEF tr
  <2>4. tr # {} /\ (CHOOSE k \in tr : TRUE) = l
    BY <2>1, <2>3
  <2>5. Traducido(a, p) = [a EXCEPT !.faltan = l]
    BY <2>4 DEF Traducido, tr
  <2>6. QED
    BY <2>1, <2>2, <2>5
<1>2. ASSUME \A s \in tabla_segmentos[p] : ~Dentro(s, a.dir, a.tamanio)
      PROVE  Traducido(a, p) = [a EXCEPT !.op = "fallo", !.destino = 0, !.datos = <<>>]
  <2>1. tr = {}
    BY <1>2, AccesoTraducido
  <2>2. QED
    BY <2>1 DEF Traducido
<1>3. QED
  BY <1>1, <1>2

\* The new accesses.
Pedido(a) ==
    /\ a \in Accesos /\ a.dir \in DIRECCIONES /\ a.tamanio \in 1 .. UINT32 - 1
    /\ a.op \in {"leer", "copiar", "escribir"}
    /\ a.hecho = 0 /\ a.faltan = <<>>
    /\ IF a.op = "escribir" THEN Len(a.datos) = a.tamanio ELSE a.datos = <<>>
    /\ IF a.op = "copiar" THEN a.destino \in DIRECCIONES ELSE a.destino = 0

\* The three instructions that start an access.
LEMMA PedidoHace ==
    ASSUME NEW p \in PIDS, ejecutar_mov_in(p) \/ ejecutar_mov_out(p) \/ ejecutar_copy_mem(p)
    PROVE  \E a : Pedido(a) /\ Acceder(p, a)
<1>0. /\ DIRECCIONES \subseteq Nat /\ TAM_REGISTRO \subseteq 1 .. UINT32 - 1
      /\ TAM_COPIA \subseteq 1 .. UINT32 - 1 /\ UINT32 - 1 \in Nat
  BY DireccionTipo, DatosAssumption
<1>1. ASSUME NEW op \in {"leer", "copiar", "escribir"}, NEW dir \in DIRECCIONES, NEW destino \in Nat,
             NEW tamanio \in 1 .. UINT32 - 1, NEW valores \in Seq(VALORES),
             IF op = "escribir" THEN Len(valores) = tamanio ELSE valores = <<>>,
             IF op = "copiar" THEN destino \in DIRECCIONES ELSE destino = 0
      PROVE  Pedido(Nuevo(op, dir, destino, tamanio, valores))
  <2>1. <<>> \in Lista
    BY DEF Lista
  <2> DEFINE nuevo == Nuevo(op, dir, destino, tamanio, valores)
  <2>a. ASSUME NEW k, k = nuevo
        PROVE  k = [op |-> op, dir |-> dir, destino |-> destino, tamanio |-> tamanio, datos |-> valores,
                    hecho |-> 0, faltan |-> <<>>]
    BY <2>a DEF Nuevo, Ninguno
  <2> HIDE DEF nuevo
  <2>2. Nuevo(op, dir, destino, tamanio, valores) =
            [op |-> op, dir |-> dir, destino |-> destino, tamanio |-> tamanio, datos |-> valores,
             hecho |-> 0, faltan |-> <<>>]
    BY <2>a DEF nuevo
  <2>3. dir \in Nat /\ tamanio \in Nat
    BY <1>0
  <2>4. Nuevo(op, dir, destino, tamanio, valores) \in Accesos
    BY <2>1, <2>2, <2>3 DEF Accesos, Lista
  <2>5. QED
    BY <1>1, <2>2, <2>4 DEF Pedido
<1>2. <<>> \in Seq(VALORES)
  OBVIOUS
<1>3. CASE ejecutar_mov_in(p)
  <2>1. PICK dir \in DIRECCIONES, tamanio \in TAM_REGISTRO :
            Acceder(p, Nuevo("leer", dir, 0, tamanio, <<>>))
    BY <1>3 DEF ejecutar_mov_in
  <2>2. Pedido(Nuevo("leer", dir, 0, tamanio, <<>>))
    BY <1>0, <1>1, <1>2
  <2>3. QED
    BY <2>1, <2>2
<1>4. CASE ejecutar_mov_out(p)
  <2>1. PICK dir \in DIRECCIONES, tamanio \in TAM_REGISTRO :
            \E valores \in [1 .. tamanio -> VALORES] :
                Acceder(p, Nuevo("escribir", dir, 0, tamanio, valores))
    BY <1>4 DEF ejecutar_mov_out
  <2>2. PICK valores \in [1 .. tamanio -> VALORES] :
                Acceder(p, Nuevo("escribir", dir, 0, tamanio, valores))
    BY <2>1
  <2>3. valores \in Seq(VALORES) /\ Len(valores) = tamanio
    BY <1>0, FuncionEsLista
  <2>4. Pedido(Nuevo("escribir", dir, 0, tamanio, valores))
    BY <1>0, <1>1, <2>3
  <2>5. QED
    BY <2>2, <2>4
<1>5. CASE ejecutar_copy_mem(p)
  <2>1. PICK dir \in DIRECCIONES, destino \in DIRECCIONES, tamanio \in TAM_COPIA :
            Acceder(p, Nuevo("copiar", dir, destino, tamanio, <<>>))
    BY <1>5 DEF ejecutar_copy_mem
  <2>2. Pedido(Nuevo("copiar", dir, destino, tamanio, <<>>))
    BY <1>0, <1>1, <1>2
  <2>3. QED
    BY <2>1, <2>2
<1>6. QED
  BY <1>3, <1>4, <1>5

\* The steps of an access with their records written out.
LEMMA LeerPedazoHace ==
    ASSUME DatosTipo, NEW p \in PIDS, LeerPedazo(p)
    PROVE  /\ acceso[p].op \in {"leer", "copiar"} /\ acceso[p].faltan # <<>>
           /\ acceso' = [acceso EXCEPT ![p] =
                [op |-> acceso[p].op, dir |-> acceso[p].dir, destino |-> acceso[p].destino,
                 tamanio |-> acceso[p].tamanio,
                 datos |-> acceso[p].datos \o leer_pedazos(<<Head(acceso[p].faltan)>>),
                 hecho |-> acceso[p].hecho, faltan |-> Tail(acceso[p].faltan)]]
           /\ UNCHANGED <<vars, lista_memory_sticks, bytes, archivo, copia>>
<1>1. acceso[p] \in Accesos
  BY DEF DatosTipo
<1>2. acceso[p] = [op |-> acceso[p].op, dir |-> acceso[p].dir, destino |-> acceso[p].destino,
                   tamanio |-> acceso[p].tamanio, datos |-> acceso[p].datos,
                   hecho |-> acceso[p].hecho, faltan |-> acceso[p].faltan]
  BY <1>1, AccesoTipo
<1>3. p \in DOMAIN acceso
  BY DEF DatosTipo
<1> DEFINE mas == acceso[p].datos \o leer_pedazos(<<Head(acceso[p].faltan)>>)
           resto == Tail(acceso[p].faltan)
<1>4. acceso' = [acceso EXCEPT ![p].datos = mas, ![p].faltan = resto]
  BY DEF LeerPedazo
<1> HIDE DEF mas, resto
<1> DEFINE r == acceso[p]
<1> DEFINE z == [r EXCEPT !.datos = mas, !.faltan = resto]
           w == [op |-> r.op, dir |-> r.dir, destino |-> r.destino, tamanio |-> r.tamanio,
                 datos |-> mas, hecho |-> r.hecho, faltan |-> resto]
<1>a. acceso' = [acceso EXCEPT ![p] = z]
  BY <1>4
<1> HIDE DEF r
<1>b. ASSUME NEW k, k = z PROVE k = w
  BY <1>2, <1>b DEF r
<1>c. z = w
  <2> HIDE DEF z, w
  <2>1. QED
    BY <1>b
<1> HIDE DEF z
<1>5. acceso' = [acceso EXCEPT ![p] =
                [op |-> acceso[p].op, dir |-> acceso[p].dir, destino |-> acceso[p].destino,
                 tamanio |-> acceso[p].tamanio, datos |-> mas, hecho |-> acceso[p].hecho,
                 faltan |-> resto]]
  BY <1>a, <1>c DEF r, w
<1>6. /\ acceso[p].op \in {"leer", "copiar"} /\ acceso[p].faltan # <<>>
      /\ UNCHANGED <<vars, lista_memory_sticks, bytes, archivo, copia>>
  BY DEF LeerPedazo
<1>7. QED
  BY <1>5, <1>6 DEF mas, resto

LEMMA EscribirPedazoHace ==
    ASSUME DatosTipo, NEW p \in PIDS, EscribirPedazo(p)
    PROVE  /\ acceso[p].op = "escribir" /\ acceso[p].faltan # <<>>
           /\ acceso' = [acceso EXCEPT ![p] =
                [op |-> acceso[p].op, dir |-> acceso[p].dir, destino |-> acceso[p].destino,
                 tamanio |-> acceso[p].tamanio, datos |-> acceso[p].datos,
                 hecho |-> acceso[p].hecho + Head(acceso[p].faltan).tamanio,
                 faltan |-> Tail(acceso[p].faltan)]]
           /\ bytes' = escribir_pedazos(<<Head(acceso[p].faltan)>>,
                          SubSeq(acceso[p].datos, acceso[p].hecho + 1,
                                 acceso[p].hecho + Head(acceso[p].faltan).tamanio))
           /\ UNCHANGED <<vars, lista_memory_sticks, archivo, copia>>
<1>1. acceso[p] \in Accesos
  BY DEF DatosTipo
<1>2. acceso[p] = [op |-> acceso[p].op, dir |-> acceso[p].dir, destino |-> acceso[p].destino,
                   tamanio |-> acceso[p].tamanio, datos |-> acceso[p].datos,
                   hecho |-> acceso[p].hecho, faltan |-> acceso[p].faltan]
  BY <1>1, AccesoTipo
<1>3. QED
  BY <1>2 DEF EscribirPedazo, DatosTipo

\* COPY_MEM turns into the writing of what it read.
ACopiar(a) == [a EXCEPT !.op = "escribir", !.dir = a.destino]

LEMMA TraducirDestinoHace ==
    ASSUME DatosTipo, NEW p \in PIDS, TraducirDestino(p)
    PROVE  /\ acceso[p].op = "copiar" /\ acceso[p].faltan = <<>>
           /\ acceso' = [acceso EXCEPT ![p] = Traducido(ACopiar(acceso[p]), p)]
           /\ UNCHANGED <<vars, lista_memory_sticks, bytes, archivo, copia>>
  BY DEF TraducirDestino, DatosTipo, ACopiar

-----------------------------------------------------------------------------
(* The invariant of Datos.                                                 *)

\* Whoever is in the middle of an access is left alone.
Respeta ==
    /\ UNCHANGED acceso
    /\ \/ UNCHANGED lista_memory_sticks
       \/ \E nuevo \in [base : Nat, size : Nat \ {0}] :
              lista_memory_sticks' = Append(lista_memory_sticks, nuevo)
    /\ \A p \in PIDS : acceso[p].op # "ninguno" =>
        /\ p \in lista_procesos' \ perdidos' /\ ~en_swap'[p]
        /\ hilo'.op \in {"suspender", "liberar"} => hilo'.pid # p
        /\ acceso[p].op # "fallo" =>
               hilo'.op # "compactar" /\ tabla_segmentos'[p] = tabla_segmentos[p]

\* The bounds of an access inside a segment are numbers.
LEMMA DentroTipo ==
    ASSUME TypeOK, NEW p \in PIDS, NEW s \in tabla_segmentos[p], NEW dir \in DIRECCIONES,
           NEW tamanio \in 1 .. UINT32 - 1
    PROVE  /\ s.base + desplazamiento(dir) \in Nat
           /\ s.base + desplazamiento(dir) + tamanio \in Nat /\ tamanio \in Nat
           /\ s.base \in Nat /\ s.limite \in Nat /\ desplazamiento(dir) \in Nat
<1>1. s.base \in Nat /\ s.limite \in Nat
  BY DEF TypeOK, Segmento
<1>2. desplazamiento(dir) \in Nat
  BY DireccionTipo
<1>3. tamanio \in Nat
  BY DatosAssumption
<1>4. QED
  BY <1>1, <1>2, <1>3

\* So is what is done.
LEMMA HechosTipo ==
    ASSUME NEW a \in Accesos
    PROVE  Hechos(a) \in Nat
  BY AccesoTipo, LenProperties DEF Hechos

\* An access under way goes on over a step that leaves its process alone.
LEMMA AccesosSiguen ==
    ASSUME TypeOK, InvSticks, DatosTipo, AccesosBien, Respeta
    PROVE  AccesosBien'
<1>1. ASSUME NEW p \in PIDS, EnCurso(p) PROVE CursoBien(p, acceso[p])'
  <2> DEFINE a == acceso[p]
  <2>1. /\ acceso' = acceso /\ a \in Accesos /\ a.op \in {"leer", "copiar", "escribir"}
        /\ CursoBien(p, a)
    BY <1>1 DEF AccesosBien, Respeta, DatosTipo, EnCurso
  <2>2. hilo'.op # "compactar" /\ tabla_segmentos'[p] = tabla_segmentos[p]
    BY <2>1 DEF Respeta
  <2> HIDE DEF a
  <2>3. PICK s \in tabla_segmentos[p] :
        /\ Dentro(s, a.dir, a.tamanio)
        /\ Contiguos(lista_memory_sticks, a.faltan,
                     s.base + desplazamiento(a.dir) + Hechos(a),
                     s.base + desplazamiento(a.dir) + a.tamanio)
    BY <2>1 DEF CursoBien
  <2> DEFINE x == s.base + desplazamiento(a.dir) + Hechos(a)
             y == s.base + desplazamiento(a.dir) + a.tamanio
  <2>4. a.dir \in DIRECCIONES /\ a.tamanio \in 1 .. UINT32 - 1
    BY <2>1 DEF CursoBien
  <2>5. x \in Nat /\ y \in Nat
    BY <2>1, <2>4, DentroTipo, HechosTipo
  <2>6. Contiguos(lista_memory_sticks, a.faltan, x, y)
    BY <2>3
  <2> HIDE DEF x, y
  <2>7. Contiguos(lista_memory_sticks', a.faltan, x, y)
    <3>1. CASE UNCHANGED lista_memory_sticks
      BY <2>6, <3>1
    <3>2. ASSUME NEW nuevo \in [base : Nat, size : Nat \ {0}],
                 lista_memory_sticks' = Append(lista_memory_sticks, nuevo)
          PROVE  Contiguos(lista_memory_sticks', a.faltan, x, y)
      <4>1. SticksBien(lista_memory_sticks, memoria_total_size)
        BY DEF InvSticks
      <4>2. Contiguos(Append(lista_memory_sticks, nuevo), a.faltan, x, y)
        BY <2>5, <2>6, <4>1, ContiguosMas
      <4>3. QED
        BY <3>2, <4>2
    <3>3. QED
      BY <3>1, <3>2 DEF Respeta
  <2>8. \E u \in tabla_segmentos'[p] :
        /\ Dentro(u, a.dir, a.tamanio)
        /\ Contiguos(lista_memory_sticks', a.faltan,
                     u.base + desplazamiento(a.dir) + Hechos(a),
                     u.base + desplazamiento(a.dir) + a.tamanio)
    BY <2>2, <2>3, <2>7 DEF x, y
  <2>9. CursoBien(p, a)'
    BY <2>1, <2>2, <2>8 DEF CursoBien, a
  <2>10. QED
    BY <2>1, <2>9 DEF a
<1>2. ASSUME NEW p \in PIDS, acceso[p].op # "ninguno"
      PROVE  /\ p \in lista_procesos' \ perdidos' /\ ~en_swap'[p]
             /\ hilo'.op \in {"suspender", "liberar"} => hilo'.pid # p
  BY <1>2 DEF Respeta
<1>3. acceso' = acceso
  BY DEF Respeta
<1>4. \A p \in PIDS : acceso[p].op = "ninguno" => acceso[p] = Ninguno
  BY DEF AccesosBien
<1>5. \A p \in PIDS : acceso[p].op = "fallo" => acceso[p].datos = <<>> /\ acceso[p].hecho = 0
  BY DEF AccesosBien
<1>6. \A p \in PIDS : EnCurso(p)' => EnCurso(p)
  BY <1>3 DEF EnCurso
<1>7. \A p \in PIDS : EnCurso(p)' => CursoBien(p, acceso[p])'
  BY <1>1, <1>6
<1>8. QED
  BY <1>2, <1>3, <1>4, <1>5, <1>7 DEF AccesosBien

\* What AccesosBien says of whoever is not free.
LEMMA Ocupado ==
    ASSUME TypeOK, Firme, AccesosBien, NEW p \in PIDS, acceso[p].op # "ninguno"
    PROVE  /\ p \in lista_procesos \ perdidos /\ ~en_swap[p]
           /\ hilo.op \in ConPid => hilo.pid # p
           /\ acceso[p].op # "fallo" => hilo.op # "compactar" \/ ~(acceso[p].op \in {"leer", "copiar", "escribir"})
<1>1. /\ p \in lista_procesos \ perdidos /\ ~en_swap[p]
      /\ hilo.op \in {"suspender", "liberar"} => hilo.pid # p
  BY DEF AccesosBien
<1>2. hilo.op \in {"desuspender", "desocupar"} => en_swap[hilo.pid]
  BY DEF Firme, RegistroFirme, RegistroBien
<1>3. hilo.op = "finalizar" => hilo.pid \notin lista_procesos
  BY DEF Firme, RegistroFirme, RegistroBien
<1>4. acceso[p].op \in {"leer", "copiar", "escribir"} => hilo.op # "compactar"
  BY DEF AccesosBien, EnCurso, CursoBien
<1>5. QED
  BY <1>1, <1>2, <1>3, <1>4 DEF ConPid

\* Who was not listed, is in swap or was given up accesses nothing.
LEMMA Libres ==
    ASSUME TypeOK, Firme, DatosTipo, AccesosBien
    PROVE  /\ \A p \in PIDS : p \notin lista_procesos \/ en_swap[p] \/ p \in perdidos => acceso[p] = Ninguno
           /\ hilo.op \in ConPid => acceso[hilo.pid] = Ninguno
<1>1. \A p \in PIDS : acceso[p].op = "ninguno" => acceso[p] = Ninguno
  BY DEF AccesosBien
<1>2. hilo.op \in ConPid => hilo.pid \in PIDS
  BY HiloTipo DEF ConPid
<1>3. QED
  BY <1>1, <1>2, Ocupado

\* The steps of Segmentacion respect the accesses under way.
LEMMA RespetaPedidos ==
    ASSUME TypeOK, Firme, DatosTipo, AccesosBien, NEW q \in PIDS, acceso[q] = Ninguno,
           Pedidos(q) \/ IniciarFin(q), UNCHANGED datos
    PROVE  Respeta
<1>1. acceso[q].op = "ninguno"
  BY DEF Ninguno
<1>2. UNCHANGED <<acceso, lista_memory_sticks>>
  BY DEF datos
<1>3. ASSUME NEW p \in PIDS, acceso[p].op # "ninguno"
      PROVE  /\ p \in lista_procesos' \ perdidos' /\ ~en_swap'[p]
             /\ hilo'.op \in {"suspender", "liberar"} => hilo'.pid # p
             /\ acceso[p].op # "fallo" =>
                   hilo'.op # "compactar" /\ tabla_segmentos'[p] = tabla_segmentos[p]
  <2>1. /\ p # q /\ p \in lista_procesos \ perdidos /\ ~en_swap[p]
    BY <1>1, <1>3, Ocupado
  <2>2. en_swap \in [PIDS -> BOOLEAN] /\ tabla_segmentos \in [PIDS -> SUBSET Segmento]
    BY DEF TypeOK
  <2>3. CASE IniciarFin(q) \/ FinEnSwap(q) \/ InicializarProceso(q)
    BY <2>1, <2>2, <2>3 DEF IniciarFin, FinEnSwap, InicializarProceso, Atendible, Ocioso, contables, procesos
  <2>4. CASE IniciarSuspension(q) \/ IniciarDesuspension(q)
    BY <2>1, <2>2, <2>4 DEF IniciarSuspension, IniciarDesuspension, procesos
  <2>5. CASE \E id \in IDS : EliminarSegmento(q, id)
    BY <2>1, <2>2, <2>5 DEF EliminarSegmento, Atendible, Ocioso, procesos
  <2>6. CASE \E id \in IDS, tamanio \in TAMANIOS : CrearSegmento(q, id, tamanio)
    BY <2>1, <2>2, <2>6 DEF CrearSegmento, Solicitable, Atendible, Ocioso, procesos
  <2>7. CASE \E id \in IDS, tamanio \in TAMANIOS : PedirCompactacion(q, id, tamanio)
    BY <2>1, <2>2, <2>7 DEF PedirCompactacion, procesos
  <2>8. QED
    BY <2>3, <2>4, <2>5, <2>6, <2>7 DEF Pedidos
<1>4. QED
  BY <1>2, <1>3 DEF Respeta

LEMMA RespetaCompactar ==
    ASSUME TypeOK, Firme, DatosTipo, AccesosBien, IniciarCompactacion, UNCHANGED datos,
           \A p \in PIDS : acceso[p].op \in {"ninguno", "fallo"}
    PROVE  Respeta
  BY Ocupado DEF IniciarCompactacion, procesos, Respeta, datos

\* The steps of atender_scheduler once a request is under way.
LEMMA RespetaContinuar ==
    ASSUME TypeOK, Firme, DatosTipo, AccesosBien, Continuar, UNCHANGED <<acceso, lista_memory_sticks>>
    PROVE  Respeta
<1>1. ASSUME NEW p \in PIDS, acceso[p].op # "ninguno"
      PROVE  /\ p \in lista_procesos' \ perdidos' /\ ~en_swap'[p]
             /\ hilo'.op \in {"suspender", "liberar"} => hilo'.pid # p
             /\ acceso[p].op # "fallo" =>
                   hilo'.op # "compactar" /\ tabla_segmentos'[p] = tabla_segmentos[p]
  <2>1. /\ p \in lista_procesos \ perdidos /\ ~en_swap[p] /\ (hilo.op \in ConPid => hilo.pid # p)
        /\ acceso[p].op # "fallo" => hilo.op # "compactar"
    <3>1. acceso[p].op \in {"ninguno", "leer", "copiar", "escribir", "fallo"}
      BY AccesoTipo DEF DatosTipo
    <3>2. QED
      BY <1>1, <3>1, Ocupado
  <2>2. en_swap \in [PIDS -> BOOLEAN] /\ tabla_segmentos \in [PIDS -> SUBSET Segmento]
        /\ (hilo.op \in ConPid => hilo.pid \in PIDS)
    BY HiloTipo DEF TypeOK, ConPid
  <2>3. CASE LiberarDeMuerto
    BY <2>1, <2>2, <2>3 DEF LiberarDeMuerto, procesos, ConPid
  <2>4. CASE TerminarFin \/ LiberarFisica \/ TerminarCompactacion
    BY <2>1, <2>2, <2>4 DEF TerminarFin, LiberarFisica, TerminarCompactacion, procesos, Ocioso, ConPid
  <2>5. CASE OcuparBloque
    BY <2>1, <2>2, <2>5 DEF OcuparBloque, procesos, ConPid
  <2>6. CASE TerminarSuspension
    BY <2>1, <2>2, <2>6 DEF TerminarSuspension, Ocioso, ConPid
  <2>7. CASE TerminarDesuspension
    BY <2>1, <2>2, <2>7 DEF TerminarDesuspension, Ocioso, ConPid
  <2>8. CASE FallarSuspension \/ FallarDesuspension
    BY <2>1, <2>2, <2>8 DEF FallarSuspension, FallarDesuspension, Ocioso, ConPid
  <2>9. CASE AsignarFisica
    BY <2>1, <2>2, <2>9 DEF AsignarFisica, procesos, ConPid
  <2>10. CASE DesocuparBloque
    BY <2>1, <2>2, <2>10 DEF DesocuparBloque, procesos, ConPid
  <2>11. CASE MoverSegmento
    BY <2>1, <2>2, <2>11 DEF MoverSegmento, procesos
  <2>12. QED
    BY <2>3, <2>4, <2>5, <2>6, <2>7, <2>8, <2>9, <2>10, <2>11 DEF Continuar
<1>2. QED
  BY <1>1 DEF Respeta

LEMMA RespetaConectar ==
    ASSUME TypeOK, Firme, InvSticks, DatosTipo, AccesosBien, NEW tamanio \in STICKS, Conectar(tamanio)
    PROVE  Respeta
<1>1. tamanio \in Nat \ {0} /\ memoria_total_size \in Nat
  BY TamaniosAssumption DEF TypeOK
<1>2. /\ UNCHANGED <<acceso, procesos, tabla_segmentos, hilo>> /\ hilo.op # "compactar"
      /\ lista_memory_sticks' = Append(lista_memory_sticks, [base |-> memoria_total_size, size |-> tamanio])
  BY DEF Conectar, AgregarStick
<1>3. [base |-> memoria_total_size, size |-> tamanio] \in [base : Nat, size : Nat \ {0}]
  BY <1>1
<1>4. ASSUME NEW p \in PIDS, acceso[p].op # "ninguno"
      PROVE  /\ p \in lista_procesos' \ perdidos' /\ ~en_swap'[p]
             /\ hilo'.op \in {"suspender", "liberar"} => hilo'.pid # p
             /\ acceso[p].op # "fallo" =>
                   hilo'.op # "compactar" /\ tabla_segmentos'[p] = tabla_segmentos[p]
  BY <1>2, <1>4, Ocupado DEF procesos, ConPid
<1>5. QED
  BY <1>2, <1>3, <1>4 DEF Respeta

-----------------------------------------------------------------------------
(* The accesses under way, over their own steps.                           *)

\* The access of one process changes, nothing else does.
LEMMA AccesoCambia ==
    ASSUME DatosTipo, AccesosBien, NEW p \in PIDS, NEW b \in Accesos,
           acceso' = [acceso EXCEPT ![p] = b], UNCHANGED <<vars, lista_memory_sticks>>,
           b.op = "ninguno" => b = Ninguno,
           b.op # "ninguno" => /\ p \in lista_procesos \ perdidos /\ ~en_swap[p]
                               /\ hilo.op \in {"suspender", "liberar"} => hilo.pid # p,
           b.op = "fallo" => b.datos = <<>> /\ b.hecho = 0,
           b.op \in {"leer", "copiar", "escribir"} => CursoBien(p, b)
    PROVE  AccesosBien' /\ acceso' \in [PIDS -> Accesos]
<1>1. acceso \in [PIDS -> Accesos]
  BY DEF DatosTipo
<1>2. acceso' \in [PIDS -> Accesos] /\ acceso'[p] = b /\ \A q \in PIDS : q # p => acceso'[q] = acceso[q]
  BY <1>1
<1>3. UNCHANGED <<lista_procesos, perdidos, en_swap, hilo, tabla_segmentos, lista_memory_sticks>>
  BY DEF vars
<1>4. \A q \in PIDS : EnCurso(q)' => CursoBien(q, acceso[q])'
  <2> SUFFICES ASSUME NEW q \in PIDS, EnCurso(q)' PROVE CursoBien(q, acceso[q])'
    OBVIOUS
  <2>1. acceso'[q].op \in {"leer", "copiar", "escribir"}
    BY DEF EnCurso
  <2>2. CursoBien(q, acceso'[q])
    <3>1. CASE q = p
      BY <1>2, <2>1, <3>1
    <3>2. CASE q # p
      BY <1>2, <2>1, <3>2 DEF AccesosBien, EnCurso
    <3>3. QED
      BY <3>1, <3>2
  <2> DEFINE a == acceso'[q]
  <2>3. CursoBien(q, a)
    BY <2>2
  <2> HIDE DEF a
  <2>4. /\ hilo'.op # "compactar" /\ a.dir \in DIRECCIONES /\ a.tamanio \in 1 .. UINT32 - 1
        /\ \E s \in tabla_segmentos'[q] :
            /\ Dentro(s, a.dir, a.tamanio)
            /\ Contiguos(lista_memory_sticks', a.faltan,
                         s.base + desplazamiento(a.dir) + Hechos(a),
                         s.base + desplazamiento(a.dir) + a.tamanio)
        /\ IF a.op = "escribir" THEN Len(a.datos) = a.tamanio ELSE a.hecho = 0
        /\ a.op = "copiar" => a.destino \in DIRECCIONES
    BY <1>3, <2>3 DEF CursoBien
  <2>5. QED
    BY <2>4 DEF CursoBien, a, Hechos
<1>5. \A q \in PIDS : /\ acceso'[q].op = "ninguno" => acceso'[q] = Ninguno
                      /\ acceso'[q].op # "ninguno" =>
                               /\ q \in lista_procesos' \ perdidos' /\ ~en_swap'[q]
                               /\ hilo'.op \in {"suspender", "liberar"} => hilo'.pid # q
                      /\ acceso'[q].op = "fallo" => acceso'[q].datos = <<>> /\ acceso'[q].hecho = 0
  BY <1>2, <1>3 DEF AccesosBien
<1>6. QED
  BY <1>2, <1>4, <1>5 DEF AccesosBien

\* No access is an access.
LEMMA NingunoTipo == Ninguno \in Accesos /\ Ninguno.op = "ninguno"
<1>1. <<>> \in Seq(VALORES) /\ <<>> \in Seq([stick : Nat, desde : Nat, tamanio : Nat])
  OBVIOUS
<1>2. QED
  BY <1>1 DEF Ninguno, Accesos

\* The record of an access that begins, in the three outcomes.
LEMMA CampoFaltan ==
    ASSUME NEW a \in Accesos, NEW l \in Lista, NEW b, b = [a EXCEPT !.faltan = l]
    PROVE  /\ b \in Accesos /\ b.op = a.op /\ b.dir = a.dir /\ b.destino = a.destino
           /\ b.tamanio = a.tamanio /\ b.datos = a.datos /\ b.hecho = a.hecho /\ b.faltan = l
  BY AccesoTipo DEF Accesos, Lista

\* The fields of a refusal.
LEMMA CamposFallo ==
    ASSUME NEW a \in Accesos, NEW b, b = [a EXCEPT !.op = "fallo", !.destino = 0, !.datos = <<>>]
    PROVE  /\ b \in Accesos /\ b.op = "fallo" /\ b.dir = a.dir /\ b.destino = 0
           /\ b.tamanio = a.tamanio /\ b.datos = <<>> /\ b.hecho = a.hecho /\ b.faltan = a.faltan
<1>1. <<>> \in Seq(VALORES)
  OBVIOUS
<1>2. QED
  BY <1>1, AccesoTipo DEF Accesos

\* The fields of the second half of COPY_MEM.
LEMMA CamposACopiar ==
    ASSUME NEW a \in Accesos, NEW b, b = ACopiar(a)
    PROVE  /\ b \in Accesos /\ b.op = "escribir" /\ b.dir = a.destino /\ b.destino = a.destino
           /\ b.tamanio = a.tamanio /\ b.datos = a.datos /\ b.hecho = a.hecho /\ b.faltan = a.faltan
  BY AccesoTipo DEF Accesos, ACopiar

\* A translated access, begun in the right place.
LEMMA TraducidoBien ==
    ASSUME TypeOK, Firme, InvSticks, NEW p \in PIDS, NEW a \in Accesos,
           a.dir \in DIRECCIONES, a.tamanio \in 1 .. UINT32 - 1, hilo.op # "compactar",
           a.op \in {"leer", "copiar", "escribir"}, a.hecho = 0,
           IF a.op = "escribir" THEN Len(a.datos) = a.tamanio ELSE a.datos = <<>>,
           a.op = "copiar" => a.destino \in DIRECCIONES,
           NEW b, b = Traducido(a, p)
    PROVE  /\ b \in Accesos /\ b.op \in {a.op, "fallo"}
           /\ b.op = "fallo" => b.datos = <<>> /\ b.hecho = 0
           /\ b.op \in {"leer", "copiar", "escribir"} => CursoBien(p, b)
<1>1. CASE \A s \in tabla_segmentos[p] : ~Dentro(s, a.dir, a.tamanio)
  <2>1. b = [a EXCEPT !.op = "fallo", !.destino = 0, !.datos = <<>>]
    BY <1>1, TraducidoDa
  <2>2. b \in Accesos /\ b.op = "fallo" /\ b.datos = <<>> /\ b.hecho = a.hecho
    BY <2>1, CamposFallo
  <2>3. QED
    BY <2>2
<1>2. ASSUME NEW s \in tabla_segmentos[p], Dentro(s, a.dir, a.tamanio)
      PROVE  b \in Accesos /\ b.op = a.op /\ CursoBien(p, b)
  <2>1. PICK l \in Lista :
            /\ Traducido(a, p) = [a EXCEPT !.faltan = l]
            /\ Contiguos(lista_memory_sticks, l, s.base + desplazamiento(a.dir),
                         s.base + desplazamiento(a.dir) + a.tamanio)
    BY <1>2, TraducidoDa
  <2>2. /\ b \in Accesos /\ b.op = a.op /\ b.dir = a.dir /\ b.destino = a.destino
        /\ b.tamanio = a.tamanio /\ b.datos = a.datos /\ b.hecho = a.hecho /\ b.faltan = l
    BY <2>1, CampoFaltan
  <2>3. Hechos(b) = 0
    <3>1. CASE a.op = "escribir"
      BY <2>2, <3>1 DEF Hechos
    <3>2. CASE a.op # "escribir"
      <4>1. b.datos = <<>> /\ b.op # "escribir"
        BY <2>2, <3>2
      <4>2. Hechos(b) = Len(b.datos)
        BY <4>1 DEF Hechos
      <4>3. QED
        BY <4>1, <4>2
    <3>3. QED
      BY <3>1, <3>2
  <2>4. s.base + desplazamiento(a.dir) \in Nat
    BY DentroTipo
  <2>5. s.base + desplazamiento(b.dir) + Hechos(b) = s.base + desplazamiento(a.dir)
    <3> DEFINE x == s.base + desplazamiento(a.dir)
    <3>1. x \in Nat /\ s.base + desplazamiento(b.dir) + Hechos(b) = x + Hechos(b)
      BY <2>2, <2>4
    <3> HIDE DEF x
    <3>2. x + Hechos(b) = x
      BY <2>3, <3>1
    <3>3. QED
      BY <3>1, <3>2 DEF x
  <2>6. Contiguos(lista_memory_sticks, b.faltan, s.base + desplazamiento(b.dir) + Hechos(b),
                         s.base + desplazamiento(b.dir) + b.tamanio)
    BY <2>1, <2>2, <2>5
  <2>7. Dentro(s, b.dir, b.tamanio)
    BY <1>2, <2>2
  <2>8. QED
    BY <2>2, <2>6, <2>7 DEF CursoBien
<1>3. QED
  BY <1>1, <1>2

\* A new access is one that the invariant allows.
LEMMA PasoAcceder ==
    ASSUME TypeOK, Firme, InvSticks, DatosTipo, AccesosBien, NEW p \in PIDS,
           ejecutar_mov_in(p) \/ ejecutar_mov_out(p) \/ ejecutar_copy_mem(p)
    PROVE  AccesosBien' /\ acceso' \in [PIDS -> Accesos] /\ UNCHANGED <<vars, lista_memory_sticks, bytes, archivo, copia>>
<1>1. PICK a : Pedido(a) /\ Acceder(p, a)
  BY PedidoHace
<1> DEFINE b == Traducido(a, p)
<1>2. /\ p \in lista_procesos \ perdidos /\ ~en_swap[p] /\ hilo.op # "compactar"
      /\ hilo.op \in {"suspender", "liberar"} => hilo.pid # p
      /\ acceso' = [acceso EXCEPT ![p] = b]
      /\ UNCHANGED <<vars, lista_memory_sticks, bytes, archivo, copia>>
  BY <1>1 DEF Acceder, PuedeAcceder
<1>3. /\ b \in Accesos /\ b.op \in {a.op, "fallo"}
      /\ b.op = "fallo" => b.datos = <<>> /\ b.hecho = 0
      /\ b.op \in {"leer", "copiar", "escribir"} => CursoBien(p, b)
      /\ a.op # "ninguno"
  BY <1>1, <1>2, TraducidoBien DEF Pedido
<1> HIDE DEF b
<1>4. QED
  BY <1>2, <1>3, AccesoCambia

\* Somebody in the middle of an access.
LEMMA EnMedioDe ==
    ASSUME TypeOK, Firme, DatosTipo, AccesosBien, NEW p \in PIDS,
           acceso[p].op \in {"leer", "copiar", "escribir"}
    PROVE  /\ acceso[p] \in Accesos /\ CursoBien(p, acceso[p])
           /\ p \in lista_procesos \ perdidos /\ ~en_swap[p] /\ hilo.op # "compactar"
           /\ hilo.op \in ConPid => hilo.pid # p
<1>1. CursoBien(p, acceso[p])
  BY DEF AccesosBien, EnCurso
<1>2. QED
  BY <1>1, Ocupado DEF DatosTipo, CursoBien

\* COPY_MEM has read everything when it translates its destination.
LEMMA PasoTraducirDestino ==
    ASSUME TypeOK, Firme, InvSticks, DatosTipo, AccesosBien, NEW p \in PIDS, TraducirDestino(p)
    PROVE  /\ AccesosBien' /\ acceso' \in [PIDS -> Accesos]
           /\ Len(acceso[p].datos) = acceso[p].tamanio
<1> DEFINE a == acceso[p]
           c == ACopiar(a)
           b == Traducido(c, p)
<1>1. /\ a.op = "copiar" /\ a.faltan = <<>> /\ acceso' = [acceso EXCEPT ![p] = b]
      /\ UNCHANGED <<vars, lista_memory_sticks, bytes, archivo, copia>>
  BY TraducirDestinoHace
<1>2. /\ a \in Accesos /\ CursoBien(p, a) /\ p \in lista_procesos \ perdidos /\ ~en_swap[p]
      /\ hilo.op # "compactar"
      /\ hilo.op \in {"suspender", "liberar"} => hilo.pid # p
  BY <1>1, EnMedioDe DEF ConPid
<1>3. /\ c \in Accesos /\ c.op = "escribir" /\ c.dir = a.destino
      /\ c.tamanio = a.tamanio /\ c.datos = a.datos /\ c.hecho = a.hecho
  BY <1>2, CamposACopiar
<1> HIDE DEF a, c, b
<1>4. a.destino \in DIRECCIONES /\ a.tamanio \in 1 .. UINT32 - 1 /\ a.hecho = 0
  BY <1>1, <1>2 DEF CursoBien
<1>5. Len(a.datos) = a.tamanio
  <2>1. PICK s \in tabla_segmentos[p] :
            Contiguos(lista_memory_sticks, a.faltan, s.base + desplazamiento(a.dir) + Hechos(a),
                         s.base + desplazamiento(a.dir) + a.tamanio)
    BY <1>2 DEF CursoBien
  <2> DEFINE x == s.base + desplazamiento(a.dir)
  <2>2. x \in Nat /\ a.tamanio \in Nat /\ Hechos(a) \in Nat
    BY <1>2, DentroTipo, HechosTipo DEF CursoBien
  <2>3. Contiguos(lista_memory_sticks, a.faltan, x + Hechos(a), x + a.tamanio)
    BY <2>1
  <2> HIDE DEF x
  <2> DEFINE y == x + Hechos(a)
             z == x + a.tamanio
  <2>a. y \in Nat /\ z \in Nat /\ Contiguos(lista_memory_sticks, a.faltan, y, z)
    BY <2>2, <2>3
  <2> HIDE DEF y, z
  <2>b. y = z
    BY <1>1, <2>a, ContiguosTipo
  <2>4. x + Hechos(a) = x + a.tamanio
    BY <2>b DEF y, z
  <2>5. Hechos(a) = Len(a.datos)
    BY <1>1 DEF Hechos
  <2>6. QED
    BY <2>2, <2>4, <2>5
<1>6. /\ b \in Accesos /\ b.op \in {"escribir", "fallo"}
      /\ b.op = "fallo" => b.datos = <<>> /\ b.hecho = 0
      /\ b.op \in {"leer", "copiar", "escribir"} => CursoBien(p, b)
  <2>1. b = Traducido(c, p)
    BY DEF b
  <2>2. /\ c \in Accesos /\ c.dir \in DIRECCIONES /\ c.tamanio \in 1 .. UINT32 - 1
        /\ hilo.op # "compactar" /\ c.op \in {"leer", "copiar", "escribir"} /\ c.hecho = 0
        /\ IF c.op = "escribir" THEN Len(c.datos) = c.tamanio ELSE c.datos = <<>>
        /\ c.op = "copiar" => c.destino \in DIRECCIONES
        /\ c.op = "escribir"
    BY <1>2, <1>3, <1>4, <1>5
  <2>3. /\ b \in Accesos /\ b.op \in {c.op, "fallo"}
        /\ b.op = "fallo" => b.datos = <<>> /\ b.hecho = 0
        /\ b.op \in {"leer", "copiar", "escribir"} => CursoBien(p, b)
    BY <2>1, <2>2, TraducidoBien
  <2>4. QED
    BY <2>2, <2>3
<1>7. AccesosBien' /\ acceso' \in [PIDS -> Accesos]
  BY <1>1, <1>2, <1>6, AccesoCambia
<1>8. QED
  BY <1>5, <1>7 DEF a

\* An access ends.
LEMMA PasoTerminarAcceso ==
    ASSUME TypeOK, DatosTipo, AccesosBien, NEW p \in PIDS, TerminarAcceso(p)
    PROVE  AccesosBien' /\ acceso' \in [PIDS -> Accesos]
<1>1. acceso' = [acceso EXCEPT ![p] = Ninguno] /\ UNCHANGED <<vars, lista_memory_sticks>>
  BY DEF TerminarAcceso
<1>2. QED
  BY <1>1, NingunoTipo, AccesoCambia

\* The arithmetic of a piece.
LEMMA HastaMas ==
    ASSUME NEW x \in Nat, NEW n \in Nat
    PROVE  /\ x + n \in Nat /\ (x + n) - x = n
           /\ \A i \in 1 .. n : x + i - 1 \in Nat /\ x + i - 1 < x + n
  OBVIOUS

\* The next piece of an access under way.
LEMMA PiezaSiguiente ==
    ASSUME TypeOK, Firme, InvSticks, DatosTipo, AccesosBien, NEW p \in PIDS,
           acceso[p].op \in {"leer", "copiar", "escribir"}, acceso[p].faltan # <<>>
    PROVE  \E s \in tabla_segmentos[p], x \in Nat, n \in Nat \ {0} :
        /\ n = Head(acceso[p].faltan).tamanio
        /\ x = s.base + desplazamiento(acceso[p].dir) + Hechos(acceso[p])
        /\ Dentro(s, acceso[p].dir, acceso[p].tamanio)
        /\ Hechos(acceso[p]) + n <= acceso[p].tamanio
        /\ x + n <= s.base + s.limite /\ s.base + s.limite <= memoria_total_size
        /\ Contiguos(lista_memory_sticks, <<Head(acceso[p].faltan)>>, x, x + n)
        /\ Contiguos(lista_memory_sticks, Tail(acceso[p].faltan), x + n,
                     s.base + desplazamiento(acceso[p].dir) + acceso[p].tamanio)
        /\ Tail(acceso[p].faltan) \in Lista
<1> DEFINE a == acceso[p]
<1>1. a \in Accesos /\ CursoBien(p, a)
  BY EnMedioDe
<1>2. a.faltan # <<>> /\ a.faltan \in Lista
  BY <1>1, AccesoTipo
<1> HIDE DEF a
<1>3. PICK s \in tabla_segmentos[p] :
        /\ Dentro(s, a.dir, a.tamanio)
        /\ Contiguos(lista_memory_sticks, a.faltan, s.base + desplazamiento(a.dir) + Hechos(a),
                     s.base + desplazamiento(a.dir) + a.tamanio)
  BY <1>1 DEF CursoBien
<1> DEFINE d == desplazamiento(a.dir)
           x == s.base + d + Hechos(a)
           y == s.base + d + a.tamanio
           n == Head(a.faltan).tamanio
<1>4. /\ s.base \in Nat /\ s.limite \in Nat /\ d \in Nat /\ a.tamanio \in Nat /\ Hechos(a) \in Nat
  BY <1>1, DentroTipo, HechosTipo DEF CursoBien
<1>5. x \in Nat /\ y \in Nat /\ Contiguos(lista_memory_sticks, a.faltan, x, y)
  BY <1>3, <1>4
<1>6. d + a.tamanio <= s.limite
  BY <1>3 DEF Dentro
<1>7. s.base + s.limite <= memoria_total_size
  BY DEF Firme, DentroBien, Fin
<1> HIDE DEF x, y, d
<1>8. /\ n \in Nat \ {0} /\ x + n <= y
      /\ Contiguos(lista_memory_sticks, <<Head(a.faltan)>>, x, x + n)
      /\ Contiguos(lista_memory_sticks, Tail(a.faltan), x + n, y)
  BY <1>2, <1>5, ContiguosCabeza
<1>9. Tail(a.faltan) \in Lista
  BY <1>8, PiezasTipo DEF Contiguos
<1>10. x + n <= s.base + s.limite /\ Hechos(a) + n <= a.tamanio
  <2>1. n \in Nat
    BY <1>8
  <2>2. x = s.base + d + Hechos(a) /\ y = s.base + d + a.tamanio
    BY DEF x, y
  <2>3. x + n <= y
    BY <1>8
  <2> HIDE DEF n
  <2> DEFINE bb == s.base
             mm == s.limite
             tt == a.tamanio
             hh == Hechos(a)
  <2>4. /\ bb \in Nat /\ mm \in Nat /\ tt \in Nat /\ hh \in Nat /\ d \in Nat /\ n \in Nat
        /\ x = bb + d + hh /\ y = bb + d + tt /\ d + tt <= mm /\ x + n <= y
    BY <1>4, <1>6, <2>1, <2>2, <2>3
  <2>5. x + n <= bb + mm /\ hh + n <= tt
    <3> HIDE DEF bb, mm, tt, hh
    <3>1. QED
      BY <2>4
  <2>6. QED
    BY <2>5
<1>11. /\ n = Head(a.faltan).tamanio
       /\ x = s.base + desplazamiento(a.dir) + Hechos(a)
       /\ y = s.base + desplazamiento(a.dir) + a.tamanio
  BY DEF x, y, d
<1> HIDE DEF n
<1>12. /\ n = Head(a.faltan).tamanio
       /\ x = s.base + desplazamiento(a.dir) + Hechos(a)
       /\ Dentro(s, a.dir, a.tamanio)
       /\ Hechos(a) + n <= a.tamanio
       /\ x + n <= s.base + s.limite /\ s.base + s.limite <= memoria_total_size
       /\ Contiguos(lista_memory_sticks, <<Head(a.faltan)>>, x, x + n)
       /\ Contiguos(lista_memory_sticks, Tail(a.faltan), x + n,
                    s.base + desplazamiento(a.dir) + a.tamanio)
       /\ Tail(a.faltan) \in Lista
  BY <1>3, <1>7, <1>8, <1>9, <1>10, <1>11
<1>13. QED
  BY <1>5, <1>8, <1>12 DEF a

\* The next piece begins where this one ends.
LEMMA Sigue ==
    ASSUME NEW b \in Nat, NEW h \in Nat, NEW n \in Nat, NEW x \in Nat, x = b + h
    PROVE  b + (h + n) = x + n
  OBVIOUS

\* The record after a piece.
LEMMA CamposLeido ==
    ASSUME NEW a \in Accesos, NEW r \in Seq(VALORES), NEW l \in Lista,
           NEW b, b = [op |-> a.op, dir |-> a.dir, destino |-> a.destino, tamanio |-> a.tamanio,
                       datos |-> a.datos \o r, hecho |-> a.hecho, faltan |-> l]
    PROVE  b \in Accesos /\ Len(b.datos) = Len(a.datos) + Len(r)
<1>1. a.datos \in Seq(VALORES)
  BY AccesoTipo
<1>2. a.datos \o r \in Seq(VALORES) /\ Len(a.datos \o r) = Len(a.datos) + Len(r)
  BY <1>1, ConcatProperties
<1> DEFINE m == a.datos \o r
<1> HIDE DEF m
<1>3. m \in Seq(VALORES) /\ Len(m) = Len(a.datos) + Len(r)
  BY <1>2 DEF m
<1>4. b = [op |-> a.op, dir |-> a.dir, destino |-> a.destino, tamanio |-> a.tamanio,
                       datos |-> m, hecho |-> a.hecho, faltan |-> l]
  BY DEF m
<1>5. b \in Accesos /\ b.datos = m
  BY <1>3, <1>4, AccesoTipo DEF Accesos, Lista
<1>6. QED
  BY <1>3, <1>5

\* The fields after a piece is written.
LEMMA CamposEscrito ==
    ASSUME NEW a \in Accesos, NEW n \in Nat, NEW l \in Lista,
           NEW b, b = [op |-> a.op, dir |-> a.dir, destino |-> a.destino, tamanio |-> a.tamanio,
                       datos |-> a.datos, hecho |-> a.hecho + n, faltan |-> l]
    PROVE  b \in Accesos
<1>1. a.hecho + n \in Nat
  BY AccesoTipo
<1>2. QED
  BY <1>1, AccesoTipo DEF Accesos, Lista

\* A piece is read.
LEMMA PasoLeer ==
    ASSUME TypeOK, Firme, InvSticks, DatosTipo, AccesosBien, NEW p \in PIDS, LeerPedazo(p)
    PROVE  AccesosBien' /\ acceso' \in [PIDS -> Accesos]
<1> DEFINE a == acceso[p]
           r == leer_pedazos(<<Head(a.faltan)>>)
           b == [op |-> a.op, dir |-> a.dir, destino |-> a.destino, tamanio |-> a.tamanio,
                 datos |-> a.datos \o r, hecho |-> a.hecho, faltan |-> Tail(a.faltan)]
<1>1. /\ a.op \in {"leer", "copiar"} /\ a.faltan # <<>> /\ acceso' = [acceso EXCEPT ![p] = b]
      /\ UNCHANGED <<vars, lista_memory_sticks, bytes, archivo, copia>>
  BY LeerPedazoHace
<1>2. /\ a \in Accesos /\ CursoBien(p, a) /\ p \in lista_procesos \ perdidos /\ ~en_swap[p]
      /\ hilo.op # "compactar"
      /\ hilo.op \in {"suspender", "liberar"} => hilo.pid # p
  BY <1>1, EnMedioDe DEF ConPid
<1>3. PICK s \in tabla_segmentos[p], x \in Nat, n \in Nat \ {0} :
        /\ n = Head(a.faltan).tamanio
        /\ x = s.base + desplazamiento(a.dir) + Hechos(a)
        /\ Dentro(s, a.dir, a.tamanio)
        /\ Hechos(a) + n <= a.tamanio
        /\ x + n <= s.base + s.limite /\ s.base + s.limite <= memoria_total_size
        /\ Contiguos(lista_memory_sticks, <<Head(a.faltan)>>, x, x + n)
        /\ Contiguos(lista_memory_sticks, Tail(a.faltan), x + n,
                     s.base + desplazamiento(a.dir) + a.tamanio)
        /\ Tail(a.faltan) \in Lista
  BY <1>1, PiezaSiguiente
<1>4. /\ s.base \in Nat /\ s.limite \in Nat /\ desplazamiento(a.dir) \in Nat /\ Hechos(a) \in Nat
      /\ memoria_total_size \in Nat
  BY <1>2, DentroTipo, HechosTipo DEF CursoBien, TypeOK
<1>5. r \in Seq(VALORES) /\ Len(r) = n
  <2> DEFINE y == x + n
  <2>1. y \in Nat /\ y - x = n /\ n \in Nat
    BY <1>3, HastaMas
  <2>2. y <= memoria_total_size /\ Contiguos(lista_memory_sticks, <<Head(a.faltan)>>, x, y)
    BY <1>3, <1>4
  <2> HIDE DEF y
  <2>3. leer_pedazos(<<Head(a.faltan)>>) \in Seq(VALORES) /\ Len(leer_pedazos(<<Head(a.faltan)>>)) = y - x
    BY <1>4, <2>1, <2>2, LeerTipo DEF DatosTipo
  <2>4. QED
    BY <2>1, <2>3
<1> HIDE DEF a, r
<1>6. /\ b \in Accesos /\ Len(b.datos) = Len(a.datos) + n
      /\ b.op = a.op /\ b.dir = a.dir /\ b.destino = a.destino /\ b.tamanio = a.tamanio
      /\ b.hecho = a.hecho /\ b.faltan = Tail(a.faltan)
  <2>1. b \in Accesos /\ Len(b.datos) = Len(a.datos) + Len(r)
    BY <1>2, <1>3, <1>5, CamposLeido
  <2>2. QED
    BY <1>5, <2>1
<1> HIDE DEF b
<1>7. Hechos(a) = Len(a.datos) /\ Hechos(b) = Len(a.datos) + n
  BY <1>1, <1>6 DEF Hechos
<1>8. s.base + desplazamiento(b.dir) + Hechos(b) = x + n
  <2> DEFINE c == s.base + desplazamiento(a.dir)
  <2>1. c \in Nat /\ x = c + Hechos(a) /\ n \in Nat
    BY <1>3, <1>4
  <2>2. c + (Hechos(a) + n) = x + n
    BY <1>4, <2>1, Sigue
  <2>3. QED
    BY <1>6, <1>7, <2>2
<1>9. CursoBien(p, b)
  <2>1. Contiguos(lista_memory_sticks, b.faltan, s.base + desplazamiento(b.dir) + Hechos(b),
                     s.base + desplazamiento(b.dir) + b.tamanio)
    BY <1>3, <1>6, <1>8
  <2>2. Dentro(s, b.dir, b.tamanio)
    BY <1>3, <1>6
  <2>3. QED
    BY <1>1, <1>2, <1>6, <2>1, <2>2 DEF CursoBien
<1>10. QED
  BY <1>1, <1>2, <1>6, <1>9, AccesoCambia

\* The part of the data a piece takes.
LEMMA SubSeqDe ==
    ASSUME NEW S, NEW v \in Seq(S), NEW m \in Nat, NEW n \in Nat, m + n <= Len(v)
    PROVE  \A i \in 1 .. n : SubSeq(v, m + 1, m + n)[i] = v[m + i] /\ v[m + i] \in S
<1>1. Len(v) \in Nat /\ \A i \in 1 .. Len(v) : v[i] \in S
  BY LenProperties, ElementOfSeq
<1>2. ASSUME NEW i \in 1 .. n
      PROVE  SubSeq(v, m + 1, m + n)[i] = v[m + i] /\ v[m + i] \in S
  <2>1. m + i \in 1 .. Len(v)
    BY <1>1
  <2>2. SubSeq(v, m + 1, m + n)[i] = v[(m + 1) + i - 1]
    BY <1>1, SubSeqProperties
  <2>3. (m + 1) + i - 1 = m + i
    OBVIOUS
  <2>4. QED
    BY <1>1, <2>1, <2>2, <2>3
<1>3. QED
  BY <1>2

\* What EscribirPedazo leaves in the sticks.
LEMMA PasoEscribir ==
    ASSUME TypeOK, Firme, InvSticks, DatosTipo, AccesosBien, NEW p \in PIDS, EscribirPedazo(p)
    PROVE  /\ AccesosBien' /\ acceso' \in [PIDS -> Accesos]
           /\ bytes' \in [0 .. memoria_total_size - 1 -> VALORES]
           /\ \E s \in tabla_segmentos[p], n \in Nat \ {0}, x \in Nat :
                /\ n = Head(acceso[p].faltan).tamanio
                /\ x = s.base + desplazamiento(acceso[p].dir) + acceso[p].hecho
                /\ Dentro(s, acceso[p].dir, acceso[p].tamanio)
                /\ acceso[p].hecho + n <= acceso[p].tamanio
                /\ s.base <= x /\ x + n <= s.base + s.limite
                /\ SoloEntre(bytes, bytes', x, x + n, memoria_total_size)
                /\ \A i \in 1 .. n : bytes'[x + i - 1] = acceso[p].datos[acceso[p].hecho + i]
<1> DEFINE a == acceso[p]
           k == Head(a.faltan).tamanio
           v == SubSeq(a.datos, a.hecho + 1, a.hecho + k)
           b == [op |-> a.op, dir |-> a.dir, destino |-> a.destino, tamanio |-> a.tamanio,
                 datos |-> a.datos, hecho |-> a.hecho + k, faltan |-> Tail(a.faltan)]
<1>1. /\ a.op = "escribir" /\ a.faltan # <<>> /\ acceso' = [acceso EXCEPT ![p] = b]
      /\ bytes' = escribir_pedazos(<<Head(a.faltan)>>, v)
      /\ UNCHANGED <<vars, lista_memory_sticks, archivo, copia>>
  BY EscribirPedazoHace
<1>2. /\ a \in Accesos /\ CursoBien(p, a) /\ p \in lista_procesos \ perdidos /\ ~en_swap[p]
      /\ hilo.op # "compactar"
      /\ hilo.op \in {"suspender", "liberar"} => hilo.pid # p
  BY <1>1, EnMedioDe DEF ConPid
<1>3. PICK s \in tabla_segmentos[p], x \in Nat, n \in Nat \ {0} :
        /\ n = Head(a.faltan).tamanio
        /\ x = s.base + desplazamiento(a.dir) + Hechos(a)
        /\ Dentro(s, a.dir, a.tamanio)
        /\ Hechos(a) + n <= a.tamanio
        /\ x + n <= s.base + s.limite /\ s.base + s.limite <= memoria_total_size
        /\ Contiguos(lista_memory_sticks, <<Head(a.faltan)>>, x, x + n)
        /\ Contiguos(lista_memory_sticks, Tail(a.faltan), x + n,
                     s.base + desplazamiento(a.dir) + a.tamanio)
        /\ Tail(a.faltan) \in Lista
  BY <1>1, PiezaSiguiente
<1>4. /\ s.base \in Nat /\ s.limite \in Nat /\ desplazamiento(a.dir) \in Nat /\ a.hecho \in Nat
      /\ memoria_total_size \in Nat /\ Hechos(a) = a.hecho /\ n \in Nat /\ k = n
      /\ Len(a.datos) = a.tamanio /\ a.datos \in Seq(VALORES)
  BY <1>1, <1>2, <1>3, DentroTipo, AccesoTipo DEF CursoBien, TypeOK, Hechos
<1> HIDE DEF a, k
<1>5. \A i \in 1 .. n : v[i] = a.datos[a.hecho + i] /\ v[i] \in VALORES
  <2>1. v = SubSeq(a.datos, a.hecho + 1, a.hecho + n) /\ a.hecho + n <= Len(a.datos)
    BY <1>3, <1>4
  <2> HIDE DEF v
  <2>2. \A i \in 1 .. n : SubSeq(a.datos, a.hecho + 1, a.hecho + n)[i] = a.datos[a.hecho + i]
                          /\ a.datos[a.hecho + i] \in VALORES
    BY <1>4, <2>1, SubSeqDe
  <2>3. QED
    BY <2>1, <2>2
<1> HIDE DEF v
<1> DEFINE y == x + n
<1>6. /\ y \in Nat /\ y <= memoria_total_size /\ y - x = n /\ s.base <= x
      /\ \A i \in 1 .. n : x + i - 1 \in 0 .. memoria_total_size - 1
      /\ Contiguos(lista_memory_sticks, <<Head(a.faltan)>>, x, y)
  <2>1. y \in Nat /\ y - x = n /\ \A i \in 1 .. n : x + i - 1 \in Nat /\ x + i - 1 < y
    BY <1>4, HastaMas
  <2>2. y <= memoria_total_size
    <3>1. x + n <= s.base + s.limite /\ s.base + s.limite <= memoria_total_size
      BY <1>3
    <3>2. QED
      BY ONLY <1>4, <3>1
  <2>3. s.base <= x
    BY <1>3, <1>4
  <2>4. Contiguos(lista_memory_sticks, <<Head(a.faltan)>>, x, y)
    BY <1>3
  <2> HIDE DEF y
  <2>5. QED
    BY <1>4, <2>1, <2>2, <2>3, <2>4
<1>7. /\ bytes' \in [0 .. memoria_total_size - 1 -> VALORES]
      /\ SoloEntre(bytes, bytes', x, x + n, memoria_total_size)
      /\ \A i \in 1 .. n : bytes'[x + i - 1] = v[i]
  <2>0. bytes \in [0 .. memoria_total_size - 1 -> VALORES]
    BY DEF DatosTipo
  <2> DEFINE l == <<Head(a.faltan)>>
  <2>a. Contiguos(lista_memory_sticks, l, x, y)
    BY <1>6
  <2> HIDE DEF y, l
  <2>1. /\ escribir_pedazos(l, v) \in [0 .. memoria_total_size - 1 -> VALORES]
        /\ SoloEntre(bytes, escribir_pedazos(l, v), x, y, memoria_total_size)
        /\ Escrito(escribir_pedazos(l, v), v, x, y, memoria_total_size)
    <3>1. \A i \in 1 .. y - x : v[i] \in VALORES
      BY <1>5, <1>6
    <3>2. memoria_total_size \in Nat /\ y \in Nat
      BY <1>4, <1>6
    <3>3. escribir_pedazos(l, v) \in [0 .. memoria_total_size - 1 -> VALORES]
      BY <2>0, <2>a, <3>1, <3>2, EscribirTipo
    <3>4. SoloEntre(bytes, escribir_pedazos(l, v), x, y, memoria_total_size)
      BY <2>0, <2>a, <3>1, <3>2, EscribirTipo
    <3>5. Escrito(escribir_pedazos(l, v), v, x, y, memoria_total_size)
      BY <2>0, <2>a, <3>1, <3>2, EscribirTipo
    <3>6. QED
      BY <3>3, <3>4, <3>5
  <2>2. y = x + n
    BY DEF y
  <2>3. QED
    BY <1>1, <1>6, <2>1, <2>2 DEF l, Escrito
<1>8. /\ b \in Accesos /\ b.hecho = a.hecho + n
      /\ b.op = a.op /\ b.dir = a.dir /\ b.destino = a.destino /\ b.tamanio = a.tamanio
      /\ b.datos = a.datos /\ b.faltan = Tail(a.faltan)
  BY <1>2, <1>3, <1>4, CamposEscrito
<1> HIDE DEF b
<1>9. s.base + desplazamiento(b.dir) + Hechos(b) = x + n
  <2> DEFINE c == s.base + desplazamiento(a.dir)
  <2>1. c \in Nat /\ x = c + a.hecho
    BY <1>3, <1>4
  <2> HIDE DEF c
  <2>2. c + (a.hecho + n) = x + n
    BY <1>4, <2>1, Sigue
  <2>3. Hechos(b) = a.hecho + n
    BY <1>1, <1>8 DEF Hechos
  <2>4. s.base + desplazamiento(b.dir) + Hechos(b) = c + (a.hecho + n)
    BY <1>8, <2>3 DEF c
  <2>5. QED
    BY <2>2, <2>4
<1>10. CursoBien(p, b)
  <2>1. Contiguos(lista_memory_sticks, b.faltan, s.base + desplazamiento(b.dir) + Hechos(b),
                     s.base + desplazamiento(b.dir) + b.tamanio)
    BY <1>3, <1>8, <1>9
  <2>2. Dentro(s, b.dir, b.tamanio)
    BY <1>3, <1>8
  <2>3. QED
    BY <1>1, <1>2, <1>4, <1>8, <2>1, <2>2 DEF CursoBien
<1>11. AccesosBien' /\ acceso' \in [PIDS -> Accesos]
  BY <1>1, <1>2, <1>8, <1>10, AccesoCambia
<1>12. /\ n = Head(a.faltan).tamanio
       /\ x = s.base + desplazamiento(a.dir) + a.hecho
       /\ Dentro(s, a.dir, a.tamanio)
       /\ a.hecho + n <= a.tamanio
       /\ s.base <= x /\ x + n <= s.base + s.limite
       /\ SoloEntre(bytes, bytes', x, x + n, memoria_total_size)
       /\ \A i \in 1 .. n : bytes'[x + i - 1] = a.datos[a.hecho + i]
  BY <1>3, <1>4, <1>5, <1>6, <1>7
<1>13. \E s_ \in tabla_segmentos[p], n_ \in Nat \ {0}, x_ \in Nat :
                /\ n_ = Head(a.faltan).tamanio
                /\ x_ = s_.base + desplazamiento(a.dir) + a.hecho
                /\ Dentro(s_, a.dir, a.tamanio)
                /\ a.hecho + n_ <= a.tamanio
                /\ s_.base <= x_ /\ x_ + n_ <= s_.base + s_.limite
                /\ SoloEntre(bytes, bytes', x_, x_ + n_, memoria_total_size)
                /\ \A i \in 1 .. n_ : bytes'[x_ + i - 1] = a.datos[a.hecho + i]
  <2> WITNESS s \in tabla_segmentos[p], n \in Nat \ {0}, x \in Nat
  <2>1. QED
    BY <1>12
<1>14. QED
  BY <1>7, <1>11, <1>13 DEF a

-----------------------------------------------------------------------------
(* The copies of suspension, resumption and compaction.                    *)

\* A sequence written whole.
LEMMA Volcar ==
    ASSUME TypeOK, DatosTipo, NEW l, NEW x \in Nat, NEW v \in Seq(VALORES),
           Contiguos(lista_memory_sticks, l, x, x + Len(v)),
           NEW nuevos, nuevos = escribir_pedazos(l, v)
    PROVE  /\ nuevos \in [0 .. memoria_total_size - 1 -> VALORES]
           /\ SoloEntre(bytes, nuevos, x, x + Len(v), memoria_total_size)
           /\ Escrito(nuevos, v, x, x + Len(v), memoria_total_size)
<1>1. bytes \in [0 .. memoria_total_size - 1 -> VALORES] /\ memoria_total_size \in Nat
  BY DEF TypeOK, DatosTipo
<1> DEFINE y == x + Len(v)
<1>2. y \in Nat /\ y - x = Len(v) /\ Len(v) \in Nat
  BY LenProperties
<1>3. \A i \in 1 .. y - x : v[i] \in VALORES
  BY <1>2, ElementOfSeq
<1>4. Contiguos(lista_memory_sticks, l, x, y)
  OBVIOUS
<1> HIDE DEF y
<1>5. /\ escribir_pedazos(l, v) \in [0 .. memoria_total_size - 1 -> VALORES]
      /\ SoloEntre(bytes, escribir_pedazos(l, v), x, y, memoria_total_size)
      /\ Escrito(escribir_pedazos(l, v), v, x, y, memoria_total_size)
  BY <1>1, <1>2, <1>3, <1>4, EscribirTipo
<1>6. QED
  BY <1>5 DEF y

\* A segment read whole.
LEMMA Levantar ==
    ASSUME TypeOK, DatosTipo, NEW l, NEW x \in Nat, NEW n \in Nat,
           Contiguos(lista_memory_sticks, l, x, x + n), x + n <= memoria_total_size
    PROVE  /\ leer_pedazos(l) \in Seq(VALORES) /\ Len(leer_pedazos(l)) = n
           /\ \A i \in 1 .. n : leer_pedazos(l)[i] = bytes[x + i - 1]
<1> DEFINE y == x + n
<1>1. y \in Nat /\ y - x = n /\ y <= memoria_total_size /\ Contiguos(lista_memory_sticks, l, x, y)
  BY HastaMas
<1>2. bytes \in [0 .. memoria_total_size - 1 -> VALORES] /\ memoria_total_size \in Nat
  BY DEF TypeOK, DatosTipo
<1> HIDE DEF y
<1>3. /\ leer_pedazos(l) \in Seq(VALORES) /\ Len(leer_pedazos(l)) = y - x
      /\ \A i \in 1 .. y - x : leer_pedazos(l)[i] = bytes[x + i - 1]
  BY <1>1, <1>2, LeerTipo
<1>4. QED
  BY <1>1, <1>3

\* What the four copies of kernel_memory do, in terms of segments and blocks.
LEMMA GuardarHace ==
    ASSUME TypeOK, Firme, InvSticks, DatosTipo, Guardar
    PROVE  /\ hilo.op = "suspender" /\ hilo.pid \in PIDS /\ hilo.pid \notin perdidos /\ hilo'.op = "liberar"
           /\ UNCHANGED <<perdidos, tabla_segmentos, memoria_total_size, lista_memory_sticks, bytes, copia,
                          acceso>>
           /\ \E s \in tabla_segmentos[hilo.pid], t \in BloqueSwap, v \in Seq(VALORES) :
                /\ ~EnBloque(hilo.pid, s.id) /\ t.pid = hilo.pid /\ t.segmento_id = s.id
                /\ t.tamanio = s.limite /\ t.tamanio <= SWAP_BLOCK_SIZE
                /\ \A u \in tabla_swap : u.bloque # t.bloque
                /\ tabla_swap' = tabla_swap \cup {t}
                /\ Len(v) = s.limite /\ \A i \in 1 .. s.limite : v[i] = bytes[s.base + i - 1]
                /\ archivo' = escribir_Bloque(t.bloque, v)
<1>1. OcuparBloque
  BY DEF Guardar
<1> DEFINE p == hilo.pid
<1>2. PICK s \in tabla_segmentos[p], t \in BloqueSwap :
                /\ ~EnBloque(p, s.id)
                /\ t.pid = p /\ t.segmento_id = s.id /\ t.tamanio = s.limite
                /\ t.tamanio <= SWAP_BLOCK_SIZE
                /\ \A u \in tabla_swap : u.bloque # t.bloque
                /\ t \notin tabla_swap /\ tabla_swap' = tabla_swap \cup {t}
  BY <1>1, OcuparHace
<1>3. /\ p \in PIDS /\ p \notin perdidos /\ hilo.op = "suspender" /\ hilo'.op = "liberar"
      /\ UNCHANGED <<perdidos, tabla_segmentos, memoria_total_size>>
  BY <1>1, OcuparHace
<1>4. tabla_swap' \ tabla_swap = {t}
  BY <1>2
<1>5. PICK pedazos \in PedazosDe(t.pid, t.segmento_id, t.tamanio) :
          archivo' = escribir_Bloque(t.bloque, leer_pedazos(pedazos))
  BY <1>4 DEF Guardar
<1>6. PICK l : /\ PedazosDe(p, s.id, s.limite) = {l}
               /\ Contiguos(lista_memory_sticks, l, s.base, s.base + s.limite)
  BY <1>3, SegmentoTraducido
<1>7. /\ s.base \in Nat /\ s.limite \in Nat /\ s.base + s.limite <= memoria_total_size
  BY <1>3, SegmentoTraducido
<1>8. pedazos = l
  BY <1>2, <1>5, <1>6
<1> DEFINE v == leer_pedazos(l)
<1>9. v \in Seq(VALORES) /\ Len(v) = s.limite /\ \A i \in 1 .. s.limite : v[i] = bytes[s.base + i - 1]
  BY <1>6, <1>7, Levantar
<1>10. archivo' = escribir_Bloque(t.bloque, v)
  BY <1>5, <1>8
<1> HIDE DEF v
<1>11. UNCHANGED <<lista_memory_sticks, bytes, copia, acceso>>
  BY DEF Guardar
<1>12. QED
  BY <1>2, <1>3, <1>9, <1>10, <1>11

LEMMA RestaurarHace ==
    ASSUME TypeOK, Firme, InvSticks, DatosTipo, CopiaBien, Restaurar
    PROVE  /\ hilo.op = "desocupar" /\ hilo.pid \in PIDS /\ hilo.pid \notin perdidos /\ hilo'.op = "desuspender"
           /\ tabla_swap' = {t \in tabla_swap : t.pid # hilo.pid \/ t.segmento_id # hilo.id}
           /\ UNCHANGED <<perdidos, tabla_segmentos, memoria_total_size, lista_memory_sticks, archivo, acceso>>
           /\ bytes' \in [0 .. memoria_total_size - 1 -> VALORES]
           /\ \E s \in tabla_segmentos[hilo.pid], t \in tabla_swap :
                /\ s.id = hilo.id /\ t.pid = hilo.pid /\ t.segmento_id = hilo.id /\ s.limite = t.tamanio
                /\ copia = leer_Bloque(t.bloque, t.tamanio)
                /\ SoloEntre(bytes, bytes', s.base, s.base + s.limite, memoria_total_size)
                /\ Escrito(bytes', copia, s.base, s.base + s.limite, memoria_total_size)
<1> DEFINE p == hilo.pid
<1>1. DesocuparBloque /\ hilo.op = "desocupar"
  BY DEF Restaurar, DesocuparBloque
<1>2. p \in PIDS /\ p \notin perdidos
  BY <1>1, HiloTipo DEF Firme, RegistroFirme, ConPid
<1>3. PICK t \in tabla_swap : t.pid = p /\ t.segmento_id = hilo.id /\ copia = leer_Bloque(t.bloque, t.tamanio)
  BY <1>1 DEF CopiaBien
<1>4. PICK s \in tabla_segmentos[p] : s.id = hilo.id /\ s.limite = t.tamanio
  BY <1>3 DEF Firme, BloquesBien
<1>5. t.bloque \in Bloques /\ t.tamanio \in Nat /\ t.tamanio <= SWAP_BLOCK_SIZE
  BY <1>3 DEF TypeOK, BloqueSwap, Firme, BloquesBien
<1>6. copia \in Seq(VALORES) /\ Len(copia) = s.limite
  BY <1>3, <1>4, <1>5, BloqueTipo DEF DatosTipo, ArchivoTipo
<1>7. PICK l : /\ PedazosDe(p, s.id, s.limite) = {l}
               /\ Contiguos(lista_memory_sticks, l, s.base, s.base + s.limite)
  BY <1>2, SegmentoTraducido
<1>8. s.base \in Nat
  BY <1>2, SegmentoTraducido
<1>9. PICK pedazos \in PedazosDe(p, hilo.id, Len(copia)) : bytes' = escribir_pedazos(pedazos, copia)
  BY DEF Restaurar
<1>10. pedazos = l
  BY <1>4, <1>6, <1>7, <1>9
<1>11. bytes' = escribir_pedazos(l, copia)
  BY <1>9, <1>10
<1>12. /\ bytes' \in [0 .. memoria_total_size - 1 -> VALORES]
       /\ SoloEntre(bytes, bytes', s.base, s.base + s.limite, memoria_total_size)
       /\ Escrito(bytes', copia, s.base, s.base + s.limite, memoria_total_size)
  <2>1. Contiguos(lista_memory_sticks, l, s.base, s.base + Len(copia))
    BY <1>6, <1>7
  <2>2. /\ bytes' \in [0 .. memoria_total_size - 1 -> VALORES]
        /\ SoloEntre(bytes, bytes', s.base, s.base + Len(copia), memoria_total_size)
        /\ Escrito(bytes', copia, s.base, s.base + Len(copia), memoria_total_size)
    BY <1>6, <1>8, <1>11, <2>1, Volcar
  <2>3. QED
    BY <1>6, <2>2
<1>13. /\ hilo'.op = "desuspender"
       /\ tabla_swap' = {u \in tabla_swap : u.pid # hilo.pid \/ u.segmento_id # hilo.id}
       /\ UNCHANGED <<perdidos, tabla_segmentos, memoria_total_size, lista_memory_sticks, archivo, acceso>>
  BY <1>1 DEF DesocuparBloque, procesos, Restaurar
<1>14. QED
  BY <1>1, <1>2, <1>3, <1>4, <1>12, <1>13

LEMMA MoverCopia ==
    ASSUME TypeOK, InvFirme, InvSticks, DatosTipo, Mover, NEW x \in todos, todos' = todos \ {x}
    PROVE  /\ bytes' \in [0 .. memoria_total_size - 1 -> VALORES]
           /\ \/ /\ UNCHANGED bytes
                 /\ \/ x[2].base = cursor
                    \/ ~(x[2].base + x[2].limite <= memoria_total_size)
                    \/ ~(cursor + x[2].limite <= memoria_total_size)
              \/ \E v \in Seq(VALORES) :
                    /\ Len(v) = x[2].limite /\ \A i \in 1 .. x[2].limite : v[i] = bytes[x[2].base + i - 1]
                    /\ SoloEntre(bytes, bytes', cursor, cursor + x[2].limite, memoria_total_size)
                    /\ Escrito(bytes', v, cursor, cursor + x[2].limite, memoria_total_size)
<1> DEFINE s == x[2]
<1>1. /\ hilo.op = "compactar"
      /\ IF s.base # cursor /\ Movidos(s) # {} THEN bytes' \in Movidos(s) ELSE UNCHANGED bytes
  <2>1. todos \ todos' = {x}
    OBVIOUS
  <2>2. QED
    BY <2>1 DEF Mover, MoverSegmento
<1>2. /\ s.base \in Nat /\ s.limite \in Nat \ {0} /\ cursor \in Nat /\ memoria_total_size \in Nat
  <2>1. x[1] \in PIDS /\ s \in Segmento
    BY DEF TypeOK
  <2>2. s \in tabla_segmentos[x[1]]
    BY <1>1 DEF InvFirme, PendientesBien
  <2>3. s.limite > 0
    BY <2>1, <2>2 DEF InvFirme, Firme, TablasBien
  <2>4. QED
    BY <2>1, <2>3 DEF Segmento, TypeOK
<1>3. SticksBien(lista_memory_sticks, memoria_total_size)
  BY DEF InvSticks
<1>4. bytes \in [0 .. memoria_total_size - 1 -> VALORES]
  BY DEF DatosTipo
<1> DEFINE D == pedazos_fisico(lista_memory_sticks, s.base, s.limite)
           H == pedazos_fisico(lista_memory_sticks, cursor, s.limite)
<1>5. Movidos(s) = UNION {{escribir_pedazos(hasta, leer_pedazos(desde)) : hasta \in H} : desde \in D}
  BY DEF Movidos
<1>6. CASE s.base + s.limite <= memoria_total_size /\ cursor + s.limite <= memoria_total_size
  <2>1. PICK d : D = {d} /\ Contiguos(lista_memory_sticks, d, s.base, s.base + s.limite)
    BY <1>2, <1>3, <1>6, FisicoDa
  <2>2. PICK h : H = {h} /\ Contiguos(lista_memory_sticks, h, cursor, cursor + s.limite)
    BY <1>2, <1>3, <1>6, FisicoDa
  <2> HIDE DEF D, H
  <2> DEFINE v == leer_pedazos(d)
             w == escribir_pedazos(h, v)
  <2>3. Movidos(s) = {w}
    <3>1. \A desde : {escribir_pedazos(hasta, leer_pedazos(desde)) : hasta \in {h}} =
                     {escribir_pedazos(h, leer_pedazos(desde))}
      OBVIOUS
    <3>2. {{escribir_pedazos(hasta, leer_pedazos(desde)) : hasta \in {h}} : desde \in {d}} = {{w}}
      BY <3>1
    <3>3. UNION {{w}} = {w}
      OBVIOUS
    <3>4. QED
      BY <1>5, <2>1, <2>2, <3>2, <3>3
  <2>4. v \in Seq(VALORES) /\ Len(v) = s.limite /\ \A i \in 1 .. s.limite : v[i] = bytes[s.base + i - 1]
    BY <1>2, <1>6, <2>1, Levantar
  <2>5. CASE s.base = cursor
    BY <1>1, <1>4, <2>5
  <2>6. CASE s.base # cursor
    <3>1. bytes' = w
      BY <1>1, <2>3, <2>6
    <3> DEFINE n == s.limite
    <3> HIDE DEF v
    <3>2. Contiguos(lista_memory_sticks, h, cursor, cursor + Len(v))
      BY <2>2, <2>4
    <3>3. /\ bytes' \in [0 .. memoria_total_size - 1 -> VALORES]
          /\ SoloEntre(bytes, bytes', cursor, cursor + Len(v), memoria_total_size)
          /\ Escrito(bytes', v, cursor, cursor + Len(v), memoria_total_size)
      BY <1>2, <2>4, <3>1, <3>2, Volcar
    <3>4. QED
      BY <2>4, <3>3
  <2>7. QED
    BY <2>5, <2>6
<1>7. CASE ~(s.base + s.limite <= memoria_total_size)
  <2>1. D = {}
    BY <1>2, <1>3, <1>7, FisicoDa
  <2>2. Movidos(s) = {}
    BY <1>5, <2>1
  <2>3. QED
    BY <1>1, <1>4, <1>7, <2>2
<1>8. CASE ~(cursor + s.limite <= memoria_total_size)
  <2>1. H = {}
    BY <1>2, <1>3, <1>8, FisicoDa
  <2>2. Movidos(s) = {}
    BY <1>5, <2>1
  <2>3. QED
    BY <1>1, <1>4, <1>8, <2>2
<1>9. QED
  BY <1>6, <1>7, <1>8

-----------------------------------------------------------------------------
(* InvDatos.                                                               *)

\* desuspender_proceso keeps what it read until it has written it.
LEMMA CopiaIgual ==
    ASSUME CopiaBien,
           \/ hilo'.op # "desocupar"
           \/ UNCHANGED <<hilo, tabla_swap, archivo, copia>>
    PROVE  CopiaBien'
  BY DEF CopiaBien, leer_Bloque

\* Only Traer leaves a copy to write.
LEMMA NoTraeSinCopia ==
    ASSUME TypeOK, SinCopia
    PROVE  hilo'.op # "desocupar"
<1>1. ASSUME NEW p \in PIDS, Pedidos(p) \/ IniciarFin(p)
      PROVE  hilo'.op # "desocupar"
  BY <1>1 DEF Pedidos, IniciarFin, InicializarProceso, FinEnSwap, IniciarSuspension,
     IniciarDesuspension, EliminarSegmento, CrearSegmento, Solicitable, PedirCompactacion, Atendible, Ocioso
<1>2. CASE IniciarCompactacion
  BY <1>2 DEF IniciarCompactacion
<1>3. CASE LiberarDeMuerto \/ TerminarFin \/ LiberarFisica
  BY <1>3 DEF LiberarDeMuerto, TerminarFin, LiberarFisica, Ocioso
<1>4. CASE TerminarSuspension \/ FallarSuspension \/ TerminarDesuspension \/ FallarDesuspension
           \/ TerminarCompactacion
  BY <1>4 DEF TerminarSuspension, FallarSuspension, TerminarDesuspension, FallarDesuspension,
     TerminarCompactacion, Ocioso
<1>5. QED
  BY <1>1, <1>2, <1>3, <1>4 DEF SinCopia

\* And it leaves the one that is in the block.
LEMMA TraerHace ==
    ASSUME TypeOK, Firme, Traer
    PROVE  CopiaBien'
<1>1. AsignarFisica /\ UNCHANGED archivo
  BY DEF Traer
<1>2. PICK t \in ProximoBloque(hilo.pid) : copia' = leer_Bloque(t.bloque, t.tamanio)
  BY DEF Traer
<1>3. /\ hilo'.op = "desocupar" /\ hilo'.pid = hilo.pid /\ UNCHANGED tabla_swap
      /\ \E u \in ProximoBloque(hilo.pid) : u \in tabla_swap /\ hilo'.id = u.segmento_id
  BY <1>1, AsignarHace
<1>4. PICK u \in ProximoBloque(hilo.pid) : u \in tabla_swap /\ hilo'.id = u.segmento_id
  BY <1>3
<1>5. t \in tabla_swap /\ t.pid = hilo.pid /\ u.pid = hilo.pid /\ t.bloque <= u.bloque /\ u.bloque <= t.bloque
  BY <1>2, <1>4 DEF ProximoBloque
<1>6. t.bloque \in Int /\ u.bloque \in Int
  BY <1>4, <1>5 DEF TypeOK, BloqueSwap, Bloques
<1>7. t = u
  BY <1>4, <1>5, <1>6 DEF Firme, BloquesBien
<1>8. leer_Bloque(t.bloque, t.tamanio)' = leer_Bloque(t.bloque, t.tamanio)
  BY <1>1 DEF leer_Bloque
<1>9. QED
  BY <1>2, <1>3, <1>4, <1>5, <1>7, <1>8 DEF CopiaBien

\* CopiaBien is inductive.
LEMMA CopiaPaso ==
    ASSUME TypeOK, Firme, DatosTipo, CopiaBien, [NextDatos]_varsDatos
    PROVE  CopiaBien'
<1>1. CASE UNCHANGED varsDatos
  BY <1>1, CopiaIgual DEF varsDatos, vars, datos
<1>2. CASE SinCopia
  BY <1>2, NoTraeSinCopia, CopiaIgual
<1>3. CASE Guardar
  <2>1. OcuparBloque
    BY <1>3 DEF Guardar
  <2>2. QED
    BY <2>1, OcuparHace, CopiaIgual
<1>4. CASE Traer
  BY <1>4, TraerHace
<1>5. CASE Restaurar
  <2>1. hilo'.op # "desocupar"
    BY <1>5 DEF Restaurar, DesocuparBloque
  <2>2. QED
    BY <2>1, CopiaIgual
<1>6. CASE Mover
  <2>1. hilo'.op # "desocupar"
    BY <1>6 DEF Mover, MoverSegmento
  <2>2. QED
    BY <2>1, CopiaIgual
<1>7. ASSUME NEW tamanio \in STICKS, Conectar(tamanio)
      PROVE  CopiaBien'
  <2>1. UNCHANGED <<hilo, tabla_swap, archivo, copia>>
    BY <1>7 DEF Conectar, AgregarStick
  <2>2. QED
    BY <2>1, CopiaIgual
<1>8. ASSUME NEW p \in PIDS, Programa(p)
      PROVE  CopiaBien'
  <2>1. CASE ejecutar_mov_in(p) \/ ejecutar_mov_out(p) \/ ejecutar_copy_mem(p)
    <3>1. UNCHANGED <<hilo, tabla_swap, archivo, copia>>
      BY <2>1 DEF ejecutar_mov_in, ejecutar_mov_out, ejecutar_copy_mem, Acceder, vars
    <3>2. QED
      BY <3>1, CopiaIgual
  <2>2. CASE LeerPedazo(p) \/ EscribirPedazo(p) \/ TraducirDestino(p)
    <3>1. UNCHANGED <<vars, archivo, copia>>
      BY <2>2, LeerPedazoHace, EscribirPedazoHace, TraducirDestinoHace
    <3>2. QED
      BY <3>1, CopiaIgual DEF vars
  <2>3. CASE TerminarAcceso(p)
    <3>1. UNCHANGED <<hilo, tabla_swap, archivo, copia>>
      BY <2>3 DEF TerminarAcceso, vars
    <3>2. QED
      BY <3>1, CopiaIgual
  <2>4. CASE FinPorFallo(p)
    <3>1. hilo'.op # "desocupar"
      BY <2>4 DEF FinPorFallo, IniciarFin
    <3>2. QED
      BY <3>1, CopiaIgual
  <2>5. QED
    BY <1>8, <2>1, <2>2, <2>3, <2>4 DEF Programa
<1>9. QED
  BY <1>1, <1>2, <1>3, <1>4, <1>5, <1>6, <1>7, <1>8 DEF NextDatos

\* SEG_FAULT ends p; the accesses of the others go on.
LEMMA PasoFinPorFallo ==
    ASSUME TypeOK, Firme, InvSticks, DatosTipo, AccesosBien, NEW p \in PIDS, FinPorFallo(p)
    PROVE  AccesosBien' /\ acceso' \in [PIDS -> Accesos]
<1>1. /\ acceso \in [PIDS -> Accesos] /\ acceso' = [acceso EXCEPT ![p] = Ninguno]
      /\ UNCHANGED <<lista_memory_sticks, tabla_segmentos, en_swap, perdidos>>
      /\ lista_procesos' = lista_procesos \ {p} /\ hilo' = [op |-> "finalizar", pid |-> p]
  BY DEF DatosTipo, FinPorFallo, IniciarFin
<1>2. acceso' \in [PIDS -> Accesos] /\ acceso'[p] = Ninguno
  BY <1>1, NingunoTipo
<1>3. \A q \in PIDS \ {p} : acceso'[q] = acceso[q]
  BY <1>1
<1>4. ~EnCurso(p)'
  BY <1>2 DEF EnCurso, Ninguno
<1>5. ASSUME NEW q \in PIDS \ {p}, EnCurso(q)'
      PROVE  CursoBien(q, acceso[q])'
  <2>1. EnCurso(q) /\ CursoBien(q, acceso[q])
    BY <1>3, <1>5 DEF EnCurso, AccesosBien
  <2>2. hilo'.op = "finalizar"
    BY <1>1
  <2>3. QED
    BY <1>1, <1>3, <2>1, <2>2 DEF CursoBien
<1>6. ASSUME NEW q \in PIDS \ {p}
      PROVE  /\ acceso'[q].op = "ninguno" => acceso'[q] = Ninguno
             /\ acceso'[q].op # "ninguno" =>
                    /\ q \in lista_procesos' \ perdidos' /\ ~en_swap'[q]
                    /\ hilo'.op \in {"suspender", "liberar"} => hilo'.pid # q
             /\ acceso'[q].op = "fallo" => acceso'[q].datos = <<>> /\ acceso'[q].hecho = 0
  BY <1>1, <1>3 DEF AccesosBien
<1>7. acceso'[p].op = "ninguno" /\ acceso'[p].op # "fallo"
  BY <1>2, NingunoTipo
<1>8. QED
  BY <1>2, <1>4, <1>5, <1>6, <1>7 DEF AccesosBien

\* The steps that copy nothing respect the accesses.
LEMMA RespetaSinCopia ==
    ASSUME TypeOK, Firme, DatosTipo, AccesosBien, SinCopia
    PROVE  Respeta /\ UNCHANGED datos
<1>1. UNCHANGED datos
  BY DEF SinCopia
<1>2. UNCHANGED <<acceso, lista_memory_sticks>>
  BY <1>1 DEF datos
<1>3. CASE \E p \in PIDS : acceso[p] = Ninguno /\ (Pedidos(p) \/ IniciarFin(p))
  BY <1>1, <1>3, RespetaPedidos
<1>4. CASE IniciarCompactacion /\ \A p \in PIDS : acceso[p].op \in {"ninguno", "fallo"}
  BY <1>1, <1>4, RespetaCompactar
<1>5. CASE \/ LiberarDeMuerto \/ TerminarFin \/ LiberarFisica \/ TerminarSuspension
           \/ FallarSuspension \/ TerminarDesuspension \/ TerminarCompactacion
           \/ FallarDesuspension
  <2>1. Continuar
    BY <1>5 DEF Continuar
  <2>2. QED
    BY <1>1, <1>2, <2>1, RespetaContinuar
<1>6. QED
  BY <1>3, <1>4, <1>5 DEF SinCopia

\* And so do those that copy.
LEMMA RespetaCopias ==
    ASSUME TypeOK, Firme, DatosTipo, AccesosBien, Guardar \/ Traer \/ Restaurar \/ Mover
    PROVE  Respeta
<1>1. Continuar
  BY DEF Guardar, Traer, Restaurar, Mover, Continuar
<1>2. UNCHANGED <<acceso, lista_memory_sticks>>
  BY DEF Guardar, Traer, Restaurar, Mover
<1>3. QED
  BY <1>1, <1>2, RespetaContinuar

\* AccesosBien is inductive.
LEMMA AccesosPaso ==
    ASSUME TypeOK, Firme, InvSticks, DatosTipo, AccesosBien, [NextDatos]_varsDatos
    PROVE  AccesosBien' /\ acceso' \in [PIDS -> Accesos]
<1>0. acceso \in [PIDS -> Accesos]
  BY DEF DatosTipo
<1>1. CASE UNCHANGED varsDatos
  <2>1. UNCHANGED <<vars, datos>>
    BY <1>1 DEF varsDatos
  <2>2. UNCHANGED <<acceso, lista_memory_sticks, lista_procesos, perdidos, en_swap, hilo, tabla_segmentos>>
    BY <2>1 DEF vars, datos
  <2>3. QED
    BY <1>0, <2>2 DEF AccesosBien, EnCurso, CursoBien
<1>2. CASE SinCopia \/ Guardar \/ Traer \/ Restaurar \/ Mover
  <2>1. Respeta
    BY <1>2, RespetaSinCopia, RespetaCopias
  <2>2. AccesosBien'
    BY <2>1, AccesosSiguen
  <2>3. QED
    BY <1>0, <2>1, <2>2 DEF Respeta
<1>3. ASSUME NEW tamanio \in STICKS, Conectar(tamanio)
      PROVE  AccesosBien' /\ acceso' \in [PIDS -> Accesos]
  <2>1. Respeta
    BY <1>3, RespetaConectar
  <2>2. AccesosBien'
    BY <2>1, AccesosSiguen
  <2>3. QED
    BY <1>0, <2>1, <2>2 DEF Respeta
<1>4. ASSUME NEW p \in PIDS, Programa(p)
      PROVE  AccesosBien' /\ acceso' \in [PIDS -> Accesos]
  BY <1>4, PasoAcceder, PasoLeer, PasoTraducirDestino, PasoEscribir, PasoTerminarAcceso,
     PasoFinPorFallo DEF Programa
<1>5. QED
  BY <1>1, <1>2, <1>3, <1>4 DEF NextDatos

\* A new stick adds addresses after the last one.
LEMMA ConectarHace ==
    ASSUME TypeOK, DatosTipo, NEW tamanio \in STICKS, Conectar(tamanio)
    PROVE  /\ bytes' \in [0 .. memoria_total_size' - 1 -> VALORES]
           /\ memoria_total_size <= memoria_total_size'
           /\ \A d \in 0 .. memoria_total_size - 1 : bytes'[d] = bytes[d]
           /\ UNCHANGED <<archivo, copia, acceso, perdidos, tabla_segmentos, tabla_swap, hilo>>
<1>1. /\ memoria_total_size \in Nat /\ tamanio \in Nat /\ memoria_total_size' = memoria_total_size + tamanio
      /\ bytes \in [0 .. memoria_total_size - 1 -> VALORES]
  BY TamaniosAssumption DEF TypeOK, DatosTipo, Conectar, AgregarStick
<1>2. PICK basura \in [memoria_total_size .. memoria_total_size + tamanio - 1 -> VALORES] :
           bytes' = [d \in 0 .. memoria_total_size + tamanio - 1 |->
                        IF d \in DOMAIN bytes THEN bytes[d] ELSE basura[d]]
  BY DEF Conectar
<1>3. UNCHANGED <<archivo, copia, acceso, perdidos, tabla_segmentos, tabla_swap, hilo>>
  BY DEF Conectar, AgregarStick, procesos
<1>4. \A d \in 0 .. memoria_total_size + tamanio - 1 :
          /\ d \in 0 .. memoria_total_size - 1 => bytes'[d] = bytes[d] /\ bytes[d] \in VALORES
          /\ d \notin 0 .. memoria_total_size - 1 => bytes'[d] = basura[d] /\ basura[d] \in VALORES
  BY <1>1, <1>2
<1>5. QED
  BY <1>1, <1>2, <1>3, <1>4

\* Types.
LEMMA DatosTipoPaso ==
    ASSUME TypeOK, InvFirme, InvSticks, InvDatos, [NextDatos]_varsDatos
    PROVE  DatosTipo'
<1>0. Firme /\ DatosTipo /\ AccesosBien /\ CopiaBien
  BY DEF InvDatos, InvFirme
<1>1. acceso' \in [PIDS -> Accesos]
  BY <1>0, AccesosPaso
<1>2. ASSUME UNCHANGED <<bytes, archivo, memoria_total_size>>
      PROVE  DatosTipo'
  BY <1>0, <1>1, <1>2 DEF DatosTipo
<1>3. CASE UNCHANGED varsDatos
  BY <1>2, <1>3 DEF varsDatos, vars, datos
<1>4. CASE SinCopia
  <2>1. UNCHANGED <<bytes, archivo>>
    BY <1>0, <1>4, RespetaSinCopia DEF datos
  <2>2. \A tamanio \in STICKS : ~Conectar(tamanio)
    <3>1. ASSUME NEW tamanio \in STICKS, Conectar(tamanio)
          PROVE  FALSE
      <4>1. lista_memory_sticks' = lista_memory_sticks
        BY <1>0, <1>4, RespetaSinCopia DEF datos
      <4>2. lista_memory_sticks' = Append(lista_memory_sticks, [base |-> memoria_total_size, size |-> tamanio])
        BY <3>1 DEF Conectar
      <4>3. lista_memory_sticks \in Seq([base : Nat, size : Nat \ {0}])
        BY DEF InvSticks, SticksBien
      <4>4. [base |-> memoria_total_size, size |-> tamanio] \in [base : Nat, size : Nat \ {0}]
        BY TamaniosAssumption DEF TypeOK
      <4>5. Len(lista_memory_sticks') = Len(lista_memory_sticks) + 1
        BY <4>2, <4>3, <4>4, AppendProperties
      <4>6. Len(lista_memory_sticks) \in Nat
        BY <4>3, LenProperties
      <4>7. QED
        BY <4>1, <4>5, <4>6
    <3>2. QED
      BY <3>1
  <2>3. QED
    BY <1>2, <2>1, <2>2, MismosSticks
<1>5. CASE Guardar
  <2>1. /\ UNCHANGED <<bytes, memoria_total_size>>
        /\ \E t \in BloqueSwap, v \in Seq(VALORES) :
              t.tamanio <= SWAP_BLOCK_SIZE /\ Len(v) = t.tamanio /\ archivo' = escribir_Bloque(t.bloque, v)
    BY <1>0, <1>5, GuardarHace
  <2>2. PICK t \in BloqueSwap, v \in Seq(VALORES) :
              t.tamanio <= SWAP_BLOCK_SIZE /\ Len(v) = t.tamanio /\ archivo' = escribir_Bloque(t.bloque, v)
    BY <2>1
  <2>3. ArchivoTipo /\ t.bloque \in Bloques
    BY <1>0 DEF ArchivoTipo, DatosTipo, BloqueSwap
  <2>4. ArchivoTipo'
    BY <2>2, <2>3, EscribirBloque
  <2>5. QED
    BY <1>0, <1>1, <2>1, <2>4 DEF DatosTipo, ArchivoTipo
<1>6. CASE Traer
  <2>1. UNCHANGED <<bytes, archivo, memoria_total_size>>
    BY <1>6 DEF Traer, AsignarFisica
  <2>2. QED
    BY <1>2, <2>1
<1>7. CASE Restaurar
  <2>1. UNCHANGED <<archivo, memoria_total_size>> /\ bytes' \in [0 .. memoria_total_size - 1 -> VALORES]
    BY <1>0, <1>7, RestaurarHace
  <2>2. QED
    BY <1>0, <1>1, <2>1 DEF DatosTipo
<1>8. CASE Mover
  <2>1. MoverSegmento /\ UNCHANGED archivo
    BY <1>8 DEF Mover
  <2>2. PICK x \in todos : todos' = todos \ {x}
    BY <1>0, <2>1, MoverHace
  <2>3. UNCHANGED memoria_total_size
    BY <2>1 DEF MoverSegmento
  <2>4. bytes' \in [0 .. memoria_total_size - 1 -> VALORES]
    BY <1>0, <1>8, <2>2, MoverCopia
  <2>5. QED
    BY <1>0, <1>1, <2>1, <2>3, <2>4 DEF DatosTipo
<1>9. ASSUME NEW tamanio \in STICKS, Conectar(tamanio)
      PROVE  DatosTipo'
  BY <1>0, <1>1, <1>9, ConectarHace DEF DatosTipo
<1>10. ASSUME NEW p \in PIDS, Programa(p)
       PROVE  DatosTipo'
  <2>1. CASE ejecutar_mov_in(p) \/ ejecutar_mov_out(p) \/ ejecutar_copy_mem(p)
    <3>1. UNCHANGED <<bytes, archivo, memoria_total_size>>
      BY <2>1 DEF ejecutar_mov_in, ejecutar_mov_out, ejecutar_copy_mem, Acceder, vars
    <3>2. QED
      BY <1>2, <3>1
  <2>2. CASE LeerPedazo(p) \/ TraducirDestino(p)
    <3>1. UNCHANGED <<vars, bytes, archivo>>
      BY <1>0, <2>2, LeerPedazoHace, TraducirDestinoHace
    <3>2. QED
      BY <1>2, <3>1 DEF vars
  <2>3. CASE EscribirPedazo(p)
    <3>1. UNCHANGED <<vars, archivo>> /\ bytes' \in [0 .. memoria_total_size - 1 -> VALORES]
      BY <1>0, <2>3, EscribirPedazoHace, PasoEscribir
    <3>2. QED
      BY <1>0, <1>1, <3>1 DEF DatosTipo, vars
  <2>4. CASE TerminarAcceso(p) \/ FinPorFallo(p)
    <3>1. UNCHANGED <<bytes, archivo, memoria_total_size>>
      BY <2>4 DEF TerminarAcceso, FinPorFallo, IniciarFin, vars
    <3>2. QED
      BY <1>2, <3>1
  <2>5. QED
    BY <1>10, <2>1, <2>2, <2>3, <2>4 DEF Programa
<1>11. QED
  BY <1>3, <1>4, <1>5, <1>6, <1>7, <1>8, <1>9, <1>10 DEF NextDatos

\* InvDatos at the start.
LEMMA DatosInicial == InitDatos => InvDatos
<1> SUFFICES ASSUME InitDatos
             PROVE  InvDatos
  OBVIOUS
<1>1. memoria_total_size = 0 /\ hilo = Ocioso
  BY DEF InitDatos, Init
<1>2. bytes \in [0 .. memoria_total_size - 1 -> VALORES]
  <2>1. 0 .. memoria_total_size - 1 = {}
    BY <1>1
  <2>2. bytes = [d \in {} |-> 0]
    BY DEF InitDatos
  <2>3. QED
    BY <2>1, <2>2
<1>3. archivo \in [0 .. SWAP_NUM_BLOQUES * SWAP_BLOCK_SIZE - 1 -> VALORES]
  BY DEF InitDatos
<1>4. acceso = [p \in PIDS |-> Ninguno]
  BY DEF InitDatos
<1>5. acceso \in [PIDS -> Accesos]
  BY <1>4, NingunoTipo
<1>6. CopiaBien
  BY <1>1 DEF CopiaBien, Ocioso
<1>7. AccesosBien
  BY <1>4, NingunoTipo DEF AccesosBien, EnCurso
<1>8. QED
  BY <1>2, <1>3, <1>5, <1>6, <1>7 DEF InvDatos, DatosTipo

\* InvDatos is inductive.
LEMMA DatosPaso ==
    ASSUME TypeOK, InvFirme, InvSticks, InvDatos, [NextDatos]_varsDatos
    PROVE  InvDatos'
<1>0. Firme /\ DatosTipo /\ AccesosBien /\ CopiaBien
  BY DEF InvDatos, InvFirme
<1>1. QED
  BY <1>0, DatosTipoPaso, CopiaPaso, AccesosPaso DEF InvDatos

\* An access under way is always about a segment that stays where it was translated, with the
\* rest of its range still to do, and what a resumption has in its hands is what the block
\* holds: no compaction, suspension or end moves the bytes under a CPU or a device (the mutexes
\* of memo_stick.c and the requests of memory.c), whatever fails.
THEOREM DatosCorrectos == SpecDatos => []InvDatos
<1>1. SpecDatos => [](TypeOK /\ InvFirme)
  BY DatosEsSegmentacion, TipoCorrecto, RegistroCorrecto, PTL
<1>2. SpecDatos => []InvSticks
  BY SticksInicial, SticksPaso, PTL DEF SpecDatos
<1>3. TypeOK /\ InvFirme /\ InvSticks /\ InvDatos /\ [NextDatos]_varsDatos => InvDatos'
  BY DatosPaso
<1>4. QED
  BY <1>1, <1>2, <1>3, DatosInicial, PTL DEF SpecDatos

-----------------------------------------------------------------------------
(* What a process sees of a segment.                                       *)

\* The bytes of a block, over any file.
DelBloque(arch, t) == [i \in 1 .. t.tamanio |-> arch[t.bloque * SWAP_BLOCK_SIZE + i - 1]]

\* The bytes of a segment, over any memory.
DeSticks(mem, s) == [i \in 1 .. s.limite |-> mem[s.base + i - 1]]

\* ContenidoDe over any tables and any bytes.
ContenidoEn(dado, segs, swap, arch, mem, p, id) ==
    LET seg   == {s \in segs : s.id = id}
        fuera == {t \in swap : t.pid = p /\ t.segmento_id = id}
    IN  IF p \in dado \/ seg = {} THEN <<>>
        ELSE IF fuera # {}
        THEN LET t == CHOOSE u \in fuera : TRUE
             IN  DelBloque(arch, t)
        ELSE LET s == CHOOSE u \in seg : TRUE
             IN  DeSticks(mem, s)

\* What a process sees, before and after a step.
LEMMA ContenidoAhora ==
    ASSUME NEW p, NEW id
    PROVE  /\ ContenidoDe(p, id) =
                  ContenidoEn(perdidos, tabla_segmentos[p], tabla_swap, archivo, bytes, p, id)
           /\ ContenidoDe(p, id)' =
                  ContenidoEn(perdidos', tabla_segmentos'[p], tabla_swap', archivo', bytes', p, id)
  BY DEF ContenidoDe, ContenidoEn, leer_Bloque, DelBloque, DeSticks

\* Its three cases: nothing, a block, the sticks.
LEMMA EnVacio ==
    ASSUME NEW dado, NEW segs, NEW swap, NEW arch, NEW mem, NEW p, NEW id,
           p \in dado \/ \A s \in segs : s.id # id
    PROVE  ContenidoEn(dado, segs, swap, arch, mem, p, id) = <<>>
  BY DEF ContenidoEn

LEMMA EnBloques ==
    ASSUME NEW dado, NEW segs, NEW swap, NEW arch, NEW mem, NEW p, NEW id, p \notin dado,
           \E s \in segs : s.id = id,
           NEW t \in swap, t.pid = p, t.segmento_id = id,
           \A u \in swap : u.pid = p /\ u.segmento_id = id => u = t
    PROVE  ContenidoEn(dado, segs, swap, arch, mem, p, id) =
               DelBloque(arch, t)
<1> DEFINE fuera == {u \in swap : u.pid = p /\ u.segmento_id = id}
<1>1. fuera = {t}
  OBVIOUS
<1>2. (CHOOSE u \in fuera : TRUE) = t
  BY <1>1
<1>3. {s \in segs : s.id = id} # {}
  OBVIOUS
<1>4. QED
  BY <1>1, <1>2, <1>3 DEF ContenidoEn

LEMMA EnPedazos ==
    ASSUME NEW dado, NEW segs, NEW swap, NEW arch, NEW mem, NEW p, NEW id, p \notin dado,
           NEW s \in segs, s.id = id, \A u \in segs : u.id = id => u = s,
           \A u \in swap : ~(u.pid = p /\ u.segmento_id = id)
    PROVE  ContenidoEn(dado, segs, swap, arch, mem, p, id) = DeSticks(mem, s)
<1> DEFINE seg == {u \in segs : u.id = id}
<1>1. seg = {s}
  OBVIOUS
<1>2. (CHOOSE u \in seg : TRUE) = s
  BY <1>1
<1>3. {u \in swap : u.pid = p /\ u.segmento_id = id} = {}
  OBVIOUS
<1>4. QED
  BY <1>1, <1>2, <1>3 DEF ContenidoEn

\* A segment given back, or of a process given up, has no bytes; one with a block has those of
\* the block, and the others those of the sticks.
LEMMA ContenidoCasos ==
    ASSUME Firme, NEW p \in PIDS, NEW id \in IDS
    PROVE  /\ p \in perdidos \/ (\A s \in tabla_segmentos[p] : s.id # id) => ContenidoDe(p, id) = <<>>
           /\ \A t \in tabla_swap : p \notin perdidos /\ t.pid = p /\ t.segmento_id = id =>
                  ContenidoDe(p, id) = leer_Bloque(t.bloque, t.tamanio)
           /\ \A s \in tabla_segmentos[p] : p \notin perdidos /\ s.id = id /\ ~EnBloque(p, id) =>
                  ContenidoDe(p, id) = [i \in 1 .. s.limite |-> bytes[s.base + i - 1]]
<1>1. p \in perdidos \/ (\A s \in tabla_segmentos[p] : s.id # id) => ContenidoDe(p, id) = <<>>
  BY ContenidoAhora, EnVacio
<1>2. ASSUME NEW t \in tabla_swap, p \notin perdidos, t.pid = p, t.segmento_id = id
      PROVE  ContenidoDe(p, id) = leer_Bloque(t.bloque, t.tamanio)
  <2>1. \E s \in tabla_segmentos[p] : s.id = id
    BY <1>2 DEF Firme, BloquesBien
  <2>2. \A u \in tabla_swap : u.pid = p /\ u.segmento_id = id => u = t
    BY <1>2 DEF Firme, BloquesBien
  <2>3. ContenidoEn(perdidos, tabla_segmentos[p], tabla_swap, archivo, bytes, p, id) =
               DelBloque(archivo, t)
    BY <1>2, <2>1, <2>2, EnBloques
  <2>4. QED
    BY <2>3, ContenidoAhora DEF leer_Bloque, DelBloque
<1>3. ASSUME NEW s \in tabla_segmentos[p], p \notin perdidos, s.id = id, ~EnBloque(p, id)
      PROVE  ContenidoDe(p, id) = [i \in 1 .. s.limite |-> bytes[s.base + i - 1]]
  <2>1. \A u \in tabla_segmentos[p] : u.id = id => u = s
    BY <1>3 DEF Firme, TablasBien
  <2>2. \A u \in tabla_swap : ~(u.pid = p /\ u.segmento_id = id)
    BY <1>3 DEF EnBloque
  <2>3. ContenidoEn(perdidos, tabla_segmentos[p], tabla_swap, archivo, bytes, p, id) =
               DeSticks(bytes, s)
    BY <1>3, <2>1, <2>2, EnPedazos
  <2>4. QED
    BY <2>3, ContenidoAhora DEF DeSticks
<1>4. QED
  BY <1>1, <1>2, <1>3

\* And after the step.
LEMMA ContenidoCasosPrima ==
    ASSUME Firme', NEW p \in PIDS, NEW id \in IDS
    PROVE  /\ p \in perdidos' \/ (\A s \in tabla_segmentos'[p] : s.id # id) => ContenidoDe(p, id)' = <<>>
           /\ \A t \in tabla_swap' : p \notin perdidos' /\ t.pid = p /\ t.segmento_id = id =>
                  ContenidoDe(p, id)' = leer_Bloque(t.bloque, t.tamanio)'
           /\ \A s \in tabla_segmentos'[p] : p \notin perdidos' /\ s.id = id /\ ~EnBloque(p, id)' =>
                  ContenidoDe(p, id)' = [i \in 1 .. s.limite |-> bytes'[s.base + i - 1]]
<1>1. p \in perdidos' \/ (\A s \in tabla_segmentos'[p] : s.id # id) => ContenidoDe(p, id)' = <<>>
  BY ContenidoAhora, EnVacio
<1>2. ASSUME NEW t \in tabla_swap', p \notin perdidos', t.pid = p, t.segmento_id = id
      PROVE  ContenidoDe(p, id)' = leer_Bloque(t.bloque, t.tamanio)'
  <2>1. \E s \in tabla_segmentos'[p] : s.id = id
    BY <1>2 DEF Firme, BloquesBien
  <2>2. \A u \in tabla_swap' : u.pid = p /\ u.segmento_id = id => u = t
    BY <1>2 DEF Firme, BloquesBien
  <2>3. ContenidoEn(perdidos', tabla_segmentos'[p], tabla_swap', archivo', bytes', p, id) =
               DelBloque(archivo', t)
    BY <1>2, <2>1, <2>2, EnBloques
  <2>4. QED
    BY <2>3, ContenidoAhora DEF leer_Bloque, DelBloque
<1>3. ASSUME NEW s \in tabla_segmentos'[p], p \notin perdidos', s.id = id, ~EnBloque(p, id)'
      PROVE  ContenidoDe(p, id)' = [i \in 1 .. s.limite |-> bytes'[s.base + i - 1]]
  <2>1. \A u \in tabla_segmentos'[p] : u.id = id => u = s
    BY <1>3 DEF Firme, TablasBien
  <2>2. \A u \in tabla_swap' : ~(u.pid = p /\ u.segmento_id = id)
    BY <1>3 DEF EnBloque
  <2>3. ContenidoEn(perdidos', tabla_segmentos'[p], tabla_swap', archivo', bytes', p, id) =
               DeSticks(bytes', s)
    BY <1>3, <2>1, <2>2, EnPedazos
  <2>4. QED
    BY <2>3, ContenidoAhora DEF DeSticks
<1>4. QED
  BY <1>1, <1>2, <1>3

\* What a step leaves of one segment when it touches neither its entries nor its bytes.
LEMMA ContenidoMismo ==
    ASSUME Firme, Firme', NEW p \in PIDS, NEW id \in IDS,
           p \in perdidos' <=> p \in perdidos,
           \A s : s.id = id => (s \in tabla_segmentos'[p] <=> s \in tabla_segmentos[p]),
           p \notin perdidos =>
               \A t : t.pid = p /\ t.segmento_id = id => (t \in tabla_swap' <=> t \in tabla_swap),
           p \notin perdidos =>
               \A t \in tabla_swap : t.pid = p /\ t.segmento_id = id =>
                   leer_Bloque(t.bloque, t.tamanio)' = leer_Bloque(t.bloque, t.tamanio),
           p \notin perdidos /\ ~EnBloque(p, id) =>
               \A s \in tabla_segmentos[p] : s.id = id =>
                   \A i \in 1 .. s.limite : bytes'[s.base + i - 1] = bytes[s.base + i - 1]
    PROVE  ContenidoDe(p, id)' = ContenidoDe(p, id)
<1>1. CASE p \in perdidos \/ \A s \in tabla_segmentos[p] : s.id # id
  <2>1. p \in perdidos' \/ \A s \in tabla_segmentos'[p] : s.id # id
    BY <1>1
  <2>2. QED
    BY <1>1, <2>1, ContenidoCasos, ContenidoCasosPrima
<1>2. ASSUME p \notin perdidos, NEW t \in tabla_swap, t.pid = p, t.segmento_id = id
      PROVE  ContenidoDe(p, id)' = ContenidoDe(p, id)
  <2>1. ContenidoDe(p, id) = leer_Bloque(t.bloque, t.tamanio)
    BY <1>2, ContenidoCasos
  <2>2. ContenidoDe(p, id)' = leer_Bloque(t.bloque, t.tamanio)'
    BY <1>2, ContenidoCasosPrima
  <2>3. QED
    BY <1>2, <2>1, <2>2
<1>3. ASSUME p \notin perdidos, NEW s \in tabla_segmentos[p], s.id = id, ~EnBloque(p, id)
      PROVE  ContenidoDe(p, id)' = ContenidoDe(p, id)
  <2>1. ContenidoDe(p, id) = [i \in 1 .. s.limite |-> bytes[s.base + i - 1]]
    BY <1>3, ContenidoCasos
  <2>2. ~EnBloque(p, id)'
    BY <1>3 DEF EnBloque
  <2>3. ContenidoDe(p, id)' = [i \in 1 .. s.limite |-> bytes'[s.base + i - 1]]
    BY <1>3, <2>2, ContenidoCasosPrima
  <2>4. \A i \in 1 .. s.limite : bytes'[s.base + i - 1] = bytes[s.base + i - 1]
    BY <1>3
  <2>5. QED
    BY <2>1, <2>3, <2>4
<1>4. QED
  BY <1>1, <1>2, <1>3 DEF EnBloque

-----------------------------------------------------------------------------
(* The content of the segments, step by step.                              *)

\* Nothing of what it is made of changed.
LEMMA ContenidoQuieto ==
    ASSUME UNCHANGED <<perdidos, tabla_segmentos, tabla_swap, bytes, archivo>>, NEW p, NEW id
    PROVE  ContenidoDe(p, id)' = ContenidoDe(p, id)
  BY DEF ContenidoDe, leer_Bloque

\* A segment in memory of a process not given up is live.
LEMMA VivoEs ==
    ASSUME TypeOK, Firme, NEW p \in PIDS, NEW s \in tabla_segmentos[p], p \notin perdidos, EnMemoria(p, s.id)
    PROVE  /\ <<p, s>> \in Vivos /\ s \in Segmento
           /\ s.base \in Nat /\ s.limite \in Nat /\ s.limite > 0 /\ s.base + s.limite <= memoria_total_size
<1>1. s \in Segmento
  BY DEF TypeOK
<1>2. <<p, s>> \in Vivos
  BY <1>1, VivosTipo
<1>3. QED
  BY <1>1, <1>2, VivosTipo DEF Fin

\* The addresses of a segment, and those of another that shares no byte with it.
LEMMA DireccionesDelSegmento ==
    ASSUME NEW s \in Segmento, NEW total \in Nat, s.base + s.limite <= total
    PROVE  /\ \A i \in 1 .. s.limite : s.base + i - 1 \in 0 .. total - 1
           /\ \A r \in Segmento : Disjuntos(s, r) =>
                  \A i \in 1 .. s.limite : ~(r.base <= s.base + i - 1 /\ s.base + i - 1 < r.base + r.limite)
  BY DEF Segmento, Disjuntos, Fin

\* Writing inside a live segment changes no other.
LEMMA VivosAparte ==
    ASSUME TypeOK, Firme, Sueltos, NEW p \in PIDS, NEW s \in tabla_segmentos[p], p \notin perdidos,
           EnMemoria(p, s.id), NEW q \in PIDS, NEW r \in tabla_segmentos[q], q \notin perdidos,
           EnMemoria(q, r.id), p # q \/ s.id # r.id, NEW despues,
           SoloEntre(bytes, despues, r.base, r.base + r.limite, memoria_total_size)
    PROVE  \A i \in 1 .. s.limite : despues[s.base + i - 1] = bytes[s.base + i - 1]
<1>1. /\ <<p, s>> \in Vivos /\ <<q, r>> \in Vivos /\ s \in Segmento /\ r \in Segmento
      /\ s.base + s.limite <= memoria_total_size /\ memoria_total_size \in Nat
  BY VivoEs DEF TypeOK
<1>2. Disjuntos(s, r)
  BY <1>1 DEF Sueltos
<1>3. QED
  BY <1>1, <1>2, DireccionesDelSegmento DEF SoloEntre

\* suspender_proceso: what the block holds is what the sticks held.
LEMMA ContenidoGuardar ==
    ASSUME TypeOK, Firme, Firme', InvSticks, DatosTipo, Guardar, NEW q \in PIDS, NEW id \in IDS
    PROVE  ContenidoDe(q, id)' = ContenidoDe(q, id)
<1> DEFINE p == hilo.pid
<1>1. /\ p \in PIDS /\ p \notin perdidos
      /\ UNCHANGED <<perdidos, tabla_segmentos, memoria_total_size, lista_memory_sticks, bytes>>
      /\ \E s \in tabla_segmentos[p], t \in BloqueSwap, v \in Seq(VALORES) :
                /\ ~EnBloque(p, s.id) /\ t.pid = p /\ t.segmento_id = s.id
                /\ t.tamanio = s.limite /\ t.tamanio <= SWAP_BLOCK_SIZE
                /\ \A u \in tabla_swap : u.bloque # t.bloque
                /\ tabla_swap' = tabla_swap \cup {t}
                /\ Len(v) = s.limite /\ \A i \in 1 .. s.limite : v[i] = bytes[s.base + i - 1]
                /\ archivo' = escribir_Bloque(t.bloque, v)
  BY GuardarHace
<1>2. PICK s \in tabla_segmentos[p], t \in BloqueSwap, v \in Seq(VALORES) :
                /\ ~EnBloque(p, s.id) /\ t.pid = p /\ t.segmento_id = s.id
                /\ t.tamanio = s.limite /\ t.tamanio <= SWAP_BLOCK_SIZE
                /\ \A u \in tabla_swap : u.bloque # t.bloque
                /\ tabla_swap' = tabla_swap \cup {t}
                /\ Len(v) = s.limite /\ \A i \in 1 .. s.limite : v[i] = bytes[s.base + i - 1]
                /\ archivo' = escribir_Bloque(t.bloque, v)
  BY <1>1
<1>3. ArchivoTipo /\ t.bloque \in Bloques /\ Len(v) <= SWAP_BLOCK_SIZE
  BY <1>2 DEF ArchivoTipo, DatosTipo, BloqueSwap
<1>4. /\ leer_Bloque(t.bloque, Len(v))' = v
      /\ \A c \in Bloques, tamanio \in Nat : c # t.bloque /\ tamanio <= SWAP_BLOCK_SIZE =>
              leer_Bloque(c, tamanio)' = leer_Bloque(c, tamanio)
  BY <1>2, <1>3, EscribirBloque
<1>5. CASE q = p /\ id = s.id
  <2>1. ContenidoDe(q, id) = [i \in 1 .. s.limite |-> bytes[s.base + i - 1]]
    BY <1>1, <1>2, <1>5, ContenidoCasos
  <2>2. ContenidoDe(q, id)' = leer_Bloque(t.bloque, t.tamanio)'
    BY <1>1, <1>2, <1>5, ContenidoCasosPrima
  <2>3. leer_Bloque(t.bloque, t.tamanio)' = v
    BY <1>2, <1>4
  <2>4. v = [i \in 1 .. s.limite |-> v[i]]
    BY <1>2
  <2>5. QED
    BY <1>2, <2>1, <2>2, <2>3, <2>4
<1>6. CASE ~(q = p /\ id = s.id)
  <2>1. \A u : u.pid = q /\ u.segmento_id = id => (u \in tabla_swap' <=> u \in tabla_swap)
    BY <1>2, <1>6
  <2>2. \A u \in tabla_swap : leer_Bloque(u.bloque, u.tamanio)' = leer_Bloque(u.bloque, u.tamanio)
    <3>1. \A u \in tabla_swap : u.bloque \in Bloques /\ u.tamanio \in Nat /\ u.tamanio <= SWAP_BLOCK_SIZE
      BY DEF TypeOK, BloqueSwap, Firme, BloquesBien
    <3>2. QED
      BY <1>2, <1>4, <3>1
  <2>3. QED
    BY <1>1, <2>1, <2>2, ContenidoMismo
<1>7. QED
  BY <1>5, <1>6

\* desuspender_proceso gives the segment a place; its bytes are still those of the block.
LEMMA ContenidoTraer ==
    ASSUME TypeOK, Firme, Firme', Traer, NEW q \in PIDS, NEW id \in IDS
    PROVE  ContenidoDe(q, id)' = ContenidoDe(q, id)
<1> DEFINE p == hilo.pid
<1>1. AsignarFisica /\ UNCHANGED <<bytes, archivo>>
  BY DEF Traer
<1>2. p \in PIDS /\ p \notin perdidos /\ UNCHANGED <<perdidos, tabla_swap>>
  BY <1>1, AsignarHace
<1>3. PICK t \in tabla_swap, s \in tabla_segmentos[p], r \in Segmento :
                /\ t.pid = p /\ t.segmento_id = s.id /\ r.id = s.id
                /\ tabla_segmentos'[p] = (tabla_segmentos[p] \ {s}) \cup {r}
                /\ \A o \in PIDS : o # p => tabla_segmentos'[o] = tabla_segmentos[o]
  BY <1>1, AsignarHace
<1>4. \A b, n : leer_Bloque(b, n)' = leer_Bloque(b, n)
  BY <1>1 DEF leer_Bloque
<1>5. CASE q = p /\ id = s.id
  <2>1. ContenidoDe(q, id) = leer_Bloque(t.bloque, t.tamanio)
    BY <1>2, <1>3, <1>5, ContenidoCasos
  <2>2. ContenidoDe(q, id)' = leer_Bloque(t.bloque, t.tamanio)'
    BY <1>2, <1>3, <1>5, ContenidoCasosPrima
  <2>3. QED
    BY <1>4, <2>1, <2>2
<1>6. CASE ~(q = p /\ id = s.id)
  <2>1. \A u : u.id = id => (u \in tabla_segmentos'[q] <=> u \in tabla_segmentos[q])
    BY <1>3, <1>6
  <2>2. QED
    BY <1>1, <1>2, <1>4, <2>1, ContenidoMismo
<1>7. QED
  BY <1>5, <1>6

\* The bytes are at the new base when the block is given back.
LEMMA ContenidoRestaurar ==
    ASSUME TypeOK, Firme, Firme', InvSticks, DatosTipo, CopiaBien, Sueltos, Restaurar,
           NEW q \in PIDS, NEW id \in IDS
    PROVE  ContenidoDe(q, id)' = ContenidoDe(q, id)
<1> DEFINE p == hilo.pid
<1>1. /\ hilo.op = "desocupar" /\ p \in PIDS /\ p \notin perdidos
      /\ tabla_swap' = {t \in tabla_swap : t.pid # p \/ t.segmento_id # hilo.id}
      /\ UNCHANGED <<perdidos, tabla_segmentos, memoria_total_size, archivo>>
  BY RestaurarHace
<1>2. PICK s \in tabla_segmentos[p], t \in tabla_swap :
                /\ s.id = hilo.id /\ t.pid = p /\ t.segmento_id = hilo.id /\ s.limite = t.tamanio
                /\ copia = leer_Bloque(t.bloque, t.tamanio)
                /\ SoloEntre(bytes, bytes', s.base, s.base + s.limite, memoria_total_size)
                /\ Escrito(bytes', copia, s.base, s.base + s.limite, memoria_total_size)
  BY RestaurarHace
<1>3. EnMemoria(p, s.id)
  BY <1>1, <1>2 DEF EnMemoria
<1>4. /\ s \in Segmento /\ s.base \in Nat /\ s.limite \in Nat /\ s.base + s.limite <= memoria_total_size
      /\ memoria_total_size \in Nat
  BY <1>1, <1>3, VivoEs DEF TypeOK
<1>5. CASE q = p /\ id = s.id
  <2>1. ContenidoDe(q, id) = leer_Bloque(t.bloque, t.tamanio)
    BY <1>1, <1>2, <1>5, ContenidoCasos
  <2>2. ~EnBloque(q, id)'
    BY <1>1, <1>2, <1>5 DEF EnBloque
  <2>3. ContenidoDe(q, id)' = [i \in 1 .. s.limite |-> bytes'[s.base + i - 1]]
    BY <1>1, <1>2, <1>5, <2>2, ContenidoCasosPrima
  <2>4. \A i \in 1 .. s.limite : s.base + i - 1 \in 0 .. memoria_total_size - 1
    BY <1>4, DireccionesDelSegmento
  <2>5. (s.base + s.limite) - s.base = s.limite
    BY <1>4
  <2>6. \A i \in 1 .. s.limite : bytes'[s.base + i - 1] = copia[i]
    BY <1>2, <2>4, <2>5 DEF Escrito
  <2>7. copia = [i \in 1 .. s.limite |-> copia[i]]
    BY <1>2 DEF leer_Bloque
  <2>8. QED
    BY <1>2, <2>1, <2>3, <2>6, <2>7
<1>6. CASE ~(q = p /\ id = s.id)
  <2>1. \A u : u.pid = q /\ u.segmento_id = id => (u \in tabla_swap' <=> u \in tabla_swap)
    BY <1>1, <1>2, <1>6
  <2>2. \A b, n : leer_Bloque(b, n)' = leer_Bloque(b, n)
    BY <1>1 DEF leer_Bloque
  <2>3. ASSUME q \notin perdidos, ~EnBloque(q, id), NEW r \in tabla_segmentos[q], r.id = id
        PROVE  \A i \in 1 .. r.limite : bytes'[r.base + i - 1] = bytes[r.base + i - 1]
    <3>1. EnMemoria(q, r.id)
      BY <2>3 DEF EnMemoria
    <3>2. QED
      BY <1>1, <1>2, <1>3, <1>6, <2>3, <3>1, VivosAparte
  <2>4. QED
    BY <1>1, <2>1, <2>2, <2>3, ContenidoMismo
<1>7. QED
  BY <1>5, <1>6

\* And after the step.
LEMMA VivoEsPrima ==
    ASSUME TypeOK', Firme', NEW p \in PIDS, NEW s \in tabla_segmentos'[p], p \notin perdidos', EnMemoria(p, s.id)'
    PROVE  <<p, s>> \in Vivos' /\ s \in Segmento
<1>1. s \in Segmento
  BY DEF TypeOK
<1>2. QED
  BY <1>1, VivosTipoPrima

\* The copy of a segment to the cursor lands on no other segment.
LEMMA ContenidoMover ==
    ASSUME TypeOK, TypeOK', InvFirme, Firme', InvSticks, DatosTipo, LugarBien, LugarBien', Mover,
           NEW q \in PIDS, NEW id \in IDS
    PROVE  ContenidoDe(q, id)' = ContenidoDe(q, id)
<1>0. Firme /\ MoverSegmento /\ UNCHANGED archivo
  BY DEF InvFirme, Mover
<1>1. /\ hilo.op = "compactar" /\ UNCHANGED <<perdidos, tabla_swap, memoria_total_size, hilo>>
      /\ cursor \in Nat /\ memoria_total_size \in Nat
  BY <1>0, MoverHace DEF TypeOK
<1>2. PICK x \in todos, r \in Segmento :
                /\ todos' = todos \ {x}
                /\ x[1] \in PIDS /\ x[2] \in Segmento /\ x = <<x[1], x[2]>>
                /\ r.id = x[2].id /\ r.base = cursor /\ r.limite = x[2].limite
                /\ IF Movible(x[2])
                   THEN /\ cursor' = cursor + x[2].limite
                        /\ tabla_segmentos'[x[1]] = (tabla_segmentos[x[1]] \ {x[2]}) \cup {r}
                        /\ \A o \in PIDS : o # x[1] => tabla_segmentos'[o] = tabla_segmentos[o]
                   ELSE UNCHANGED <<tabla_segmentos, cursor>>
  BY <1>0, MoverHace
<1> DEFINE p == x[1]
           s == x[2]
<1>3. Movible(s)
  BY <1>0, <1>1, VivoMovible
<1>4. /\ tabla_segmentos'[p] = (tabla_segmentos[p] \ {s}) \cup {r}
      /\ \A o \in PIDS : o # p => tabla_segmentos'[o] = tabla_segmentos[o]
  BY <1>2, <1>3
<1>5. x \in Vivos
  BY <1>1 DEF LugarBien
<1>6. p \in PIDS /\ p \notin perdidos /\ s \in tabla_segmentos[p] /\ EnMemoria(p, s.id) /\ s \in Segmento
  BY <1>0, <1>2, <1>5, VivosTipo
<1>7. ~EnBloque(p, s.id) /\ ~EnBloque(p, s.id)'
  BY <1>1, <1>6 DEF EnMemoria, EnBloque
<1>8. s.base \in Nat /\ s.limite \in Nat /\ s.limite > 0 /\ s.base + s.limite <= memoria_total_size
  BY <1>0, <1>6, VivoEs
<1>9. cursor + s.limite <= memoria_total_size
  BY <1>1, <1>3, <1>8 DEF Movible, EnSticks
<1>10. \/ UNCHANGED bytes /\ s.base = cursor
       \/ \E v \in Seq(VALORES) :
            /\ Len(v) = s.limite /\ \A i \in 1 .. s.limite : v[i] = bytes[s.base + i - 1]
            /\ SoloEntre(bytes, bytes', cursor, cursor + s.limite, memoria_total_size)
            /\ Escrito(bytes', v, cursor, cursor + s.limite, memoria_total_size)
  BY <1>2, <1>8, <1>9, MoverCopia
<1>11. SoloEntre(bytes, bytes', cursor, cursor + s.limite, memoria_total_size)
  BY <1>10 DEF SoloEntre
<1>12. \A i \in 1 .. s.limite : cursor + i - 1 \in 0 .. memoria_total_size - 1
  <2>1. r.base + r.limite <= memoria_total_size
    BY <1>2, <1>9
  <2>2. QED
    BY <1>1, <1>2, <2>1, DireccionesDelSegmento
<1>13. \A i \in 1 .. s.limite : bytes'[cursor + i - 1] = bytes[s.base + i - 1]
  <2>1. ASSUME NEW v \in Seq(VALORES),
               \A i \in 1 .. s.limite : v[i] = bytes[s.base + i - 1],
               Escrito(bytes', v, cursor, cursor + s.limite, memoria_total_size)
        PROVE  \A i \in 1 .. s.limite : bytes'[cursor + i - 1] = bytes[s.base + i - 1]
    <3>1. (cursor + s.limite) - cursor = s.limite
      BY <1>1, <1>8
    <3>2. QED
      BY <1>12, <2>1, <3>1 DEF Escrito
  <2>2. QED
    BY <1>10, <2>1
<1> HIDE DEF p, s
<1>14. CASE q = p /\ id = s.id
  <2>1. ContenidoDe(q, id) = [i \in 1 .. s.limite |-> bytes[s.base + i - 1]]
    BY <1>0, <1>6, <1>7, <1>14, ContenidoCasos
  <2>2. r \in tabla_segmentos'[p] /\ r.id = s.id
    BY <1>2, <1>4 DEF s
  <2>3. ContenidoDe(q, id)' = [i \in 1 .. r.limite |-> bytes'[r.base + i - 1]]
    BY <1>1, <1>6, <1>7, <1>14, <2>2, ContenidoCasosPrima
  <2>4. r.limite = s.limite /\ r.base = cursor
    BY <1>2 DEF s
  <2>5. QED
    BY <1>13, <2>1, <2>3, <2>4
<1>15. CASE ~(q = p /\ id = s.id)
  <2>1. \A u : u.id = id => (u \in tabla_segmentos'[q] <=> u \in tabla_segmentos[q])
    BY <1>2, <1>4, <1>15 DEF s
  <2>2. \A b, n : leer_Bloque(b, n)' = leer_Bloque(b, n)
    BY <1>0 DEF leer_Bloque
  <2>3. ASSUME q \notin perdidos, ~EnBloque(q, id), NEW u \in tabla_segmentos[q], u.id = id
        PROVE  \A i \in 1 .. u.limite : bytes'[u.base + i - 1] = bytes[u.base + i - 1]
    <3>1. u \in tabla_segmentos'[q] /\ EnMemoria(q, u.id)' /\ EnMemoria(q, u.id)
      BY <1>1, <2>1, <2>3 DEF EnMemoria, EnBloque
    <3>2. <<q, u>> \in Vivos' /\ u \in Segmento
      BY <1>1, <2>3, <3>1, VivoEsPrima
    <3>3. u.base + u.limite <= memoria_total_size
      BY <1>0, <2>3, <3>1, VivoEs
    <3>4. r \in tabla_segmentos'[p] /\ r.id = s.id /\ EnMemoria(p, r.id)'
      BY <1>2, <1>4, <1>7 DEF s, EnMemoria
    <3>5. <<p, r>> \in Vivos'
      BY <1>1, <1>6, <3>4, VivoEsPrima
    <3>6. <<q, u>> # <<p, r>>
      BY <1>15, <2>3, <3>4
    <3>7. Disjuntos(u, r)
      BY <3>2, <3>5, <3>6 DEF LugarBien, Sueltos
    <3>8. r.base = cursor /\ r.limite = s.limite
      BY <1>2 DEF s
    <3>9. QED
      BY <1>1, <1>2, <1>11, <3>2, <3>3, <3>7, <3>8, DireccionesDelSegmento DEF SoloEntre
  <2>4. QED
    BY <1>0, <1>1, <2>1, <2>2, <2>3, ContenidoMismo
<1>16. QED
  BY <1>14, <1>15

\* A new stick changes no segment.
LEMMA ContenidoConectar ==
    ASSUME TypeOK, Firme, Firme', DatosTipo, NEW tamanio \in STICKS, Conectar(tamanio),
           NEW q \in PIDS, NEW id \in IDS
    PROVE  ContenidoDe(q, id)' = ContenidoDe(q, id)
<1>1. /\ \A d \in 0 .. memoria_total_size - 1 : bytes'[d] = bytes[d]
      /\ UNCHANGED <<archivo, perdidos, tabla_segmentos, tabla_swap>>
  BY ConectarHace
<1>2. \A b, n : leer_Bloque(b, n)' = leer_Bloque(b, n)
  BY <1>1 DEF leer_Bloque
<1>3. ASSUME q \notin perdidos, ~EnBloque(q, id), NEW s \in tabla_segmentos[q], s.id = id
      PROVE  \A i \in 1 .. s.limite : bytes'[s.base + i - 1] = bytes[s.base + i - 1]
  <2>1. EnMemoria(q, s.id)
    BY <1>3 DEF EnMemoria
  <2>2. s \in Segmento /\ s.base + s.limite <= memoria_total_size /\ memoria_total_size \in Nat
    BY <1>3, <2>1, VivoEs DEF TypeOK
  <2>3. QED
    BY <1>1, <2>2, DireccionesDelSegmento
<1>4. QED
  BY <1>1, <1>2, <1>3, ContenidoMismo

\* What changes inside a range changes inside a larger one.
LEMMA SoloEntreMas ==
    ASSUME NEW antes, NEW despues, NEW x \in Nat, NEW y \in Nat, NEW v \in Nat, NEW w \in Nat, NEW total \in Nat,
           SoloEntre(antes, despues, x, y, total), v <= x, y <= w
    PROVE  SoloEntre(antes, despues, v, w, total)
  BY DEF SoloEntre

\* Where byte i of a segment at base is, when n bytes were written from byte desp + hecho + 1 on.
LEMMA DondeCae ==
    ASSUME NEW base \in Nat, NEW desp \in Nat, NEW hecho \in Nat, NEW n \in Nat, NEW x \in Nat,
           x = base + desp + hecho, NEW i \in Nat \ {0}
    PROVE  /\ i - desp \in hecho + 1 .. hecho + n =>
                  /\ (i - desp) - hecho \in 1 .. n /\ x + ((i - desp) - hecho) - 1 = base + i - 1
                  /\ hecho + ((i - desp) - hecho) = i - desp
           /\ i - desp \notin hecho + 1 .. hecho + n => ~(x <= base + i - 1 /\ base + i - 1 < x + n)
  OBVIOUS

\* A piece of an access changes the bytes it covers of its own segment.
LEMMA ContenidoEscribir ==
    ASSUME TypeOK, Firme, Firme', InvSticks, DatosTipo, AccesosBien, Sueltos, NEW p \in PIDS, EscribirPedazo(p)
    PROVE  \E s \in tabla_segmentos[p], n \in Nat \ {0} :
        /\ n = Head(acceso[p].faltan).tamanio /\ acceso[p].hecho + n <= acceso[p].tamanio
        /\ s.id = numero_de_segmento(acceso[p].dir) /\ s.id \in IDS
        /\ ContenidoDe(p, s.id) \in [1 .. s.limite -> VALORES]
        /\ ContenidoDe(p, s.id)' =
              [i \in 1 .. s.limite |->
                  IF i - desplazamiento(acceso[p].dir) \in acceso[p].hecho + 1 .. acceso[p].hecho + n
                  THEN acceso[p].datos[i - desplazamiento(acceso[p].dir)] ELSE ContenidoDe(p, s.id)[i]]
        /\ \A q \in PIDS, id \in IDS : ~(q = p /\ id = s.id) => ContenidoDe(q, id)' = ContenidoDe(q, id)
<1> DEFINE desp == desplazamiento(acceso[p].dir)
           hecho == acceso[p].hecho
<1>1. PICK s \in tabla_segmentos[p], n \in Nat \ {0}, x \in Nat :
                /\ n = Head(acceso[p].faltan).tamanio
                /\ x = s.base + desp + hecho
                /\ Dentro(s, acceso[p].dir, acceso[p].tamanio)
                /\ hecho + n <= acceso[p].tamanio
                /\ s.base <= x /\ x + n <= s.base + s.limite
                /\ SoloEntre(bytes, bytes', x, x + n, memoria_total_size)
                /\ \A i \in 1 .. n : bytes'[x + i - 1] = acceso[p].datos[hecho + i]
  BY PasoEscribir
<1>2. acceso[p].op = "escribir" /\ UNCHANGED <<vars, archivo>>
  BY EscribirPedazoHace
<1>3. UNCHANGED <<perdidos, tabla_segmentos, tabla_swap, archivo, memoria_total_size>>
  BY <1>2 DEF vars
<1>4. /\ acceso[p] \in Accesos /\ CursoBien(p, acceso[p]) /\ p \in lista_procesos \ perdidos
      /\ ~en_swap[p] /\ (hilo.op \in ConPid => hilo.pid # p)
  BY <1>2, EnMedioDe
<1>5. acceso[p].dir \in DIRECCIONES /\ hecho \in Nat
  BY <1>4, AccesoTipo DEF CursoBien
<1>6. desp \in Nat /\ s.id = numero_de_segmento(acceso[p].dir) /\ s.id \in IDS
  BY <1>1, <1>5, DireccionTipo DEF Dentro
<1>7. ~EnBloque(p, s.id) /\ ~EnBloque(p, s.id)'
  <2>1. \A t \in tabla_swap : t.pid # p
    BY <1>4, FirmeSinBloques DEF ConPid
  <2>2. QED
    BY <1>3, <2>1 DEF EnBloque
<1>8. EnMemoria(p, s.id)
  BY <1>7 DEF EnMemoria
<1>9. /\ s \in Segmento /\ s.base \in Nat /\ s.limite \in Nat
      /\ s.base + s.limite <= memoria_total_size /\ memoria_total_size \in Nat
  BY <1>4, <1>8, VivoEs DEF TypeOK
<1>10. \A i \in 1 .. s.limite : s.base + i - 1 \in 0 .. memoria_total_size - 1
  BY <1>9, DireccionesDelSegmento
<1>11. ContenidoDe(p, s.id) = [i \in 1 .. s.limite |-> bytes[s.base + i - 1]]
  BY <1>4, <1>6, <1>7, ContenidoCasos
<1>12. ContenidoDe(p, s.id)' = [i \in 1 .. s.limite |-> bytes'[s.base + i - 1]]
  BY <1>3, <1>4, <1>6, <1>7, ContenidoCasosPrima
<1>13. ContenidoDe(p, s.id) \in [1 .. s.limite -> VALORES]
  BY <1>10, <1>11 DEF DatosTipo
<1> DEFINE valores == acceso[p].datos
<1> HIDE DEF desp, hecho, valores
<1>14. \A i \in 1 .. n : bytes'[x + i - 1] = valores[hecho + i]
  BY <1>1 DEF valores
<1>15. ASSUME NEW i \in 1 .. s.limite
       PROVE  bytes'[s.base + i - 1] = IF i - desp \in hecho + 1 .. hecho + n
                                       THEN valores[i - desp] ELSE bytes[s.base + i - 1]
  <2>1. CASE i - desp \in hecho + 1 .. hecho + n
    <3>1. i \in Nat \ {0} /\ n \in Nat
      BY <1>9
    <3>2. /\ (i - desp) - hecho \in 1 .. n /\ x + ((i - desp) - hecho) - 1 = s.base + i - 1
          /\ hecho + ((i - desp) - hecho) = i - desp
      BY <1>1, <1>5, <1>6, <1>9, <2>1, <3>1, DondeCae
    <3> DEFINE j == (i - desp) - hecho
    <3>3. j \in 1 .. n /\ x + j - 1 = s.base + i - 1 /\ hecho + j = i - desp
      BY <3>2
    <3> HIDE DEF j
    <3>4. bytes'[x + j - 1] = valores[hecho + j]
      BY <1>14, <3>3
    <3>5. QED
      BY <2>1, <3>3, <3>4
  <2>2. CASE i - desp \notin hecho + 1 .. hecho + n
    <3>1. i \in Nat \ {0} /\ n \in Nat
      BY <1>9
    <3>2. ~(x <= s.base + i - 1 /\ s.base + i - 1 < x + n)
      BY <1>1, <1>5, <1>6, <1>9, <2>2, <3>1, DondeCae
    <3>3. QED
      BY <1>1, <1>10, <2>2, <3>2 DEF SoloEntre
  <2>3. QED
    BY <2>1, <2>2
<1>16. ContenidoDe(p, s.id)' =
              [i \in 1 .. s.limite |-> IF i - desp \in hecho + 1 .. hecho + n
                                       THEN valores[i - desp] ELSE ContenidoDe(p, s.id)[i]]
  BY <1>11, <1>12, <1>15
<1>17. SoloEntre(bytes, bytes', s.base, s.base + s.limite, memoria_total_size)
  <2>1. x + n \in Nat /\ s.base + s.limite \in Nat
    BY <1>9
  <2>2. QED
    BY <1>1, <1>9, <2>1, SoloEntreMas
<1>18. ASSUME NEW q \in PIDS, NEW id \in IDS, ~(q = p /\ id = s.id)
       PROVE  ContenidoDe(q, id)' = ContenidoDe(q, id)
  <2>1. \A b, m : leer_Bloque(b, m)' = leer_Bloque(b, m)
    BY <1>3 DEF leer_Bloque
  <2>2. ASSUME q \notin perdidos, ~EnBloque(q, id), NEW r \in tabla_segmentos[q], r.id = id
        PROVE  \A i \in 1 .. r.limite : bytes'[r.base + i - 1] = bytes[r.base + i - 1]
    <3>1. EnMemoria(q, r.id)
      BY <2>2 DEF EnMemoria
    <3>2. q # p \/ r.id # s.id
      BY <1>18, <2>2
    <3>3. QED
      BY <1>4, <1>8, <1>17, <2>2, <3>1, <3>2, VivosAparte
  <2>3. QED
    BY <1>3, <2>1, <2>2, ContenidoMismo
<1>19. QED
  BY <1>1, <1>6, <1>13, <1>16, <1>18 DEF desp, hecho, valores

-----------------------------------------------------------------------------
(* MemoriaLogica.                                                          *)

\* The state of MemoriaLogica.
contenidoLogico == [p \in PIDS |-> [id \in IDS |-> ContenidoDe(p, id)]]
accesoLogico == [p \in PIDS |-> AccesoLogico(acceso[p])]

\* How each action of MemoriaLogica is taken.
LEMMA LogicaCrear ==
    ASSUME NEW p \in PIDS, NEW id \in IDS, NEW tamanio \in TAMANIOS, NEW nuevo \in [1 .. tamanio -> VALORES],
           contenidoLogico[p][id] = <<>>,
           contenidoLogico' = [contenidoLogico EXCEPT ![p][id] = nuevo],
           accesoLogico' = accesoLogico
    PROVE  Logica!Next
<1>1. Logica!Crear(p, id, tamanio)
  BY DEF Logica!Crear, contenidoLogico, accesoLogico
<1>2. QED
  BY <1>1 DEF Logica!Next

LEMMA LogicaBorrar ==
    ASSUME NEW p \in PIDS, NEW ids \in SUBSET IDS, accesoLogico[p] = Logica!Ninguno,
           contenidoLogico' = [contenidoLogico EXCEPT ![p] =
                                  [id \in IDS |-> IF id \in ids THEN <<>> ELSE @[id]]],
           accesoLogico' = accesoLogico
    PROVE  Logica!Next
<1>1. Logica!Borrar(p)
  BY DEF Logica!Borrar, contenidoLogico, accesoLogico
<1>2. QED
  BY <1>1 DEF Logica!Next

LEMMA LogicaPedir ==
    ASSUME NEW p \in PIDS, NEW k, accesoLogico[p] = Logica!Ninguno,
           k.op \in {"leer", "copiar", "escribir", "fallo"},
           k.op # "fallo" <=>
               desplazamiento(k.dir) + k.tamanio <= Len(contenidoLogico[p][numero_de_segmento(k.dir)]),
           k.datos = <<>> \/ (k.op = "escribir" /\ Len(k.datos) = k.tamanio),
           k.hecho = 0,
           accesoLogico' = [accesoLogico EXCEPT ![p] = k],
           contenidoLogico' = contenidoLogico
    PROVE  Logica!Next
<1>1. accesoLogico'[p] = k
  BY DEF accesoLogico
<1>2. Logica!Entra(p, k.dir, k.tamanio) <=>
               desplazamiento(k.dir) + k.tamanio <= Len(contenidoLogico[p][numero_de_segmento(k.dir)])
  BY DEF Logica!Entra, Logica!Id, Logica!Desp, desplazamiento, numero_de_segmento, contenidoLogico
<1>3. Logica!Pedir(p)
  BY <1>1, <1>2 DEF Logica!Pedir, contenidoLogico, accesoLogico
<1>4. QED
  BY <1>3 DEF Logica!Next

LEMMA LogicaLeer ==
    ASSUME NEW p \in PIDS, accesoLogico[p].op \in {"leer", "copiar"},
           NEW n \in 1 .. accesoLogico[p].tamanio - Len(accesoLogico[p].datos),
           accesoLogico' = [accesoLogico EXCEPT ![p].datos = @ \o
               [i \in 1 .. n |-> contenidoLogico[p][numero_de_segmento(accesoLogico[p].dir)]
                                                [desplazamiento(accesoLogico[p].dir) + Len(@) + i]]],
           contenidoLogico' = contenidoLogico
    PROVE  Logica!Next
<1>1. Logica!Leer(p)
  BY DEF Logica!Leer, Logica!Id, Logica!Desp, desplazamiento, numero_de_segmento, contenidoLogico, accesoLogico
<1>2. QED
  BY <1>1 DEF Logica!Next

LEMMA LogicaCopiar ==
    ASSUME NEW p \in PIDS, NEW a, NEW k, a = accesoLogico[p], a.op = "copiar", Len(a.datos) = a.tamanio,
           k = IF desplazamiento(a.destino) + a.tamanio
                      <= Len(contenidoLogico[p][numero_de_segmento(a.destino)])
               THEN [a EXCEPT !.op = "escribir", !.dir = a.destino]
               ELSE [Logica!Ninguno EXCEPT !.op = "fallo", !.dir = a.destino, !.tamanio = a.tamanio],
           accesoLogico' = [accesoLogico EXCEPT ![p] = k],
           contenidoLogico' = contenidoLogico
    PROVE  Logica!Next
<1>2. Logica!Entra(p, a.destino, a.tamanio) <=>
               desplazamiento(a.destino) + a.tamanio <= Len(contenidoLogico[p][numero_de_segmento(a.destino)])
  BY DEF Logica!Entra, Logica!Id, Logica!Desp, desplazamiento, numero_de_segmento, contenidoLogico
<1>3. k = IF Logica!Entra(p, a.destino, a.tamanio)
          THEN [a EXCEPT !.op = "escribir", !.dir = a.destino]
          ELSE [Logica!Ninguno EXCEPT !.op = "fallo", !.dir = a.destino, !.tamanio = a.tamanio]
  BY <1>2
<1>4. Logica!Copiar(p)
  BY <1>3 DEF Logica!Copiar, contenidoLogico, accesoLogico
<1>5. QED
  BY <1>4 DEF Logica!Next

LEMMA LogicaEscribir ==
    ASSUME NEW p \in PIDS, accesoLogico[p].op = "escribir",
           NEW n \in 1 .. accesoLogico[p].tamanio - accesoLogico[p].hecho,
           contenidoLogico' = [contenidoLogico EXCEPT ![p][numero_de_segmento(accesoLogico[p].dir)] =
                [i \in DOMAIN @ |->
                    IF i - desplazamiento(accesoLogico[p].dir) \in accesoLogico[p].hecho + 1 .. accesoLogico[p].hecho + n
                    THEN accesoLogico[p].datos[i - desplazamiento(accesoLogico[p].dir)] ELSE @[i]]],
           accesoLogico' = [accesoLogico EXCEPT ![p].hecho = @ + n]
    PROVE  Logica!Next
<1>1. Logica!Escribir(p)
  BY DEF Logica!Escribir, Logica!Id, Logica!Desp, desplazamiento, numero_de_segmento, contenidoLogico, accesoLogico
<1>2. QED
  BY <1>1 DEF Logica!Next

LEMMA LogicaTerminar ==
    ASSUME NEW p \in PIDS, NEW a, a = accesoLogico[p],
           a.op = "leer" => Len(a.datos) = a.tamanio,
           a.op = "escribir" => a.hecho = a.tamanio,
           a.op # "copiar",
           accesoLogico' = [accesoLogico EXCEPT ![p] = Logica!Ninguno],
           contenidoLogico' = contenidoLogico
    PROVE  Logica!Next
<1>1. Logica!Terminar(p)
  BY DEF Logica!Terminar, contenidoLogico, accesoLogico
<1>2. QED
  BY <1>1 DEF Logica!Next

-----------------------------------------------------------------------------
(* The refinement, step by step.                                           *)

\* The accesses did not change.
LEMMA AccesosIguales ==
    ASSUME UNCHANGED acceso
    PROVE  accesoLogico' = accesoLogico
  BY DEF accesoLogico, AccesoLogico

\* No content changed.
LEMMA ContenidosIguales ==
    ASSUME \A p \in PIDS, id \in IDS : ContenidoDe(p, id)' = ContenidoDe(p, id)
    PROVE  contenidoLogico' = contenidoLogico
  BY DEF contenidoLogico

\* Without an access, without one there.
LEMMA NingunoLogico ==
    ASSUME NEW p \in PIDS, acceso[p] = Ninguno
    PROVE  accesoLogico[p] = Logica!Ninguno
  BY DEF accesoLogico, AccesoLogico, Ninguno, Logica!Ninguno

\* Some segments of a process that accesses nothing are gone.
LEMMA RefinaBorrar ==
    ASSUME NEW p \in PIDS, NEW ids \in SUBSET IDS, acceso[p] = Ninguno, UNCHANGED acceso,
           \A id \in ids : ContenidoDe(p, id)' = <<>>,
           \A q \in PIDS, id \in IDS : ~(q = p /\ id \in ids) => ContenidoDe(q, id)' = ContenidoDe(q, id)
    PROVE  Logica!Next
<1>1. contenidoLogico' = [contenidoLogico EXCEPT ![p] =
                                  [id \in IDS |-> IF id \in ids THEN <<>> ELSE @[id]]]
  BY DEF contenidoLogico
<1>2. QED
  BY <1>1, AccesosIguales, NingunoLogico, LogicaBorrar

\* One of them is.
LEMMA RefinaQuitar ==
    ASSUME TypeOK, Firme, Firme', NEW p \in PIDS, NEW s \in tabla_segmentos[p], acceso[p] = Ninguno,
           tabla_segmentos' = [tabla_segmentos EXCEPT ![p] = @ \ {s}],
           UNCHANGED <<perdidos, tabla_swap, bytes, archivo, acceso>>
    PROVE  Logica!Next
<1>1. /\ tabla_segmentos'[p] = tabla_segmentos[p] \ {s}
      /\ \A q \in PIDS : q # p => tabla_segmentos'[q] = tabla_segmentos[q]
      /\ s.id \in IDS
  BY DEF TypeOK, Segmento
<1>2. \A u \in tabla_segmentos'[p] : u.id # s.id
  BY <1>1 DEF Firme, TablasBien
<1>3. ContenidoDe(p, s.id)' = <<>>
  BY <1>1, <1>2, ContenidoCasosPrima
<1>4. \A b, n : leer_Bloque(b, n)' = leer_Bloque(b, n)
  BY DEF leer_Bloque
<1>5. ASSUME NEW q \in PIDS, NEW id \in IDS, ~(q = p /\ id \in {s.id})
      PROVE  ContenidoDe(q, id)' = ContenidoDe(q, id)
  <2>1. \A u : u.id = id => (u \in tabla_segmentos'[q] <=> u \in tabla_segmentos[q])
    BY <1>1, <1>5
  <2>2. QED
    BY <1>4, <2>1, ContenidoMismo
<1>6. PICK ids \in SUBSET IDS : ids = {s.id}
  BY <1>1
<1>7. \A id \in ids : ContenidoDe(p, id)' = <<>>
  BY <1>3, <1>6
<1>8. \A q \in PIDS, id \in IDS : ~(q = p /\ id \in ids) => ContenidoDe(q, id)' = ContenidoDe(q, id)
  BY <1>5, <1>6
<1>9. UNCHANGED acceso
  OBVIOUS
<1>10. QED
  BY <1>7, <1>8, <1>9, RefinaBorrar

\* The steps of Segmentacion that create or end something.
LEMMA RefinaFinEnSwap ==
    ASSUME TypeOK, Firme, Firme', NEW p \in PIDS, acceso[p] = Ninguno, FinEnSwap(p), UNCHANGED datos
    PROVE  Logica!Next
<1>1. /\ tabla_segmentos'[p] = {} /\ \A q \in PIDS : q # p => tabla_segmentos'[q] = tabla_segmentos[q]
      /\ tabla_swap' = {t \in tabla_swap : t.pid # p}
      /\ UNCHANGED <<perdidos, bytes, archivo, acceso>>
  BY DEF TypeOK, FinEnSwap, datos
<1>2. \A id \in IDS : ContenidoDe(p, id)' = <<>>
  BY <1>1, ContenidoCasosPrima
<1>3. \A b, n : leer_Bloque(b, n)' = leer_Bloque(b, n)
  BY <1>1 DEF leer_Bloque
<1>4. ASSUME NEW q \in PIDS, NEW id \in IDS, ~(q = p /\ id \in IDS)
      PROVE  ContenidoDe(q, id)' = ContenidoDe(q, id)
  BY <1>1, <1>3, <1>4, ContenidoMismo
<1>5. IDS \in SUBSET IDS
  OBVIOUS
<1>6. QED
  BY <1>1, <1>2, <1>4, <1>5, RefinaBorrar

LEMMA RefinaFallarDesuspension ==
    ASSUME TypeOK, Firme, Firme', DatosTipo, AccesosBien, FallarDesuspension, UNCHANGED datos
    PROVE  Logica!Next
<1>0. hilo.op = "desuspender" /\ hilo.pid \in PIDS
  BY HiloTipo DEF FallarDesuspension
<1>p. PICK p \in PIDS : p = hilo.pid
  BY <1>0
<1>1. /\ p \in PIDS /\ hilo.op \in ConPid
      /\ UNCHANGED <<tabla_segmentos, tabla_swap, bytes, archivo, acceso>> /\ perdidos' = perdidos \cup {p}
  BY <1>0, <1>p DEF FallarDesuspension, datos, ConPid
<1>2. acceso[p] = Ninguno
  BY <1>1, <1>p, Libres
<1>3. \A id \in IDS : ContenidoDe(p, id)' = <<>>
  BY <1>1, ContenidoCasosPrima
<1>4. \A b, n : leer_Bloque(b, n)' = leer_Bloque(b, n)
  BY <1>1 DEF leer_Bloque
<1>5. ASSUME NEW q \in PIDS, NEW id \in IDS, ~(q = p /\ id \in IDS)
      PROVE  ContenidoDe(q, id)' = ContenidoDe(q, id)
  BY <1>1, <1>4, <1>5, ContenidoMismo
<1>6. IDS \in SUBSET IDS
  OBVIOUS
<1>7. QED
  BY <1>1, <1>2, <1>3, <1>5, <1>6, RefinaBorrar

\* A new segment holds what was left in the sticks.
LEMMA RefinaCrear ==
    ASSUME TypeOK, Firme, Firme', DatosTipo, NEW p \in PIDS, NEW id \in IDS, NEW tamanio \in TAMANIOS,
           CrearSegmento(p, id, tamanio), UNCHANGED datos
    PROVE  Logica!Next
<1>1. Solicitable(p, id, tamanio) /\ tamanio \in Nat
  BY TamaniosAssumption DEF CrearSegmento
<1>2. /\ p \notin perdidos /\ ~en_swap[p] /\ hilo.op = "ocioso" /\ \A s \in tabla_segmentos[p] : s.id # id
  BY <1>1 DEF Solicitable, Atendible, Ocioso, Ids
<1>3. UNCHANGED <<perdidos, tabla_swap, memoria_total_size, bytes, archivo, acceso>>
  BY DEF CrearSegmento, datos, procesos
<1>4. PICK h \in EncontrarHueco(lista_huecos, tamanio) :
        /\ tabla_segmentos' = [tabla_segmentos EXCEPT ![p] =
                @ \cup {[id |-> id, base |-> h.base, limite |-> tamanio]}]
        /\ TomarHueco(h, tamanio)
  BY DEF CrearSegmento
<1> DEFINE s == [id |-> id, base |-> h.base, limite |-> tamanio]
<1>5. s.id = id /\ s.base = h.base /\ s.limite = tamanio
  OBVIOUS
<1>6. h \in Hueco /\ h.base + tamanio <= memoria_total_size
  BY <1>1, <1>4, FirmeTomarDentro DEF Firme
<1>7. s \in Segmento
  BY <1>1, <1>6 DEF Segmento, Hueco
<1> HIDE DEF s
<1>8. /\ tabla_segmentos'[p] = tabla_segmentos[p] \cup {s}
      /\ \A q \in PIDS : q # p => tabla_segmentos'[q] = tabla_segmentos[q]
  BY <1>4 DEF TypeOK, s
<1>9. ~EnBloque(p, id)'
  <2>1. \A t \in tabla_swap : t.pid # p
    BY <1>2, FirmeSinBloques
  <2>2. QED
    BY <1>3, <2>1 DEF EnBloque
<1>10. ContenidoDe(p, id)' = [i \in 1 .. s.limite |-> bytes'[s.base + i - 1]]
  BY <1>2, <1>3, <1>5, <1>8, <1>9, ContenidoCasosPrima
<1>11. \A i \in 1 .. s.limite : s.base + i - 1 \in 0 .. memoria_total_size - 1
  <2>1. s.base + s.limite <= memoria_total_size /\ memoria_total_size \in Nat
    BY <1>5, <1>6 DEF TypeOK
  <2>2. QED
    BY <1>7, <2>1, DireccionesDelSegmento
<1>12. ContenidoDe(p, id)' \in [1 .. tamanio -> VALORES]
  BY <1>3, <1>5, <1>10, <1>11 DEF DatosTipo
<1>13. ContenidoDe(p, id) = <<>>
  BY <1>2, ContenidoCasos
<1>14. \A b, n : leer_Bloque(b, n)' = leer_Bloque(b, n)
  BY <1>3 DEF leer_Bloque
<1>15. ASSUME NEW q \in PIDS, NEW i \in IDS, ~(q = p /\ i = id)
       PROVE  ContenidoDe(q, i)' = ContenidoDe(q, i)
  <2>1. \A u : u.id = i => (u \in tabla_segmentos'[q] <=> u \in tabla_segmentos[q])
    BY <1>5, <1>8, <1>15
  <2>2. QED
    BY <1>3, <1>14, <2>1, ContenidoMismo
<1> DEFINE nuevo == ContenidoDe(p, id)'
<1>16. contenidoLogico' = [contenidoLogico EXCEPT ![p][id] = nuevo]
  BY <1>15 DEF contenidoLogico
<1>17. contenidoLogico[p][id] = <<>>
  BY <1>13 DEF contenidoLogico
<1>18. accesoLogico' = accesoLogico
  BY <1>3, AccesosIguales
<1>19. nuevo \in [1 .. tamanio -> VALORES]
  BY <1>12
<1> HIDE DEF nuevo
<1>20. QED
  BY <1>16, <1>17, <1>18, <1>19, LogicaCrear

\* A step nobody sees.
LEMMA RefinaQuieto ==
    ASSUME UNCHANGED <<perdidos, tabla_segmentos, tabla_swap, bytes, archivo, acceso>>
    PROVE  UNCHANGED <<contenidoLogico, accesoLogico>>
<1>1. \A p \in PIDS, id \in IDS : ContenidoDe(p, id)' = ContenidoDe(p, id)
  BY ContenidoQuieto
<1>2. QED
  BY <1>1, ContenidosIguales, AccesosIguales

\* The steps that copy no byte.
LEMMA RefinaSinCopia ==
    ASSUME TypeOK, Firme, Firme', DatosTipo, AccesosBien, SinCopia, ~FallarSuspension
    PROVE  Logica!Next \/ UNCHANGED <<contenidoLogico, accesoLogico>>
<1>0. UNCHANGED datos /\ UNCHANGED <<bytes, archivo, acceso>>
  BY DEF SinCopia, datos
<1>1. ASSUME NEW p \in PIDS, acceso[p] = Ninguno, Pedidos(p) \/ IniciarFin(p)
      PROVE  Logica!Next \/ UNCHANGED <<contenidoLogico, accesoLogico>>
  <2>1. CASE IniciarSuspension(p) \/ IniciarDesuspension(p) \/ IniciarFin(p)
    <3>1. UNCHANGED <<perdidos, tabla_segmentos, tabla_swap>>
      BY <2>1 DEF IniciarSuspension, IniciarDesuspension, IniciarFin, procesos
    <3>2. QED
      BY <1>0, <3>1, RefinaQuieto
  <2>2. CASE InicializarProceso(p)
    <3>1. UNCHANGED <<perdidos, tabla_segmentos, tabla_swap>>
      BY <2>2, FirmeInicializar DEF InicializarProceso
    <3>2. QED
      BY <1>0, <3>1, RefinaQuieto
  <2>3. CASE FinEnSwap(p)
    BY <1>0, <1>1, <2>3, RefinaFinEnSwap
  <2>4. ASSUME NEW id \in IDS, EliminarSegmento(p, id)
        PROVE  Logica!Next
    <3>1. PICK s \in tabla_segmentos[p] : tabla_segmentos' = [tabla_segmentos EXCEPT ![p] = @ \ {s}]
      BY <2>4 DEF EliminarSegmento
    <3>2. UNCHANGED <<perdidos, tabla_swap>>
      BY <2>4 DEF EliminarSegmento, procesos
    <3>3. QED
      BY <1>0, <1>1, <3>1, <3>2, RefinaQuitar
  <2>5. ASSUME NEW id \in IDS, NEW tamanio \in TAMANIOS, CrearSegmento(p, id, tamanio)
        PROVE  Logica!Next
    BY <1>0, <2>5, RefinaCrear
  <2>6. ASSUME NEW id \in IDS, NEW tamanio \in TAMANIOS, PedirCompactacion(p, id, tamanio)
        PROVE  UNCHANGED <<contenidoLogico, accesoLogico>>
    <3>1. UNCHANGED <<perdidos, tabla_segmentos, tabla_swap>>
      BY <2>6 DEF PedirCompactacion, procesos
    <3>2. QED
      BY <1>0, <3>1, RefinaQuieto
  <2>7. QED
    BY <1>1, <2>1, <2>2, <2>3, <2>4, <2>5, <2>6 DEF Pedidos
<1>2. CASE \/ IniciarCompactacion \/ TerminarFin \/ LiberarFisica \/ TerminarSuspension
           \/ TerminarDesuspension \/ TerminarCompactacion
  <2>1. UNCHANGED <<perdidos, tabla_segmentos, tabla_swap>>
    BY <1>2 DEF IniciarCompactacion, TerminarFin, LiberarFisica, TerminarSuspension,
       TerminarDesuspension, TerminarCompactacion, procesos
  <2>2. QED
    BY <1>0, <2>1, RefinaQuieto
<1>3. CASE LiberarDeMuerto
  <2>1. hilo.op = "finalizar" /\ UNCHANGED <<perdidos, tabla_swap>>
    BY <1>3 DEF LiberarDeMuerto, procesos
  <2>2. hilo.pid \in PIDS /\ acceso[hilo.pid] = Ninguno
    BY <2>1, HiloTipo, Libres DEF ConPid
  <2>3. PICK s \in tabla_segmentos[hilo.pid] :
            tabla_segmentos' = [tabla_segmentos EXCEPT ![hilo.pid] = @ \ {s}]
    BY <1>3 DEF LiberarDeMuerto
  <2>4. QED
    BY <1>0, <2>1, <2>2, <2>3, RefinaQuitar
<1>4. CASE FallarDesuspension
  BY <1>0, <1>4, RefinaFallarDesuspension
<1>5. QED
  BY <1>1, <1>2, <1>3, <1>4 DEF SinCopia

\* The segments of a process that may run are in the sticks.
LEMMA EnSuLugar ==
    ASSUME TypeOK, Firme, DatosTipo, NEW p \in PIDS, p \in lista_procesos \ perdidos, ~en_swap[p],
           hilo.op \in {"suspender", "liberar"} => hilo.pid # p,
           NEW s \in tabla_segmentos[p]
    PROVE  /\ s.id \in IDS /\ s.limite \in Nat /\ s.base \in Nat
           /\ contenidoLogico[p][s.id] = [i \in 1 .. s.limite |-> bytes[s.base + i - 1]]
           /\ Len(contenidoLogico[p][s.id]) = s.limite
<1>1. ~EnBloque(p, s.id)
  BY FirmeSinBloques DEF EnBloque
<1>2. s \in Segmento
  BY DEF TypeOK
<1>3. s.id \in IDS /\ s.limite \in Nat /\ s.base \in Nat
  BY <1>2 DEF Segmento
<1>4. ContenidoDe(p, s.id) = [i \in 1 .. s.limite |-> bytes[s.base + i - 1]]
  BY <1>1, <1>3, ContenidoCasos
<1>5. contenidoLogico[p][s.id] = [i \in 1 .. s.limite |-> bytes[s.base + i - 1]]
  BY <1>3, <1>4 DEF contenidoLogico
<1> DEFINE c == contenidoLogico[p][s.id]
<1>6. c \in [1 .. s.limite -> VALORES]
  <2>1. EnMemoria(p, s.id)
    BY <1>1 DEF EnMemoria
  <2>2. s.base + s.limite <= memoria_total_size /\ memoria_total_size \in Nat
    BY <2>1, VivoEs DEF TypeOK
  <2>3. \A i \in 1 .. s.limite : s.base + i - 1 \in 0 .. memoria_total_size - 1
    BY <1>2, <2>2, DireccionesDelSegmento
  <2>4. QED
    BY <1>5, <2>3 DEF DatosTipo
<1> HIDE DEF c
<1>7. Len(c) = s.limite
  BY <1>3, <1>6, FuncionEsLista
<1>8. QED
  BY <1>3, <1>5, <1>7 DEF c

\* An access is inside a segment when it is inside its content.
LEMMA EntraSi ==
    ASSUME TypeOK, Firme, DatosTipo, NEW p \in PIDS, p \in lista_procesos \ perdidos, ~en_swap[p],
           hilo.op \in {"suspender", "liberar"} => hilo.pid # p,
           NEW dir \in DIRECCIONES, NEW tamanio \in Nat \ {0}
    PROVE  (\E s \in tabla_segmentos[p] : Dentro(s, dir, tamanio)) <=>
               desplazamiento(dir) + tamanio <= Len(contenidoLogico[p][numero_de_segmento(dir)])
<1>1. numero_de_segmento(dir) \in IDS /\ desplazamiento(dir) \in Nat
  BY DireccionTipo
<1>2. ASSUME NEW s \in tabla_segmentos[p], s.id = numero_de_segmento(dir)
      PROVE  Len(contenidoLogico[p][numero_de_segmento(dir)]) = s.limite
  BY <1>2, EnSuLugar
<1>3. ASSUME \A s \in tabla_segmentos[p] : s.id # numero_de_segmento(dir)
      PROVE  Len(contenidoLogico[p][numero_de_segmento(dir)]) = 0
  <2>1. ContenidoDe(p, numero_de_segmento(dir)) = <<>>
    BY <1>1, <1>3, ContenidoCasos
  <2>2. QED
    BY <1>1, <2>1 DEF contenidoLogico
<1>4. CASE \E s \in tabla_segmentos[p] : s.id = numero_de_segmento(dir)
  <2>1. PICK s \in tabla_segmentos[p] : s.id = numero_de_segmento(dir)
    BY <1>4
  <2>2. \A u \in tabla_segmentos[p] : u.id = numero_de_segmento(dir) => u = s
    BY <2>1 DEF Firme, TablasBien
  <2>3. QED
    BY <1>2, <2>1, <2>2 DEF Dentro
<1>5. CASE \A s \in tabla_segmentos[p] : s.id # numero_de_segmento(dir)
  <2>1. ~(desplazamiento(dir) + tamanio <= 0)
    BY <1>1
  <2>2. QED
    BY <1>3, <1>5, <2>1 DEF Dentro
<1>6. QED
  BY <1>4, <1>5

\* The access as MemoriaLogica sees it.
LEMMA CamposLogicos ==
    ASSUME NEW a, NEW k, k = AccesoLogico(a)
    PROVE  /\ k.op = a.op /\ k.dir = a.dir /\ k.destino = a.destino /\ k.tamanio = a.tamanio
           /\ k.datos = a.datos /\ k.hecho = a.hecho
           /\ k = [dir |-> a.dir, destino |-> a.destino, tamanio |-> a.tamanio, op |-> a.op,
                   datos |-> a.datos, hecho |-> a.hecho]
  BY DEF AccesoLogico

\* One access changes there too.
LEMMA AccesoLogicoCambia ==
    ASSUME NEW p \in PIDS, acceso \in [PIDS -> Accesos], NEW b, acceso' = [acceso EXCEPT ![p] = b]
    PROVE  /\ accesoLogico' = [accesoLogico EXCEPT ![p] = AccesoLogico(b)]
           /\ accesoLogico[p] = AccesoLogico(acceso[p])
<1>1. \A q \in PIDS : acceso'[q] = IF q = p THEN b ELSE acceso[q]
  OBVIOUS
<1>2. accesoLogico' = [q \in PIDS |-> AccesoLogico(acceso'[q])]
  BY DEF accesoLogico, AccesoLogico
<1>3. QED
  BY <1>1, <1>2 DEF accesoLogico

\* Only an access changed.
LEMMA BytesQuietos ==
    ASSUME UNCHANGED <<vars, bytes, archivo>>
    PROVE  contenidoLogico' = contenidoLogico
<1>1. UNCHANGED <<perdidos, tabla_segmentos, tabla_swap, bytes, archivo>>
  BY DEF vars
<1>2. QED
  BY <1>1, ContenidoQuieto, ContenidosIguales

\* The fields of a translated access.
LEMMA TraducidoCampos ==
    ASSUME TypeOK, Firme, InvSticks, NEW p \in PIDS, NEW a \in Accesos,
           a.dir \in DIRECCIONES, a.tamanio \in 1 .. UINT32 - 1,
           NEW b, b = Traducido(a, p)
    PROVE  /\ b.dir = a.dir /\ b.tamanio = a.tamanio /\ b.hecho = a.hecho
           /\ \/ /\ \E s \in tabla_segmentos[p] : Dentro(s, a.dir, a.tamanio)
                 /\ b.op = a.op /\ b.datos = a.datos /\ b.destino = a.destino
              \/ /\ \A s \in tabla_segmentos[p] : ~Dentro(s, a.dir, a.tamanio)
                 /\ b.op = "fallo" /\ b.datos = <<>> /\ b.destino = 0
<1>1. CASE \A s \in tabla_segmentos[p] : ~Dentro(s, a.dir, a.tamanio)
  <2>1. b = [a EXCEPT !.op = "fallo", !.destino = 0, !.datos = <<>>]
    BY <1>1, TraducidoDa
  <2>2. /\ b.dir = a.dir /\ b.tamanio = a.tamanio /\ b.hecho = a.hecho
        /\ b.op = "fallo" /\ b.datos = <<>> /\ b.destino = 0
    BY <2>1, CamposFallo
  <2>3. QED
    BY <1>1, <2>2
<1>2. ASSUME NEW s \in tabla_segmentos[p], Dentro(s, a.dir, a.tamanio)
      PROVE  /\ b.dir = a.dir /\ b.tamanio = a.tamanio /\ b.hecho = a.hecho
             /\ b.op = a.op /\ b.datos = a.datos /\ b.destino = a.destino
  <2>1. PICK l \in Lista : Traducido(a, p) = [a EXCEPT !.faltan = l]
    BY <1>2, TraducidoDa
  <2>2. b = [a EXCEPT !.faltan = l]
    BY <2>1
  <2>3. QED
    BY <2>2, CampoFaltan
<1>3. QED
  BY <1>1, <1>2

\* The steps of the programs.
LEMMA RefinaAcceder ==
    ASSUME TypeOK, Firme, InvSticks, DatosTipo, AccesosBien, NEW p \in PIDS,
           ejecutar_mov_in(p) \/ ejecutar_mov_out(p) \/ ejecutar_copy_mem(p)
    PROVE  Logica!Next
<1>1. PICK a : Pedido(a) /\ Acceder(p, a)
  BY PedidoHace
<1>2. /\ a \in Accesos /\ a.dir \in DIRECCIONES /\ a.tamanio \in 1 .. UINT32 - 1
      /\ a.op \in {"leer", "copiar", "escribir"} /\ a.hecho = 0
      /\ IF a.op = "escribir" THEN Len(a.datos) = a.tamanio ELSE a.datos = <<>>
  BY <1>1 DEF Pedido
<1>3. /\ acceso[p] = Ninguno /\ p \in lista_procesos \ perdidos /\ ~en_swap[p]
      /\ hilo.op \in {"suspender", "liberar"} => hilo.pid # p
  BY <1>1 DEF Acceder, PuedeAcceder
<1> DEFINE b == Traducido(a, p)
<1>4. acceso' = [acceso EXCEPT ![p] = b] /\ UNCHANGED <<vars, bytes, archivo>>
  BY <1>1 DEF Acceder
<1>5. a.tamanio \in Nat \ {0}
  BY <1>2 DEF Accesos
<1>6. (\E s \in tabla_segmentos[p] : Dentro(s, a.dir, a.tamanio)) <=>
          desplazamiento(a.dir) + a.tamanio <= Len(contenidoLogico[p][numero_de_segmento(a.dir)])
  BY <1>2, <1>3, <1>5, EntraSi
<1>7. b = Traducido(a, p)
  OBVIOUS
<1> HIDE DEF b
<1>8. /\ b.dir = a.dir /\ b.tamanio = a.tamanio /\ b.hecho = 0
      /\ \/ /\ \E s \in tabla_segmentos[p] : Dentro(s, a.dir, a.tamanio)
            /\ b.op = a.op /\ b.datos = a.datos
         \/ /\ \A s \in tabla_segmentos[p] : ~Dentro(s, a.dir, a.tamanio)
            /\ b.op = "fallo" /\ b.datos = <<>>
  BY <1>2, <1>7, TraducidoCampos
<1>9. PICK k : k = AccesoLogico(b)
  OBVIOUS
<1>10. /\ k.op = b.op /\ k.dir = b.dir /\ k.tamanio = b.tamanio /\ k.datos = b.datos /\ k.hecho = b.hecho
  BY <1>9, CamposLogicos
<1>11. accesoLogico' = [accesoLogico EXCEPT ![p] = k]
  BY <1>4, <1>9, AccesoLogicoCambia DEF DatosTipo
<1>12. accesoLogico[p] = Logica!Ninguno /\ contenidoLogico' = contenidoLogico
  BY <1>3, <1>4, NingunoLogico, BytesQuietos
<1>13. /\ k.op \in {"leer", "copiar", "escribir", "fallo"}
       /\ k.op # "fallo" <=>
               desplazamiento(k.dir) + k.tamanio <= Len(contenidoLogico[p][numero_de_segmento(k.dir)])
       /\ k.datos = <<>> \/ (k.op = "escribir" /\ Len(k.datos) = k.tamanio)
       /\ k.hecho = 0
  BY <1>2, <1>6, <1>8, <1>10
<1>14. QED
  BY <1>11, <1>12, <1>13, LogicaPedir

LEMMA RefinaLeer ==
    ASSUME TypeOK, Firme, InvSticks, DatosTipo, AccesosBien, NEW p \in PIDS, LeerPedazo(p)
    PROVE  Logica!Next
<1> DEFINE a == acceso[p]
           r == leer_pedazos(<<Head(a.faltan)>>)
<1>1. /\ a.op \in {"leer", "copiar"} /\ a.faltan # <<>>
      /\ acceso' = [acceso EXCEPT ![p] =
                [op |-> a.op, dir |-> a.dir, destino |-> a.destino, tamanio |-> a.tamanio,
                 datos |-> a.datos \o r, hecho |-> a.hecho, faltan |-> Tail(a.faltan)]]
      /\ UNCHANGED <<vars, lista_memory_sticks, bytes, archivo, copia>>
  BY LeerPedazoHace
<1>2. /\ a \in Accesos /\ CursoBien(p, a) /\ p \in lista_procesos \ perdidos /\ ~en_swap[p]
      /\ hilo.op \in {"suspender", "liberar"} => hilo.pid # p
  BY <1>1, EnMedioDe DEF ConPid
<1>3. PICK s \in tabla_segmentos[p], x \in Nat, n \in Nat \ {0} :
        /\ x = s.base + desplazamiento(a.dir) + Hechos(a)
        /\ Dentro(s, a.dir, a.tamanio)
        /\ Hechos(a) + n <= a.tamanio
        /\ x + n <= s.base + s.limite /\ s.base + s.limite <= memoria_total_size
        /\ Contiguos(lista_memory_sticks, <<Head(a.faltan)>>, x, x + n)
  BY <1>1, PiezaSiguiente
<1>4. Hechos(a) = Len(a.datos)
  BY <1>1 DEF Hechos
<1>5. /\ s.id = numero_de_segmento(a.dir) /\ desplazamiento(a.dir) \in Nat
      /\ a.tamanio \in Nat /\ Len(a.datos) \in Nat
  BY <1>2, <1>3, AccesoTipo, DireccionTipo, LenProperties DEF CursoBien, Dentro
<1>6. /\ s.limite \in Nat /\ s.base \in Nat
      /\ contenidoLogico[p][s.id] = [i \in 1 .. s.limite |-> bytes[s.base + i - 1]]
  BY <1>2, EnSuLugar
<1>7. x + n <= memoria_total_size /\ n \in Nat
  BY <1>3, <1>6 DEF TypeOK
<1>8. r \in Seq(VALORES) /\ Len(r) = n /\ \A i \in 1 .. n : r[i] = bytes[x + i - 1]
  BY <1>3, <1>7, Levantar
<1> HIDE DEF a, r
<1> DEFINE b == [op |-> a.op, dir |-> a.dir, destino |-> a.destino, tamanio |-> a.tamanio,
                 datos |-> a.datos \o r, hecho |-> a.hecho, faltan |-> Tail(a.faltan)]
           desp == desplazamiento(a.dir)
           hecho == Len(a.datos)
<1>9. \A i \in 1 .. n : r[i] = contenidoLogico[p][s.id][desp + hecho + i]
  <2> SUFFICES ASSUME NEW i \in 1 .. n
               PROVE  r[i] = contenidoLogico[p][s.id][desp + hecho + i]
    OBVIOUS
  <2>1. x = s.base + desp + hecho /\ desp \in Nat /\ hecho \in Nat /\ n \in Nat
    BY <1>3, <1>4, <1>5
  <2>a. x \in Nat /\ x + n <= s.base + s.limite /\ s.base \in Nat /\ s.limite \in Nat
    BY <1>3, <1>6
  <2> HIDE DEF desp, hecho
  <2>2. desp + hecho + i \in 1 .. s.limite /\ s.base + (desp + hecho + i) - 1 = x + i - 1
    BY <2>1, <2>a
  <2>3. contenidoLogico[p][s.id][desp + hecho + i] = bytes[s.base + (desp + hecho + i) - 1]
    BY <1>6, <2>2
  <2>4. QED
    BY <1>8, <2>2, <2>3
<1>10. r = [i \in 1 .. n |-> contenidoLogico[p][numero_de_segmento(a.dir)][desplazamiento(a.dir) + Len(a.datos) + i]]
  <2>1. r = [i \in 1 .. n |-> r[i]]
    BY <1>7, <1>8
  <2>2. \A i \in 1 .. n :
            r[i] = contenidoLogico[p][numero_de_segmento(a.dir)][desplazamiento(a.dir) + Len(a.datos) + i]
    BY <1>5, <1>9
  <2>3. QED
    BY <2>1, <2>2
<1>11. n \in 1 .. a.tamanio - Len(a.datos)
  BY <1>3, <1>4, <1>5
<1>12. PICK k : k = AccesoLogico(a)
  OBVIOUS
<1>13. k.op = a.op /\ k.dir = a.dir /\ k.tamanio = a.tamanio /\ k.datos = a.datos
       /\ k = [dir |-> a.dir, destino |-> a.destino, tamanio |-> a.tamanio, op |-> a.op,
                   datos |-> a.datos, hecho |-> a.hecho]
  BY <1>12, CamposLogicos
<1>14. acceso' = [acceso EXCEPT ![p] = b]
  BY <1>1
<1>15. AccesoLogico(b) = [k EXCEPT !.datos = k.datos \o r]
  <2>1. AccesoLogico(b) = [dir |-> a.dir, destino |-> a.destino, tamanio |-> a.tamanio, op |-> a.op,
                           datos |-> a.datos \o r, hecho |-> a.hecho]
    BY DEF AccesoLogico
  <2>2. PICK m : m = [k EXCEPT !.datos = k.datos \o r]
    OBVIOUS
  <2>3. m = [dir |-> a.dir, destino |-> a.destino, tamanio |-> a.tamanio, op |-> a.op,
                           datos |-> a.datos \o r, hecho |-> a.hecho]
    BY <1>13, <2>2
  <2>4. QED
    BY <2>1, <2>2, <2>3
<1> HIDE DEF b
<1>16. accesoLogico' = [accesoLogico EXCEPT ![p] = AccesoLogico(b)] /\ accesoLogico[p] = k
  BY <1>12, <1>14, AccesoLogicoCambia DEF DatosTipo, a
<1>17. accesoLogico' = [accesoLogico EXCEPT ![p].datos = @ \o r]
  BY <1>15, <1>16
<1>18. contenidoLogico' = contenidoLogico
  BY <1>1, BytesQuietos
<1>19. r = [i \in 1 .. n |-> contenidoLogico[p][numero_de_segmento(accesoLogico[p].dir)]
                                  [desplazamiento(accesoLogico[p].dir) + Len(accesoLogico[p].datos) + i]]
  BY <1>10, <1>13, <1>16
<1>20. n \in 1 .. accesoLogico[p].tamanio - Len(accesoLogico[p].datos) /\ accesoLogico[p].op \in {"leer", "copiar"}
  BY <1>1, <1>11, <1>13, <1>16 DEF a
<1>21. QED
  BY <1>17, <1>18, <1>19, <1>20, LogicaLeer

LEMMA RefinaTraducirDestino ==
    ASSUME TypeOK, Firme, InvSticks, DatosTipo, AccesosBien, NEW p \in PIDS, TraducirDestino(p)
    PROVE  Logica!Next
<1> DEFINE a == acceso[p]
           c == ACopiar(a)
           b == Traducido(c, p)
<1>1. /\ a.op = "copiar" /\ acceso' = [acceso EXCEPT ![p] = b] /\ UNCHANGED <<vars, bytes, archivo>>
  BY TraducirDestinoHace
<1>2. /\ a \in Accesos /\ CursoBien(p, a) /\ p \in lista_procesos \ perdidos /\ ~en_swap[p]
      /\ hilo.op \in {"suspender", "liberar"} => hilo.pid # p
  BY <1>1, EnMedioDe DEF ConPid
<1>3. /\ c \in Accesos /\ c.op = "escribir" /\ c.dir = a.destino /\ c.destino = a.destino
      /\ c.tamanio = a.tamanio /\ c.datos = a.datos /\ c.hecho = a.hecho
  BY <1>2, CamposACopiar
<1>4. Len(a.datos) = a.tamanio
  BY PasoTraducirDestino
<1>5. PICK k : k = AccesoLogico(b)
  OBVIOUS
<1>6. accesoLogico' = [accesoLogico EXCEPT ![p] = k] /\ accesoLogico[p] = AccesoLogico(a)
  BY <1>1, <1>5, AccesoLogicoCambia DEF DatosTipo
<1>7. b = Traducido(c, p)
  OBVIOUS
<1> HIDE DEF a, c, b
<1>8. a.destino \in DIRECCIONES /\ a.tamanio \in 1 .. UINT32 - 1 /\ a.hecho = 0
  BY <1>1, <1>2 DEF CursoBien
<1>9. a.tamanio \in Nat \ {0}
  BY <1>2, <1>8, AccesoTipo
<1>10. (\E s \in tabla_segmentos[p] : Dentro(s, a.destino, a.tamanio)) <=>
          desplazamiento(a.destino) + a.tamanio <= Len(contenidoLogico[p][numero_de_segmento(a.destino)])
  BY <1>2, <1>8, <1>9, EntraSi
<1>11. /\ b.dir = a.destino /\ b.tamanio = a.tamanio /\ b.hecho = 0
       /\ \/ /\ \E s \in tabla_segmentos[p] : Dentro(s, a.destino, a.tamanio)
             /\ b.op = "escribir" /\ b.datos = a.datos /\ b.destino = a.destino
          \/ /\ \A s \in tabla_segmentos[p] : ~Dentro(s, a.destino, a.tamanio)
             /\ b.op = "fallo" /\ b.datos = <<>> /\ b.destino = 0
  <2>1. c.dir \in DIRECCIONES /\ c.tamanio \in 1 .. UINT32 - 1
    BY <1>3, <1>8
  <2>2. /\ b.dir = c.dir /\ b.tamanio = c.tamanio /\ b.hecho = c.hecho
        /\ \/ /\ \E s \in tabla_segmentos[p] : Dentro(s, c.dir, c.tamanio)
              /\ b.op = c.op /\ b.datos = c.datos /\ b.destino = c.destino
           \/ /\ \A s \in tabla_segmentos[p] : ~Dentro(s, c.dir, c.tamanio)
              /\ b.op = "fallo" /\ b.datos = <<>> /\ b.destino = 0
    BY <1>3, <1>7, <2>1, TraducidoCampos
  <2>3. QED
    BY <1>3, <1>8, <2>2
<1>12. PICK l : l = AccesoLogico(a)
  OBVIOUS
<1>13. /\ l.op = "copiar" /\ l.destino = a.destino /\ l.tamanio = a.tamanio /\ l.datos = a.datos
       /\ l = [dir |-> a.dir, destino |-> a.destino, tamanio |-> a.tamanio, op |-> a.op,
                   datos |-> a.datos, hecho |-> a.hecho]
  BY <1>1, <1>12, CamposLogicos
<1>14. k = [dir |-> b.dir, destino |-> b.destino, tamanio |-> b.tamanio, op |-> b.op,
                   datos |-> b.datos, hecho |-> b.hecho]
  BY <1>5, CamposLogicos
<1>15. k = IF desplazamiento(l.destino) + l.tamanio
                      <= Len(contenidoLogico[p][numero_de_segmento(l.destino)])
           THEN [l EXCEPT !.op = "escribir", !.dir = l.destino]
           ELSE [Logica!Ninguno EXCEPT !.op = "fallo", !.dir = l.destino, !.tamanio = l.tamanio]
  <2>1. PICK m : m = [l EXCEPT !.op = "escribir", !.dir = l.destino]
    OBVIOUS
  <2>2. m = [dir |-> a.destino, destino |-> a.destino, tamanio |-> a.tamanio, op |-> "escribir",
                   datos |-> a.datos, hecho |-> a.hecho]
    BY <1>13, <2>1
  <2>3. PICK g : g = [Logica!Ninguno EXCEPT !.op = "fallo", !.dir = l.destino, !.tamanio = l.tamanio]
    OBVIOUS
  <2>4. g = [dir |-> a.destino, destino |-> 0, tamanio |-> a.tamanio, op |-> "fallo",
                   datos |-> <<>>, hecho |-> 0]
    BY <1>13, <2>3 DEF Logica!Ninguno
  <2>5. CASE \E s \in tabla_segmentos[p] : Dentro(s, a.destino, a.tamanio)
    <3>1. k = m
      BY <1>8, <1>11, <1>14, <2>2, <2>5
    <3>2. QED
      BY <1>10, <1>13, <2>1, <2>5, <3>1
  <2>6. CASE \A s \in tabla_segmentos[p] : ~Dentro(s, a.destino, a.tamanio)
    <3>1. k = g
      BY <1>11, <1>14, <2>4, <2>6
    <3>2. QED
      BY <1>10, <1>13, <2>3, <2>6, <3>1
  <2>7. QED
    BY <2>5, <2>6
<1>16. l = accesoLogico[p] /\ Len(l.datos) = l.tamanio
  BY <1>4, <1>6, <1>12, <1>13
<1>17. contenidoLogico' = contenidoLogico
  BY <1>1, BytesQuietos
<1>18. QED
  BY <1>6, <1>13, <1>15, <1>16, <1>17, LogicaCopiar

LEMMA RefinaEscribir ==
    ASSUME TypeOK, Firme, Firme', InvSticks, DatosTipo, AccesosBien, Sueltos, NEW p \in PIDS, EscribirPedazo(p)
    PROVE  Logica!Next
<1> DEFINE a == acceso[p]
<1>1. PICK s \in tabla_segmentos[p], n \in Nat \ {0} :
        /\ n = Head(a.faltan).tamanio /\ a.hecho + n <= a.tamanio
        /\ s.id = numero_de_segmento(a.dir) /\ s.id \in IDS
        /\ ContenidoDe(p, s.id) \in [1 .. s.limite -> VALORES]
        /\ ContenidoDe(p, s.id)' =
              [i \in 1 .. s.limite |->
                  IF i - desplazamiento(a.dir) \in a.hecho + 1 .. a.hecho + n
                  THEN a.datos[i - desplazamiento(a.dir)] ELSE ContenidoDe(p, s.id)[i]]
        /\ \A q \in PIDS, id \in IDS : ~(q = p /\ id = s.id) => ContenidoDe(q, id)' = ContenidoDe(q, id)
  BY ContenidoEscribir
<1>2. /\ a.op = "escribir"
      /\ acceso' = [acceso EXCEPT ![p] =
                [op |-> a.op, dir |-> a.dir, destino |-> a.destino,
                 tamanio |-> a.tamanio, datos |-> a.datos,
                 hecho |-> a.hecho + Head(a.faltan).tamanio,
                 faltan |-> Tail(a.faltan)]]
  BY EscribirPedazoHace
<1>3. a \in Accesos
  BY DEF DatosTipo
<1>4. a.hecho \in Nat /\ a.tamanio \in Nat
  BY <1>3, AccesoTipo
<1> HIDE DEF a
<1> DEFINE b == [op |-> a.op, dir |-> a.dir, destino |-> a.destino, tamanio |-> a.tamanio, datos |-> a.datos,
                 hecho |-> a.hecho + n, faltan |-> Tail(a.faltan)]
<1>5. acceso' = [acceso EXCEPT ![p] = b]
  BY <1>1, <1>2
<1>6. PICK l : l = AccesoLogico(a)
  OBVIOUS
<1>7. /\ l.op = "escribir" /\ l.dir = a.dir /\ l.tamanio = a.tamanio /\ l.datos = a.datos /\ l.hecho = a.hecho
      /\ l = [dir |-> a.dir, destino |-> a.destino, tamanio |-> a.tamanio, op |-> a.op,
                   datos |-> a.datos, hecho |-> a.hecho]
  BY <1>2, <1>6, CamposLogicos
<1>8. AccesoLogico(b) = [l EXCEPT !.hecho = l.hecho + n]
  <2>1. AccesoLogico(b) = [dir |-> a.dir, destino |-> a.destino, tamanio |-> a.tamanio, op |-> a.op,
                           datos |-> a.datos, hecho |-> a.hecho + n]
    BY DEF AccesoLogico
  <2>2. PICK m : m = [l EXCEPT !.hecho = l.hecho + n]
    OBVIOUS
  <2>3. m = [dir |-> a.dir, destino |-> a.destino, tamanio |-> a.tamanio, op |-> a.op,
                           datos |-> a.datos, hecho |-> a.hecho + n]
    BY <1>7, <2>2
  <2>4. QED
    BY <2>1, <2>2, <2>3
<1> HIDE DEF b
<1>9. accesoLogico' = [accesoLogico EXCEPT ![p] = AccesoLogico(b)] /\ accesoLogico[p] = l
  BY <1>5, <1>6, AccesoLogicoCambia DEF DatosTipo, a
<1>10. accesoLogico' = [accesoLogico EXCEPT ![p].hecho = @ + n]
  BY <1>8, <1>9
<1>11. contenidoLogico' = [contenidoLogico EXCEPT ![p][numero_de_segmento(l.dir)] =
                [i \in DOMAIN @ |->
                    IF i - desplazamiento(l.dir) \in l.hecho + 1 .. l.hecho + n
                    THEN l.datos[i - desplazamiento(l.dir)] ELSE @[i]]]
  <2>1. PICK id \in IDS : id = s.id /\ id = numero_de_segmento(l.dir)
    BY <1>1, <1>7
  <2>2. PICK v : v = ContenidoDe(p, id)
    OBVIOUS
  <2>3. PICK w : w = [i \in DOMAIN v |->
                    IF i - desplazamiento(l.dir) \in l.hecho + 1 .. l.hecho + n
                    THEN l.datos[i - desplazamiento(l.dir)] ELSE v[i]]
    OBVIOUS
  <2>4. DOMAIN v = 1 .. s.limite
    BY <1>1, <2>1, <2>2
  <2>5. ContenidoDe(p, id)' = w
    BY <1>1, <1>7, <2>1, <2>2, <2>3, <2>4
  <2>6. contenidoLogico[p][id] = v
    BY <2>2 DEF contenidoLogico
  <2>7. contenidoLogico' = [contenidoLogico EXCEPT ![p][id] = w]
    <3>1. \A q \in PIDS, j \in IDS : ContenidoDe(q, j)' = IF q = p /\ j = id THEN w ELSE ContenidoDe(q, j)
      BY <1>1, <2>1, <2>5
    <3>2. contenidoLogico' = [q \in PIDS |-> [j \in IDS |-> ContenidoDe(q, j)']]
      BY DEF contenidoLogico
    <3>3. QED
      BY <3>1, <3>2 DEF contenidoLogico
  <2>8. QED
    BY <2>1, <2>3, <2>6, <2>7
<1>12. n \in 1 .. accesoLogico[p].tamanio - accesoLogico[p].hecho /\ accesoLogico[p].op = "escribir"
  BY <1>1, <1>4, <1>7, <1>9
<1>13. contenidoLogico' = [contenidoLogico EXCEPT ![p][numero_de_segmento(accesoLogico[p].dir)] =
                [i \in DOMAIN @ |->
                    IF i - desplazamiento(accesoLogico[p].dir) \in accesoLogico[p].hecho + 1 .. accesoLogico[p].hecho + n
                    THEN accesoLogico[p].datos[i - desplazamiento(accesoLogico[p].dir)] ELSE @[i]]]
  BY <1>9, <1>11
<1>14. QED
  BY <1>10, <1>12, <1>13, LogicaEscribir

\* With no piece left, everything is done.
LEMMA NadaFalta ==
    ASSUME TypeOK, Firme, DatosTipo, AccesosBien, NEW p \in PIDS,
           acceso[p].op \in {"leer", "copiar", "escribir"}, acceso[p].faltan = <<>>
    PROVE  Hechos(acceso[p]) = acceso[p].tamanio
<1> DEFINE a == acceso[p]
<1>1. a \in Accesos /\ CursoBien(p, a)
  BY EnMedioDe
<1>a. a.faltan = <<>>
  OBVIOUS
<1> HIDE DEF a
<1>2. PICK s \in tabla_segmentos[p] :
            Contiguos(lista_memory_sticks, a.faltan, s.base + desplazamiento(a.dir) + Hechos(a),
                         s.base + desplazamiento(a.dir) + a.tamanio)
  BY <1>1 DEF CursoBien
<1> DEFINE x == s.base + desplazamiento(a.dir)
<1>3. x \in Nat /\ a.tamanio \in Nat /\ Hechos(a) \in Nat
  BY <1>1, DentroTipo, HechosTipo DEF CursoBien
<1>4. Contiguos(lista_memory_sticks, a.faltan, x + Hechos(a), x + a.tamanio)
  BY <1>2
<1> HIDE DEF x
<1> DEFINE y == x + Hechos(a)
           z == x + a.tamanio
<1>5. y \in Nat /\ z \in Nat /\ Contiguos(lista_memory_sticks, a.faltan, y, z)
  BY <1>3, <1>4
<1> HIDE DEF y, z
<1>6. y = z
  BY <1>a, <1>5, ContiguosTipo
<1>7. x + Hechos(a) = x + a.tamanio
  BY <1>6 DEF y, z
<1>8. Hechos(a) = a.tamanio
  BY <1>3, <1>7
<1>9. QED
  BY <1>8 DEF a

\* An access that ended is none.
LEMMA NingunoEs == AccesoLogico(Ninguno) = Logica!Ninguno
  BY DEF AccesoLogico, Ninguno, Logica!Ninguno

LEMMA RefinaTerminar ==
    ASSUME TypeOK, Firme, DatosTipo, AccesosBien, NEW p \in PIDS, TerminarAcceso(p)
    PROVE  Logica!Next
<1>1. /\ acceso[p].op \in {"leer", "escribir"} /\ acceso[p].faltan = <<>>
      /\ acceso' = [acceso EXCEPT ![p] = Ninguno] /\ UNCHANGED <<vars, bytes, archivo>>
  BY DEF TerminarAcceso
<1>2. Hechos(acceso[p]) = acceso[p].tamanio
  BY <1>1, NadaFalta
<1>3. accesoLogico' = [accesoLogico EXCEPT ![p] = Logica!Ninguno] /\ accesoLogico[p] = AccesoLogico(acceso[p])
  BY <1>1, NingunoEs, AccesoLogicoCambia DEF DatosTipo
<1>4. PICK k : k = AccesoLogico(acceso[p])
  OBVIOUS
<1>5. k.op = acceso[p].op /\ k.tamanio = acceso[p].tamanio /\ k.datos = acceso[p].datos /\ k.hecho = acceso[p].hecho
  BY <1>4, CamposLogicos
<1>6. k.op = "leer" => Len(k.datos) = k.tamanio
  BY <1>2, <1>5 DEF Hechos
<1>7. k.op = "escribir" => k.hecho = k.tamanio
  BY <1>2, <1>5 DEF Hechos
<1>8. k.op # "copiar" /\ k = accesoLogico[p]
  BY <1>1, <1>3, <1>4, <1>5
<1>9. contenidoLogico' = contenidoLogico
  BY <1>1, BytesQuietos
<1>10. QED
  BY <1>3, <1>6, <1>7, <1>8, <1>9, LogicaTerminar

LEMMA RefinaFinPorFallo ==
    ASSUME TypeOK, DatosTipo, NEW p \in PIDS, FinPorFallo(p)
    PROVE  Logica!Next
<1>1. /\ acceso[p].op = "fallo" /\ IniciarFin(p)
      /\ acceso' = [acceso EXCEPT ![p] = Ninguno] /\ UNCHANGED <<bytes, archivo>>
  BY DEF FinPorFallo
<1>2. UNCHANGED <<perdidos, tabla_segmentos, tabla_swap>>
  BY <1>1 DEF IniciarFin
<1>3. accesoLogico' = [accesoLogico EXCEPT ![p] = Logica!Ninguno] /\ accesoLogico[p] = AccesoLogico(acceso[p])
  BY <1>1, NingunoEs, AccesoLogicoCambia DEF DatosTipo
<1>4. PICK k : k = AccesoLogico(acceso[p])
  OBVIOUS
<1>5. k.op = "fallo" /\ k = accesoLogico[p]
  BY <1>1, <1>3, <1>4, CamposLogicos
<1>6. contenidoLogico' = contenidoLogico
  BY <1>1, <1>2, ContenidoQuieto, ContenidosIguales
<1>7. QED
  BY <1>3, <1>5, <1>6, LogicaTerminar

\* The copies of a segment, and a stick more, change nothing of what the processes see.
LEMMA RefinaCopias ==
    ASSUME TypeOK, TypeOK', InvFirme, InvFirme', InvSticks, DatosTipo, CopiaBien, LugarBien, LugarBien',
           Guardar \/ Traer \/ Restaurar \/ Mover \/ \E tamanio \in STICKS : Conectar(tamanio)
    PROVE  /\ \A p \in PIDS, id \in IDS : ContenidoDe(p, id)' = ContenidoDe(p, id)
           /\ UNCHANGED acceso
<1>1. Firme /\ Firme' /\ Sueltos
  BY DEF InvFirme, LugarBien
<1>2. CASE Guardar
  <2>1. UNCHANGED acceso
    BY <1>2 DEF Guardar
  <2>2. QED
    BY <1>1, <1>2, <2>1, ContenidoGuardar
<1>3. CASE Traer
  <2>1. UNCHANGED acceso
    BY <1>3 DEF Traer
  <2>2. QED
    BY <1>1, <1>3, <2>1, ContenidoTraer
<1>4. CASE Restaurar
  <2>1. UNCHANGED acceso
    BY <1>4 DEF Restaurar
  <2>2. QED
    BY <1>1, <1>4, <2>1, ContenidoRestaurar
<1>5. CASE Mover
  <2>1. UNCHANGED acceso
    BY <1>5 DEF Mover
  <2>2. QED
    BY <1>1, <1>5, <2>1, ContenidoMover
<1>6. ASSUME NEW tamanio \in STICKS, Conectar(tamanio)
      PROVE  /\ \A p \in PIDS, id \in IDS : ContenidoDe(p, id)' = ContenidoDe(p, id)
             /\ UNCHANGED acceso
  <2>1. UNCHANGED acceso
    BY <1>6 DEF Conectar
  <2>2. QED
    BY <1>1, <1>6, <2>1, ContenidoConectar
<1>7. QED
  BY <1>2, <1>3, <1>4, <1>5, <1>6

\* All of them.
LEMMA RefinaPrograma ==
    ASSUME TypeOK, Firme, Firme', InvSticks, DatosTipo, AccesosBien, Sueltos, NEW p \in PIDS, Programa(p)
    PROVE  Logica!Next
<1>1. CASE ejecutar_mov_in(p) \/ ejecutar_mov_out(p) \/ ejecutar_copy_mem(p)
  BY <1>1, RefinaAcceder
<1>2. CASE LeerPedazo(p)
  BY <1>2, RefinaLeer
<1>3. CASE TraducirDestino(p)
  BY <1>3, RefinaTraducirDestino
<1>4. CASE EscribirPedazo(p)
  BY <1>4, RefinaEscribir
<1>5. CASE TerminarAcceso(p)
  BY <1>5, RefinaTerminar
<1>6. CASE FinPorFallo(p)
  BY <1>6, RefinaFinPorFallo
<1>7. QED
  BY <1>1, <1>2, <1>3, <1>4, <1>5, <1>6 DEF Programa

\* Every step is a step of MemoriaLogica, or changes nothing of what it speaks of.
LEMMA RefinaPaso ==
    ASSUME TypeOK, TypeOK', InvFirme, InvFirme', InvSticks, InvDatos, LugarBien, LugarBien',
           [NextDatos]_varsDatos, [~FallarSuspension]_vars
    PROVE  [Logica!Next]_<<contenidoLogico, accesoLogico>>
<1>1. Firme /\ Firme' /\ Sueltos /\ DatosTipo /\ CopiaBien /\ AccesosBien
  BY DEF InvFirme, LugarBien, InvDatos
<1>2. CASE UNCHANGED varsDatos
  <2>1. UNCHANGED <<perdidos, tabla_segmentos, tabla_swap, bytes, archivo, acceso>>
    BY <1>2 DEF varsDatos, vars, datos
  <2>2. QED
    BY <2>1, RefinaQuieto
<1>3. CASE SinCopia
  <2>1. CASE FallarSuspension
    <3>1. UNCHANGED vars
      BY <2>1
    <3>2. UNCHANGED datos
      BY <1>3 DEF SinCopia
    <3>3. QED
      BY <1>2, <3>1, <3>2 DEF varsDatos
  <2>2. CASE ~FallarSuspension
    BY <1>1, <1>3, <2>2, RefinaSinCopia
  <2>3. QED
    BY <2>1, <2>2
<1>4. CASE Guardar \/ Traer \/ Restaurar \/ Mover \/ \E tamanio \in STICKS : Conectar(tamanio)
  BY <1>1, <1>4, RefinaCopias, ContenidosIguales, AccesosIguales
<1>5. ASSUME NEW p \in PIDS, Programa(p) PROVE Logica!Next
  BY <1>1, <1>5, RefinaPrograma
<1>6. QED
  BY <1>2, <1>3, <1>4, <1>5 DEF NextDatos

\* The start.
LEMMA RefinaInicial == InitDatos => Logica!Init
<1> SUFFICES ASSUME InitDatos PROVE Logica!Init
  OBVIOUS
<1>1. tabla_segmentos = [p \in PIDS |-> {}] /\ acceso = [p \in PIDS |-> Ninguno]
  BY DEF InitDatos, Init
<1>2. ASSUME NEW p \in PIDS, NEW id \in IDS PROVE ContenidoDe(p, id) = <<>>
  <2>1. \A s \in tabla_segmentos[p] : s.id # id
    BY <1>1
  <2>2. QED
    BY <2>1, ContenidoAhora, EnVacio
<1>3. contenidoLogico = [p \in PIDS |-> [id \in IDS |-> <<>>]]
  BY <1>2 DEF contenidoLogico
<1>4. accesoLogico = [p \in PIDS |-> Logica!Ninguno]
  BY <1>1, NingunoEs DEF accesoLogico
<1>5. QED
  BY <1>3, <1>4 DEF Logica!Init, contenidoLogico, accesoLogico

\* The invariants of Segmentacion and of the sticks, in Datos.
LEMMA LugarDatos == SpecDatos /\ [][~FallarSuspension]_vars => []LugarBien
  BY DatosEsSegmentacion, ProteccionVivos, PTL

LEMMA SticksSiempre == SpecDatos => []InvSticks
  BY SticksInicial, SticksPaso, PTL DEF SpecDatos

\* As long as no suspension fails, what the programs do with their memory is what MemoriaLogica
\* promises: each reads what it wrote last, whatever is created, released, taken to swap and
\* back, compacted or connected around it, for any sticks, blocks and sizes, with resumptions
\* that may fail; legal accesses are carried out and the others refused (swap_gestor.c,
\* compactacion.c, mmu.c, memo_stick.c, instrucciones.c).
THEOREM MemoriaTransparente == SpecDatos /\ [][~FallarSuspension]_vars => ImplementaLogica
<1>1. /\ TypeOK /\ TypeOK' /\ InvFirme /\ InvFirme' /\ InvSticks /\ InvDatos /\ LugarBien /\ LugarBien'
      /\ [NextDatos]_varsDatos /\ [~FallarSuspension]_vars
      => [Logica!Next]_<<[p \in PIDS |-> [id \in IDS |-> ContenidoDe(p, id)]],
                         [p \in PIDS |-> AccesoLogico(acceso[p])]>>
  BY RefinaPaso DEF contenidoLogico, accesoLogico
<1>2. QED
  BY <1>1, RefinaInicial, DatosEsSegmentacion, TipoCorrecto, RegistroCorrecto, SticksSiempre,
     DatosCorrectos, LugarDatos, PTL DEF SpecDatos, ImplementaLogica, Logica!Spec

\* While a compaction goes on, the other steps move no byte and no record.
LEMMA CompactarPaso ==
    ASSUME TypeOK, TypeOK', InvFirme, InvFirme', InvSticks, InvDatos, LugarBien, LugarBien',
           [NextDatos]_varsDatos, hilo.op = "compactar"
    PROVE  \A p \in PIDS, id \in IDS : ContenidoDe(p, id)' = ContenidoDe(p, id)
<1>1. Firme /\ DatosTipo /\ CopiaBien /\ AccesosBien /\ hilo # Ocioso
  BY DEF InvFirme, InvDatos, Ocioso
<1>2. ASSUME NEW p \in PIDS, Pedidos(p) \/ IniciarFin(p) PROVE FALSE
  BY <1>1, <1>2 DEF Pedidos, InicializarProceso, FinEnSwap, IniciarSuspension, IniciarDesuspension,
     EliminarSegmento, CrearSegmento, PedirCompactacion, Solicitable, IniciarFin, Atendible
<1>3. CASE SinCopia
  <2>1. TerminarCompactacion /\ UNCHANGED datos
    BY <1>2, <1>3 DEF SinCopia, IniciarCompactacion, LiberarDeMuerto, TerminarFin, LiberarFisica,
       TerminarSuspension, FallarSuspension, TerminarDesuspension, FallarDesuspension
  <2>2. UNCHANGED <<perdidos, tabla_segmentos, tabla_swap, bytes, archivo>>
    BY <2>1 DEF TerminarCompactacion, procesos, datos
  <2>3. QED
    BY <2>2, ContenidoQuieto
<1>4. CASE Guardar \/ Traer \/ Restaurar \/ Mover \/ \E tamanio \in STICKS : Conectar(tamanio)
  BY <1>1, <1>4, RefinaCopias
<1>5. ASSUME NEW p \in PIDS, Programa(p)
      PROVE  UNCHANGED <<vars, bytes, archivo>>
  <2>1. acceso[p].op \notin {"leer", "copiar", "escribir"}
    BY <1>1, EnMedioDe
  <2>2. ~FinPorFallo(p)
    BY <1>2 DEF FinPorFallo
  <2>3. ~EscribirPedazo(p)
    BY <2>1 DEF EscribirPedazo
  <2>4. ejecutar_mov_in(p) \/ ejecutar_mov_out(p) \/ ejecutar_copy_mem(p) => UNCHANGED <<vars, bytes, archivo>>
    BY PedidoHace DEF Acceder
  <2>5. LeerPedazo(p) \/ TraducirDestino(p) \/ TerminarAcceso(p) => UNCHANGED <<vars, bytes, archivo>>
    BY DEF LeerPedazo, TraducirDestino, TerminarAcceso
  <2>6. QED
    BY <1>5, <2>2, <2>3, <2>4, <2>5 DEF Programa
<1>6. CASE UNCHANGED <<vars, bytes, archivo>>
  <2>1. UNCHANGED <<perdidos, tabla_segmentos, tabla_swap, bytes, archivo>>
    BY <1>6 DEF vars
  <2>2. QED
    BY <2>1, ContenidoQuieto
<1>7. CASE UNCHANGED varsDatos
  BY <1>6, <1>7 DEF varsDatos, datos
<1>8. QED
  BY <1>3, <1>4, <1>5, <1>6, <1>7 DEF NextDatos

\* As long as no suspension fails, a compaction changes where the bytes are and not what they
\* are (compactacion.c).  Without that hypothesis it is false, see CompactarConserva.
THEOREM CompactacionFiel == SpecDatos /\ [][~FallarSuspension]_vars => CompactarConserva
<1>1. /\ TypeOK /\ TypeOK' /\ InvFirme /\ InvFirme' /\ InvSticks /\ InvDatos /\ LugarBien /\ LugarBien'
      /\ [NextDatos]_varsDatos
      => [hilo.op = "compactar" =>
            \A p \in PIDS, id \in IDS : ContenidoDe(p, id)' = ContenidoDe(p, id)]_varsDatos
  BY CompactarPaso
<1>2. QED
  BY <1>1, DatosEsSegmentacion, TipoCorrecto, RegistroCorrecto, SticksSiempre,
     DatosCorrectos, LugarDatos, PTL DEF SpecDatos, CompactarConserva

\* With such a swap, MemoriaLogica is implemented without further hypothesis.
THEOREM MemoriaTransparenteSiAlcanza == ASSUME SwapAlcanza PROVE SpecDatos => ImplementaLogica
  BY NingunaFalla, DatosEsSegmentacion, MemoriaTransparente, PTL
=============================================================================
