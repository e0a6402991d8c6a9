------------------------- MODULE DireccionesProofs -------------------------
(***************************************************************************)
(* Lemmas about ranges of addresses.                                       *)
(*                                                                         *)
(* Holes: what Achicar and InsertarYFusionar do to their types, to         *)
(* Fusionados and to the addresses they cover, and how many these are.     *)
(*                                                                         *)
(* Sticks: one after the other from address zero (SticksBien); a range cut *)
(* where each stick ends (Cortes), which is what the loop of mmu.c gives;  *)
(* and the addresses of such pieces laid end to end (Contiguos).           *)
(***************************************************************************)
EXTENDS Huecos, ListasProofs

-----------------------------------------------------------------------------
(* The types of holes.                                                     *)

\* Taking the first bytes of a hole leaves a list of holes.
LEMMA AchicarTipo ==
    ASSUME NEW hs \in SUBSET Hueco, NEW tamanio \in Nat, NEW h \in Caben(hs, tamanio)
    PROVE  Achicar(hs, h, tamanio) \in SUBSET Hueco
<1>1. h \in Hueco /\ h.limite - tamanio \in Nat /\ h.base + tamanio \in Nat
  BY DEF Caben, Hueco
<1>2. [base |-> h.base + tamanio, limite |-> h.limite - tamanio] \in Hueco
  BY <1>1 DEF Hueco
<1>3. QED
  BY <1>2 DEF Achicar

\* Releasing a range leaves a list of holes.
LEMMA InsertarTipo ==
    ASSUME NEW hs \in SUBSET Hueco, NEW n \in Hueco
    PROVE  InsertarYFusionar(hs, n) \in SUBSET Hueco
<1> DEFINE sig == Siguiente(hs, n)
           ant == Anterior(hs, n)
           desde == IF ant = {} THEN n.base ELSE (CHOOSE h \in ant : TRUE).base
           hasta == IF sig = {} THEN Fin(n) ELSE Fin(CHOOSE h \in sig : TRUE)
<1>1. desde \in Nat /\ desde <= n.base
  <2>1. CASE ant = {}
    BY <2>1 DEF Hueco
  <2>2. CASE ant # {}
    <3>1. (CHOOSE h \in ant : TRUE) \in ant
      BY <2>2
    <3>2. \A h \in ant : h \in Hueco /\ h.base <= n.base
      BY DEF Anterior
    <3>3. QED
      BY <2>2, <3>1, <3>2 DEF Hueco
  <2>3. QED
    BY <2>1, <2>2
<1>2. hasta \in Nat /\ hasta >= Fin(n)
  <2>1. CASE sig = {}
    BY <2>1 DEF Hueco, Fin
  <2>2. CASE sig # {}
    <3>1. (CHOOSE h \in sig : TRUE) \in sig
      BY <2>2
    <3>2. \A h \in sig : h \in Hueco /\ Fin(n) = h.base
      BY DEF Siguiente
    <3>3. QED
      BY <2>2, <3>1, <3>2 DEF Hueco, Fin
  <2>3. QED
    BY <2>1, <2>2
<1>3. [base |-> desde, limite |-> hasta - desde] \in Hueco
  <2>1. n.base \in Nat /\ n.limite \in Nat /\ hasta - desde \in Nat
    BY <1>1, <1>2 DEF Hueco, Fin
  <2>2. QED
    BY <1>1, <2>1 DEF Hueco
<1>4. QED
  BY <1>3 DEF InsertarYFusionar

-----------------------------------------------------------------------------
(* The addresses holes cover.                                              *)

\* Two pieces with bytes are apart when no address is in both.
LEMMA ApartePorBytes ==
    ASSUME NEW x, NEW y, x.base \in Nat, x.limite \in Nat, y.base \in Nat, y.limite \in Nat,
           x.limite > 0, y.limite > 0
    PROVE  Disjuntos(x, y) <=> \A dir \in Nat : ~(Contiene(x, dir) /\ Contiene(y, dir))
<1>1. ASSUME Disjuntos(x, y), NEW dir \in Nat, Contiene(x, dir), Contiene(y, dir)
      PROVE  FALSE
  BY <1>1 DEF Disjuntos, Contiene, Fin
<1>2. ASSUME \A dir \in Nat : ~(Contiene(x, dir) /\ Contiene(y, dir))
      PROVE  Disjuntos(x, y)
  <2>1. ~(Contiene(x, x.base) /\ Contiene(y, x.base)) /\ ~(Contiene(x, y.base) /\ Contiene(y, y.base))
    BY <1>2
  <2>2. QED
    BY <2>1 DEF Disjuntos, Contiene, Fin
<1>3. QED
  BY <1>1, <1>2

-----------------------------------------------------------------------------
(* Cutting a hole.                                                         *)

\* Handing out the first bytes of a hole keeps the holes separate.
LEMMA AchicarFusionados ==
    ASSUME NEW hs \in SUBSET Hueco, NEW total \in Nat, Fusionados(hs, total),
           NEW tamanio \in Nat, NEW h \in Caben(hs, tamanio)
    PROVE  Fusionados(Achicar(hs, h, tamanio), total)
<1> DEFINE r == [base |-> h.base + tamanio, limite |-> h.limite - tamanio]
           hs2 == Achicar(hs, h, tamanio)
<1> USE DEF Fin
<1>1. /\ h \in hs /\ h.limite >= tamanio /\ h.base \in Nat /\ h.limite \in Nat
      /\ r.base = h.base + tamanio /\ r.limite = h.limite - tamanio
  BY DEF Caben, Hueco
<1>2. \A g \in hs : g.base \in Nat /\ g.limite \in Nat
  BY DEF Hueco
<1>3. /\ \A g \in hs : g.limite > 0 /\ g.base + g.limite <= total
      /\ \A g, k \in hs : g # k => g.base + g.limite < k.base \/ k.base + k.limite < g.base
  BY DEF Fusionados
<1>4. \A g \in hs2 : (g \in hs /\ g # h) \/ (g = r /\ r.limite # 0)
  BY DEF Achicar
<1>5. Fusionados(hs2, total)
  <2>1. \A g \in hs2 : g.limite > 0 /\ Fin(g) <= total
    BY <1>1, <1>2, <1>4, <1>3
  <2>2. \A g, k \in hs2 : g # k => Fin(g) < k.base \/ Fin(k) < g.base
    <3>1. SUFFICES ASSUME NEW g \in hs2, NEW k \in hs2, g # k
                   PROVE  Fin(g) < k.base \/ Fin(k) < g.base
      OBVIOUS
    <3>2. CASE g = r
      <4>1. k \in hs /\ k # h
        BY <1>4, <3>1, <3>2
      <4>2. h.base + h.limite < k.base \/ k.base + k.limite < h.base
        BY <1>1, <1>3, <4>1
      <4>3. QED
        BY <1>1, <1>2, <3>2, <4>1, <4>2
    <3>3. CASE k = r
      <4>1. g \in hs /\ g # h
        BY <1>4, <3>1, <3>3
      <4>2. h.base + h.limite < g.base \/ g.base + g.limite < h.base
        BY <1>1, <1>3, <4>1
      <4>3. QED
        BY <1>1, <1>2, <3>3, <4>1, <4>2
    <3>4. CASE g # r /\ k # r
      BY <1>4, <1>3, <3>1, <3>4
    <3>5. QED
      BY <3>2, <3>3, <3>4
  <2>3. QED
    BY <2>1, <2>2 DEF Fusionados
<1>6. QED
  BY <1>5

\* The addresses left are the others.
LEMMA AchicarBytes ==
    ASSUME NEW hs \in SUBSET Hueco, NEW total \in Nat, Fusionados(hs, total),
           NEW tamanio \in Nat, NEW h \in Caben(hs, tamanio)
    PROVE  \A dir \in Int :
               (\E g \in Achicar(hs, h, tamanio) : Contiene(g, dir)) <=>
                   /\ \E g \in hs : Contiene(g, dir)
                   /\ ~(h.base <= dir /\ dir < h.base + tamanio)
<1>0. SUFFICES ASSUME NEW dir \in Int
               PROVE  (\E g \in Achicar(hs, h, tamanio) : Contiene(g, dir)) <=>
                          /\ \E g \in hs : Contiene(g, dir)
                          /\ ~(h.base <= dir /\ dir < h.base + tamanio)
  OBVIOUS
<1> DEFINE r == [base |-> h.base + tamanio, limite |-> h.limite - tamanio]
<1> USE DEF Fin, Contiene
<1>1. /\ h \in hs /\ h.limite >= tamanio /\ h.base \in Nat /\ h.limite \in Nat
      /\ \A g \in hs : g.base \in Nat /\ g.limite \in Nat
  BY DEF Caben, Hueco
<1>2. \A g \in hs : g # h => g.base + g.limite < h.base \/ h.base + h.limite < g.base
  BY <1>1 DEF Fusionados
<1>3. Achicar(hs, h, tamanio) = (hs \ {h}) \cup {x \in {r} : x.limite # 0}
  BY DEF Achicar
<1>4. Contiene(r, dir) <=> h.base + tamanio <= dir /\ dir < h.base + h.limite
  BY <1>1
<1>5. Contiene(r, dir) => r.limite # 0
  BY <1>1
<1>6. ASSUME NEW g \in Achicar(hs, h, tamanio), Contiene(g, dir)
      PROVE  (\E k \in hs : Contiene(k, dir)) /\ ~(h.base <= dir /\ dir < h.base + tamanio)
  <2>1. CASE g = r
    BY <1>1, <1>4, <1>6, <2>1
  <2>2. CASE g \in hs /\ g # h
    <3>1. g.base + g.limite < h.base \/ h.base + h.limite < g.base
      BY <1>2, <2>2
    <3>2. QED
      BY <1>1, <1>6, <2>2, <3>1
  <2>3. QED
    BY <1>3, <1>6, <2>1, <2>2
<1>7. ASSUME NEW k \in hs, Contiene(k, dir), ~(h.base <= dir /\ dir < h.base + tamanio)
      PROVE  \E g \in Achicar(hs, h, tamanio) : Contiene(g, dir)
  <2>1. CASE k = h
    <3>1. Contiene(r, dir) /\ r.limite # 0
      BY <1>1, <1>4, <1>5, <1>7, <2>1
    <3>2. r \in Achicar(hs, h, tamanio)
      BY <1>3, <3>1
    <3>3. QED
      BY <3>1, <3>2
  <2>2. CASE k # h
    BY <1>3, <1>7, <2>2
  <2>3. QED
    BY <2>1, <2>2
<1>8. QED
  BY <1>6, <1>7

-----------------------------------------------------------------------------
(* Putting a hole back.                                                    *)

\* A hole that touches no other is fused with the holes that end and begin where it does, and
\* with no other: the holes stay separate and cover its addresses and those they did.
LEMMA InsertarHueco ==
    ASSUME NEW hs \in SUBSET Hueco, NEW total \in Nat, Fusionados(hs, total),
           NEW n \in Hueco, n.limite > 0, Fin(n) <= total,
           \A h \in hs : Disjuntos(h, n)
    PROVE  /\ Fusionados(InsertarYFusionar(hs, n), total)
           /\ \A dir \in Int :
                 (\E g \in InsertarYFusionar(hs, n) : Contiene(g, dir)) <=>
                     Contiene(n, dir) \/ \E g \in hs : Contiene(g, dir)
<1> DEFINE sig == Siguiente(hs, n)
           ant == Anterior(hs, n)
           desde == IF ant = {} THEN n.base ELSE (CHOOSE h \in ant : TRUE).base
           hasta == IF sig = {} THEN Fin(n) ELSE Fin(CHOOSE h \in sig : TRUE)
           f == [base |-> desde, limite |-> hasta - desde]
           hs2 == InsertarYFusionar(hs, n)
<1> USE DEF Fin, Disjuntos
<1>1. /\ n.base \in Nat /\ n.limite \in Nat /\ Fin(n) \in Nat
      /\ \A g \in hs : g.base \in Nat /\ g.limite \in Nat
  BY DEF Hueco
<1>2. /\ \A g \in hs : g.limite > 0 /\ g.base + g.limite <= total
      /\ \A g, k \in hs : g # k => g.base + g.limite < k.base \/ k.base + k.limite < g.base
  BY DEF Fusionados
<1>3. /\ \A a \in ant : a \in hs /\ a.base <= n.base /\ a.base + a.limite = n.base
      /\ \A s \in sig : s \in hs /\ s.base > n.base /\ n.base + n.limite = s.base
  BY DEF Anterior, Siguiente
<1>4. \A g \in hs : g.base + g.limite = n.base => g \in ant
  <2>1. SUFFICES ASSUME NEW g \in hs, g.base + g.limite = n.base,
                        NEW k \in hs, k.base <= n.base
                 PROVE  k.base <= g.base
    BY <1>1 DEF Anterior
  <2>2. CASE k = g
    BY <1>1, <2>2
  <2>3. CASE k # g
    BY <1>1, <1>2, <2>1, <2>3
  <2>4. QED
    BY <2>2, <2>3
<1>5. \A g \in hs : n.base + n.limite = g.base => g \in sig
  <2>1. SUFFICES ASSUME NEW g \in hs, n.base + n.limite = g.base,
                        NEW k \in hs, k.base > n.base
                 PROVE  g.base <= k.base
    BY <1>1 DEF Siguiente
  <2>2. k.base + k.limite <= n.base \/ n.base + n.limite <= k.base
    OBVIOUS
  <2>3. QED
    BY <1>1, <1>2, <2>1, <2>2
<1>6. \/ ant = {} /\ desde = n.base
      \/ \E a \in ant : ant = {a} /\ desde = a.base
  <2>1. CASE ant = {}
    BY <2>1
  <2>2. CASE ant # {}
    <3>1. PICK a \in ant : a = CHOOSE h \in ant : TRUE
      BY <2>2
    <3>2. \A b \in ant : b = a
      BY <1>1, <1>2, <1>3, <3>1
    <3>3. QED
      BY <2>2, <3>1, <3>2
  <2>3. QED
    BY <2>1, <2>2
<1>7. \/ sig = {} /\ hasta = n.base + n.limite
      \/ \E s \in sig : sig = {s} /\ hasta = s.base + s.limite
  <2>1. CASE sig = {}
    BY <2>1
  <2>2. CASE sig # {}
    <3>1. PICK s \in sig : s = CHOOSE h \in sig : TRUE
      BY <2>2
    <3>2. \A b \in sig : b = s
      BY <1>1, <1>2, <1>3, <3>1
    <3>3. QED
      BY <2>2, <3>1, <3>2
  <2>3. QED
    BY <2>1, <2>2
<1> HIDE DEF sig, ant, desde, hasta
<1>8. /\ desde \in Nat /\ desde <= n.base
      /\ hasta \in Nat /\ hasta >= n.base + n.limite /\ hasta <= total
  <2>1. desde \in Nat /\ desde <= n.base
    BY <1>1, <1>3, <1>6
  <2>2. hasta \in Nat /\ hasta >= n.base + n.limite /\ hasta <= total
    BY <1>1, <1>2, <1>3, <1>7
  <2>3. QED
    BY <2>1, <2>2
<1>9. f.base = desde /\ f.limite = hasta - desde /\ f.base + f.limite = hasta /\ f.limite > 0
  BY <1>1, <1>8
<1>10. hs2 = (hs \ (sig \cup ant)) \cup {f}
  BY DEF InsertarYFusionar, sig, ant, desde, hasta
<1> HIDE DEF hs2, f
<1>11. ASSUME NEW g \in hs, g \notin ant, g \notin sig
       PROVE  g.base + g.limite < desde \/ hasta < g.base
  <2>1. g.base + g.limite < n.base \/ n.base + n.limite < g.base
    BY <1>1, <1>4, <1>5, <1>11
  <2>2. CASE g.base + g.limite < n.base
    <3>1. \A a \in ant : a # g /\ a \in hs
      BY <1>3, <1>11
    <3>2. \A a \in ant : g.base + g.limite < a.base
      BY <1>1, <1>2, <1>3, <2>2, <3>1
    <3>3. QED
      BY <1>6, <2>2, <3>2
  <2>3. CASE n.base + n.limite < g.base
    <3>1. \A s \in sig : s # g /\ s \in hs
      BY <1>3, <1>11
    <3>2. \A s \in sig : s.base + s.limite < g.base
      BY <1>1, <1>2, <1>3, <2>3, <3>1
    <3>3. QED
      BY <1>7, <2>3, <3>2
  <2>4. QED
    BY <2>1, <2>2, <2>3
<1>12. Fusionados(hs2, total)
  <2>1. \A g \in hs2 : g.limite > 0 /\ Fin(g) <= total
    BY <1>1, <1>2, <1>8, <1>9, <1>10
  <2>2. \A g, k \in hs2 : g # k => Fin(g) < k.base \/ Fin(k) < g.base
    <3>1. SUFFICES ASSUME NEW g \in hs2, NEW k \in hs2, g # k
                   PROVE  Fin(g) < k.base \/ Fin(k) < g.base
      OBVIOUS
    <3>2. CASE g = f
      <4>1. k \in hs /\ k \notin ant /\ k \notin sig
        BY <1>10, <3>1, <3>2
      <4>2. QED
        BY <1>9, <1>11, <3>2, <4>1
    <3>3. CASE k = f
      <4>1. g \in hs /\ g \notin ant /\ g \notin sig
        BY <1>10, <3>1, <3>3
      <4>2. QED
        BY <1>9, <1>11, <3>3, <4>1
    <3>4. CASE g \in hs /\ k \in hs
      BY <1>2, <3>1, <3>4
    <3>5. QED
      BY <1>10, <3>2, <3>3, <3>4
  <2>3. QED
    BY <2>1, <2>2 DEF Fusionados
<1>13. ASSUME NEW dir \in Int
       PROVE  Contiene(f, dir) <=> Contiene(n, dir) \/ \E g \in sig \cup ant : Contiene(g, dir)
  <2>1. Contiene(f, dir) <=> desde <= dir /\ dir < hasta
    BY <1>9 DEF Contiene
  <2>2. dir < n.base /\ desde <= dir <=> \E a \in ant : Contiene(a, dir)
    BY <1>1, <1>3, <1>6 DEF Contiene
  <2>3. n.base + n.limite <= dir /\ dir < hasta <=> \E s \in sig : Contiene(s, dir)
    BY <1>1, <1>3, <1>7 DEF Contiene
  <2>4. Contiene(n, dir) <=> n.base <= dir /\ dir < n.base + n.limite
    BY DEF Contiene
  <2>5. QED
    BY <1>1, <1>8, <2>1, <2>2, <2>3, <2>4
<1>14. \A g \in sig \cup ant : g \in hs
  BY <1>3
<1>15. ASSUME NEW dir \in Int
       PROVE  (\E g \in hs2 : Contiene(g, dir)) <=>
                  Contiene(n, dir) \/ \E g \in hs : Contiene(g, dir)
  BY <1>10, <1>13, <1>14
<1>16. QED
  BY <1>12, <1>15 DEF hs2

\* Fusing a range inside the memory into the list stays inside the memory.
LEMMA InsertarDentro ==
    ASSUME NEW hs \in SUBSET Hueco, NEW n \in Hueco, NEW total \in Nat,
           \A h \in hs : Fin(h) <= total, Fin(n) <= total
    PROVE  \A h \in InsertarYFusionar(hs, n) : Fin(h) <= total
<1> DEFINE sig == Siguiente(hs, n)
           ant == Anterior(hs, n)
           desde == IF ant = {} THEN n.base ELSE (CHOOSE h \in ant : TRUE).base
           hasta == IF sig = {} THEN Fin(n) ELSE Fin(CHOOSE h \in sig : TRUE)
<1>1. InsertarYFusionar(hs, n) =
          (hs \ (sig \cup ant)) \cup {[base |-> desde, limite |-> hasta - desde]}
  BY DEF InsertarYFusionar
<1>2. sig \subseteq hs /\ ant \subseteq hs
  BY DEF Siguiente, Anterior
<1> HIDE DEF sig, ant
<1>3. \A h \in hs \cup {n} : h.base \in Nat /\ h.limite \in Nat /\ Fin(h) \in Nat /\ Fin(h) <= total
  BY DEF Hueco, Fin
<1>4. desde \in Nat
  BY <1>2, <1>3
<1>5. hasta \in Nat /\ hasta <= total
  BY <1>2, <1>3
<1> HIDE DEF desde, hasta
<1>6. Fin([base |-> desde, limite |-> hasta - desde]) = hasta
  BY <1>4, <1>5 DEF Fin
<1>7. QED
  BY <1>1, <1>3, <1>5, <1>6

-----------------------------------------------------------------------------
(* Counting bytes.                                                         *)

\* The addresses some holes or segments cover.
BytesDe(piezas) == {dir \in Nat : \E x \in piezas : Contiene(x, dir)}

\* What lies within the memory covers a finite number of bytes.
LEMMA BytesFinitos ==
    ASSUME NEW piezas, NEW total \in Nat,
           \A x \in piezas : x.base \in Nat /\ x.limite \in Nat /\ Fin(x) <= total
    PROVE  IsFiniteSet(BytesDe(piezas)) /\ Cardinality(BytesDe(piezas)) \in Nat
<1>1. \A dir \in BytesDe(piezas) : dir <= total
  BY DEF BytesDe, Contiene, Fin
<1>2. BytesDe(piezas) \in SUBSET Nat
  BY DEF BytesDe
<1>3. QED
  BY <1>1, <1>2, FS_BoundedSetOfNaturals, FS_CardinalityType

\* A piece that touches no other adds its size.
LEMMA BytesMas ==
    ASSUME NEW piezas, NEW total \in Nat,
           \A x \in piezas : x.base \in Nat /\ x.limite \in Nat /\ Fin(x) <= total,
           NEW n, n.base \in Nat, n.limite \in Nat, Fin(n) <= total,
           \A x \in piezas : Disjuntos(x, n)
    PROVE  Cardinality(BytesDe(piezas \cup {n})) = Cardinality(BytesDe(piezas)) + n.limite
<1> DEFINE suyos == n.base .. (n.base + n.limite - 1)
<1>1. IsFiniteSet(suyos) /\ Cardinality(suyos) = n.limite
  <2>1. n.base \in Int /\ n.base + n.limite - 1 \in Int
    OBVIOUS
  <2>2. /\ IsFiniteSet(suyos)
        /\ Cardinality(suyos) = IF n.base > n.base + n.limite - 1 THEN 0
                                ELSE (n.base + n.limite - 1) - n.base + 1
    BY <2>1, FS_Interval
  <2>3. QED
    BY <2>2
<1>2. BytesDe(piezas \cup {n}) = BytesDe(piezas) \cup suyos
  BY DEF BytesDe, Contiene, Fin
<1>3. BytesDe(piezas) \cap suyos = {}
  BY DEF BytesDe, Contiene, Fin, Disjuntos
<1>4. IsFiniteSet(BytesDe(piezas)) /\ Cardinality(BytesDe(piezas)) \in Nat
  BY BytesFinitos
<1>5. Cardinality({}) = 0
  BY FS_EmptySet
<1> HIDE DEF suyos
<1>6. Cardinality(BytesDe(piezas) \cup suyos) =
          Cardinality(BytesDe(piezas)) + Cardinality(suyos) - Cardinality(BytesDe(piezas) \cap suyos)
  BY <1>1, <1>4, FS_Union
<1>7. Cardinality(BytesDe(piezas \cup {n})) = Cardinality(BytesDe(piezas)) + n.limite - 0
  BY <1>1, <1>2, <1>3, <1>5, <1>6
<1>8. QED
  BY <1>4, <1>7

\* The sum over the list is the number of its bytes.  MapThenSumSet is a function defined by
\* its own equation: another function that satisfies it exists, and no two do.
Elige(s) == CHOOSE x \in s : TRUE

Cuerpo(s, g) == IF s = {} THEN 0 ELSE Elige(s).limite + g[s \ {Elige(s)}]

EsSuma(hs, g) == g = [s \in SUBSET hs |-> Cuerpo(s, g)]

\* What MapThenSumSet stands for.
LEMMA SumaDef ==
    ASSUME NEW hs
    PROVE  MapThenSumSet(LAMBDA h : h.limite, hs) = (CHOOSE g : EsSuma(hs, g))[hs]
  BY Zenon DEF MapThenSumSet, MapThenFoldSet, EsSuma, Cuerpo, Elige

\* A list of fused holes is finite: no two have the same base.
LEMMA HuecosFinitos ==
    ASSUME NEW hs \in SUBSET Hueco, NEW total \in Nat, Fusionados(hs, total)
    PROVE  IsFiniteSet(hs)
<1> DEFINE bases == {dir \in 0 .. total : \E h \in hs : h.base = dir}
           de == [dir \in bases |-> CHOOSE h \in hs : h.base = dir]
<1>1. IsFiniteSet(0 .. total)
  BY FS_Interval
<1>2. IsFiniteSet(bases)
  BY <1>1, FS_Subset
<1>3. \A h \in hs : h.base \in Nat /\ h.limite \in Nat /\ h.limite > 0 /\ Fin(h) <= total
  BY DEF Hueco, Fusionados
<1>4. \A g, h \in hs : g.base = h.base => g = h
  BY <1>3 DEF Fusionados, Fin
<1>5. \A dir \in bases : de[dir] \in hs /\ de[dir].base = dir
  OBVIOUS
<1>6. \A h \in hs : h.base \in bases
  BY <1>3 DEF Fin
<1>7. \A h \in hs : de[h.base] = h
  <2> HIDE DEF de, bases
  <2> QED BY <1>4, <1>5, <1>6
<1>8. de \in Surjection(bases, hs)
  <2>1. de \in [bases -> hs]
    BY <1>5
  <2> HIDE DEF de, bases
  <2>2. QED
    BY <1>6, <1>7, <2>1 DEF Surjection
<1> HIDE DEF de, bases
<1>9. QED
  BY <1>2, <1>8, FS_Surjection

\* MapThenSumSet, as LibreExacta uses it, counts the bytes of the list.
LEMMA SumaEsBytes ==
    ASSUME NEW hs \in SUBSET Hueco, NEW total \in Nat, Fusionados(hs, total)
    PROVE  MapThenSumSet(LAMBDA h : h.limite, hs) = Cardinality(BytesDe(hs))
<1> DEFINE cuenta == [s \in SUBSET hs |-> Cardinality(BytesDe(s))]
           suma == CHOOSE g : EsSuma(hs, g)
<1>1. \A h \in hs : h.base \in Nat /\ h.limite \in Nat /\ Fin(h) <= total
  BY DEF Hueco, Fusionados
<1>2. \A g, h \in hs : g # h => Disjuntos(g, h)
  BY <1>1 DEF Fusionados, Disjuntos, Fin
<1>3. \A s \in SUBSET hs : Cuerpo(s, cuenta) = cuenta[s]
  <2> SUFFICES ASSUME NEW s \in SUBSET hs PROVE Cuerpo(s, cuenta) = cuenta[s]
    OBVIOUS
  <2>1. CASE s = {}
    <3>1. BytesDe({}) = {}
      BY DEF BytesDe
    <3>2. QED
      BY <2>1, <3>1, FS_EmptySet DEF Cuerpo
  <2>2. CASE s # {}
    <3> DEFINE x == Elige(s)
               r == s \ {x}
    <3>1. x \in s
      BY <2>2 DEF Elige
    <3>2. r \in SUBSET hs /\ s = r \cup {x}
      BY <3>1
    <3> HIDE DEF x, r
    <3>3. /\ \A y \in r : y.base \in Nat /\ y.limite \in Nat /\ Fin(y) <= total
          /\ x.base \in Nat /\ x.limite \in Nat /\ Fin(x) <= total
      BY <1>1, <3>1, <3>2
    <3>4. \A y \in r : Disjuntos(y, x)
      BY <1>2, <3>1, <3>2 DEF r
    <3>5. Cardinality(BytesDe(r \cup {x})) = Cardinality(BytesDe(r)) + x.limite
      BY <3>3, <3>4, BytesMas
    <3>6. Cardinality(BytesDe(r)) \in Nat
      BY <3>3, BytesFinitos
    <3>7. Cuerpo(s, cuenta) = x.limite + cuenta[r]
      BY <2>2 DEF Cuerpo, x, r
    <3>8. cuenta[r] = Cardinality(BytesDe(r)) /\ cuenta[s] = Cardinality(BytesDe(r \cup {x}))
      BY <3>2
    <3>9. QED
      BY <3>3, <3>5, <3>6, <3>7, <3>8
  <2>3. QED
    BY <2>1, <2>2
<1>4. EsSuma(hs, cuenta)
  <2>1. cuenta = [s \in SUBSET hs |-> cuenta[s]]
    OBVIOUS
  <2> HIDE DEF cuenta
  <2>2. [s \in SUBSET hs |-> cuenta[s]] = [s \in SUBSET hs |-> Cuerpo(s, cuenta)]
    BY <1>3
  <2>3. QED
    BY <2>1, <2>2 DEF EsSuma
<1>5. EsSuma(hs, suma)
  <2> HIDE DEF cuenta
  <2> QED BY <1>4
<1>6. \A s \in SUBSET hs : suma[s] = Cuerpo(s, suma)
  <2> HIDE DEF suma
  <2> QED BY <1>5 DEF EsSuma
<1> HIDE DEF cuenta, suma
<1>7. \A s \in SUBSET hs : suma[s] = cuenta[s]
  <2> SUFFICES ASSUME {s \in SUBSET hs : suma[s] # cuenta[s]} # {} PROVE FALSE
    OBVIOUS
  <2> DEFINE malos == {s \in SUBSET hs : suma[s] # cuenta[s]}
             R == StrictSubsetOrdering(hs)
  <2>1. IsWellFoundedOn(R, SUBSET hs)
    BY HuecosFinitos, FS_FiniteSubsetsOfFinite, FS_StrictSubsetOrderingWellFounded
  <2>2. malos \subseteq SUBSET hs
    OBVIOUS
  <2>3. \E s \in malos : \A r \in malos : ~ (<<r, s>> \in R)
    <3> HIDE DEF R, malos
    <3> QED BY <2>1, <2>2, WFMin DEF malos
  <2>4. PICK s \in malos : \A r \in malos : ~ (<<r, s>> \in R)
    BY <2>3
  <2>5. CASE s = {}
    BY <1>3, <1>6, <2>5 DEF Cuerpo
  <2>6. CASE s # {}
    <3> DEFINE x == Elige(s)
               r == s \ {x}
    <3>1. x \in s
      BY <2>6 DEF Elige
    <3>2. r \in SUBSET hs /\ r \subseteq s /\ r # s
      BY <3>1
    <3>3. <<r, s>> \in R
      BY <3>2 DEF StrictSubsetOrdering
    <3>4. suma[r] = cuenta[r]
      BY <2>4, <3>2, <3>3
    <3>5. Cuerpo(s, suma) = Cuerpo(s, cuenta)
      BY <2>6, <3>4 DEF Cuerpo
    <3>6. QED
      BY <1>3, <1>6, <3>5
  <2>7. QED
    BY <2>5, <2>6
<1>8. hs \in SUBSET hs
  OBVIOUS
<1>9. QED
  BY <1>7, <1>8, SumaDef DEF suma, cuenta

-----------------------------------------------------------------------------
(* Memory sticks, one after the other from address zero.                   *)

\* Where a stick ends.
FinStick(sticks, k) == sticks[k].base + sticks[k].size

\* Each stick begins where the one before it ends, from zero to the total.
SticksBien(sticks, total) ==
    /\ sticks \in Seq([base : Nat, size : Nat \ {0}])
    /\ total \in Nat
    /\ sticks = <<>> => total = 0
    /\ sticks # <<>> => sticks[1].base = 0 /\ FinStick(sticks, Len(sticks)) = total
    /\ \A k \in DOMAIN sticks :
        k # Len(sticks) => k + 1 \in DOMAIN sticks /\ FinStick(sticks, k) = sticks[k + 1].base
    /\ \A j, k \in DOMAIN sticks : j < k => FinStick(sticks, j) <= sticks[k].base

\* The sticks in order, one by one.
LEMMA SticksTipo ==
    ASSUME NEW sticks, NEW total, SticksBien(sticks, total)
    PROVE  /\ Len(sticks) \in Nat /\ DOMAIN sticks = 1 .. Len(sticks)
           /\ total \in Nat
           /\ \A k \in DOMAIN sticks :
                /\ k \in Nat /\ sticks[k].base \in Nat /\ sticks[k].size \in Nat /\ sticks[k].size > 0
                /\ FinStick(sticks, k) \in Nat /\ sticks[k].base < FinStick(sticks, k)
                /\ FinStick(sticks, k) <= total
           /\ \A j, k \in DOMAIN sticks : j < k => FinStick(sticks, j) <= sticks[k].base
<1>1. Len(sticks) \in Nat /\ DOMAIN sticks = 1 .. Len(sticks)
  BY LenProperties DEF SticksBien
<1>2. \A k \in DOMAIN sticks : sticks[k] \in [base : Nat, size : Nat \ {0}]
  BY <1>1, ElementOfSeq DEF SticksBien
<1>3. \A k \in DOMAIN sticks :
          /\ k \in Nat /\ sticks[k].base \in Nat /\ sticks[k].size \in Nat /\ sticks[k].size > 0
  BY <1>1, <1>2
<1>4. \A k \in DOMAIN sticks :
          FinStick(sticks, k) \in Nat /\ sticks[k].base < FinStick(sticks, k)
  BY <1>3 DEF FinStick
<1>5. ASSUME NEW k \in DOMAIN sticks PROVE FinStick(sticks, k) <= total
  <2>1. Len(sticks) \in DOMAIN sticks /\ sticks # <<>> /\ k <= Len(sticks)
    BY <1>1, EmptySeq
  <2>2. FinStick(sticks, Len(sticks)) = total
    BY <2>1 DEF SticksBien
  <2>3. CASE k = Len(sticks)
    BY <1>4, <2>2, <2>3
  <2>4. CASE k < Len(sticks)
    <3>1. FinStick(sticks, k) <= sticks[Len(sticks)].base
      BY <2>1, <2>4 DEF SticksBien
    <3>2. sticks[Len(sticks)].base < total
      BY <1>4, <2>1, <2>2
    <3>3. QED
      BY <1>3, <1>4, <2>1, <2>2, <3>1, <3>2
  <2>5. QED
    BY <1>1, <2>1, <2>3, <2>4
<1>6. QED
  BY <1>1, <1>3, <1>4, <1>5 DEF SticksBien

\* The least of a single number.
LEMMA MinimoUnico ==
    ASSUME NEW k \in Nat
    PROVE  Min({k}) = k
  BY DEF Min

\* Every address below the total is in a stick.
LEMMA HayStick ==
    ASSUME NEW sticks, NEW total, SticksBien(sticks, total), NEW dir \in Nat, dir < total
    PROVE  \E k \in DOMAIN sticks : sticks[k].base <= dir /\ dir < FinStick(sticks, k)
<1> DEFINE despues == {k \in DOMAIN sticks : dir < FinStick(sticks, k)}
           m == Min(despues)
<1>1. /\ Len(sticks) \in Nat /\ DOMAIN sticks = 1 .. Len(sticks)
      /\ \A j \in DOMAIN sticks : sticks[j].base \in Nat /\ FinStick(sticks, j) \in Nat
  BY SticksTipo
<1>2. sticks # <<>>
  BY DEF SticksBien
<1>3. Len(sticks) \in DOMAIN sticks /\ FinStick(sticks, Len(sticks)) = total
  BY <1>1, <1>2, EmptySeq DEF SticksBien
<1>4. despues \in SUBSET Nat /\ despues # {}
  BY <1>1, <1>3
<1>5. m \in despues /\ \A j \in despues : m <= j
  <2> HIDE DEF despues
  <2> QED BY <1>4, HayPrimero
<1> HIDE DEF m
<1>6. sticks[m].base <= dir
  <2>1. CASE m = 1
    BY <1>2, <2>1 DEF SticksBien
  <2>2. CASE m # 1
    <3>1. m - 1 \in DOMAIN sticks /\ m - 1 # Len(sticks) /\ m \in Nat
      BY <1>1, <1>5, <2>2
    <3>2. FinStick(sticks, m - 1) <= dir
      BY <1>1, <1>5, <3>1
    <3>3. FinStick(sticks, m - 1) = sticks[(m - 1) + 1].base
      BY <3>1 DEF SticksBien
    <3>4. QED
      BY <3>1, <3>2, <3>3
  <2>3. QED
    BY <2>1, <2>2
<1>7. QED
  BY <1>5, <1>6

\* Only one.
LEMMA UnStick ==
    ASSUME NEW sticks, NEW total, SticksBien(sticks, total), NEW dir \in Nat,
           NEW j \in DOMAIN sticks, NEW k \in DOMAIN sticks,
           sticks[j].base <= dir, dir < FinStick(sticks, j), dir < FinStick(sticks, k)
    PROVE  j <= k /\ (sticks[k].base <= dir => j = k)
<1>1. /\ j \in Nat /\ k \in Nat
      /\ \A i \in DOMAIN sticks : sticks[i].base \in Nat /\ FinStick(sticks, i) \in Nat
      /\ \A a, b \in DOMAIN sticks : a < b => FinStick(sticks, a) <= sticks[b].base
  BY SticksTipo
<1>2. ~(k < j)
  BY <1>1
<1>3. sticks[k].base <= dir => ~(j < k)
  BY <1>1
<1>4. QED
  BY <1>1, <1>2, <1>3

\* A stick that connects goes after the last one.
LEMMA SticksMas ==
    ASSUME NEW sticks, NEW total, SticksBien(sticks, total), NEW tamanio \in Nat \ {0}
    PROVE  SticksBien(Append(sticks, [base |-> total, size |-> tamanio]), total + tamanio)
<1> DEFINE nuevo == [base |-> total, size |-> tamanio]
           mas == Append(sticks, nuevo)
           n == Len(sticks)
<1>1. /\ n \in Nat /\ DOMAIN sticks = 1 .. n /\ total \in Nat
      /\ \A k \in 1 .. n : sticks[k].base \in Nat /\ FinStick(sticks, k) \in Nat
                           /\ FinStick(sticks, k) <= total /\ sticks[k] \in [base : Nat, size : Nat \ {0}]
  <2>1. sticks \in Seq([base : Nat, size : Nat \ {0}])
    BY DEF SticksBien
  <2>2. \A k \in 1 .. n : sticks[k] \in [base : Nat, size : Nat \ {0}]
    BY <2>1, ElementOfSeq
  <2>3. QED
    BY <2>2, SticksTipo
<1>2. nuevo \in [base : Nat, size : Nat \ {0}] /\ nuevo.base = total /\ nuevo.size = tamanio
  BY <1>1
<1> HIDE DEF nuevo
<1>3. /\ mas \in Seq([base : Nat, size : Nat \ {0}]) /\ Len(mas) = n + 1
      /\ \A k \in 1 .. n : mas[k] = sticks[k]
      /\ mas[n + 1] = nuevo
  BY <1>1, <1>2, AppendProperties DEF SticksBien
<1>4. DOMAIN mas = 1 .. n + 1
  BY <1>1, <1>3, LenProperties
<1> HIDE DEF mas, n
<1>5. /\ \A k \in 1 .. n : FinStick(mas, k) = FinStick(sticks, k) /\ mas[k].base = sticks[k].base
      /\ FinStick(mas, n + 1) = total + tamanio /\ mas[n + 1].base = total
  BY <1>1, <1>2, <1>3 DEF FinStick
<1>6. mas # <<>>
  BY <1>1, <1>3, EmptySeq
<1>7. /\ sticks = <<>> <=> n = 0
      /\ sticks = <<>> => total = 0
      /\ sticks # <<>> => sticks[1].base = 0 /\ FinStick(sticks, n) = total
  BY EmptySeq DEF SticksBien, n
<1>8. mas[1].base = 0
  BY <1>1, <1>5, <1>7
<1>9. ASSUME NEW k \in 1 .. n + 1, k # n + 1
      PROVE  k + 1 \in 1 .. n + 1 /\ FinStick(mas, k) = mas[k + 1].base
  <2>1. k \in 1 .. n /\ k + 1 \in 1 .. n + 1
    BY <1>1, <1>9
  <2>2. CASE k = n
    BY <1>1, <1>5, <1>7, <2>1, <2>2
  <2>3. CASE k # n
    <3>1. k + 1 \in 1 .. n
      BY <1>1, <2>1, <2>3
    <3>2. FinStick(sticks, k) = sticks[k + 1].base
      BY <1>1, <2>1, <2>3 DEF SticksBien, n
    <3>3. QED
      BY <1>5, <2>1, <3>1, <3>2
  <2>4. QED
    BY <2>2, <2>3
<1>10. ASSUME NEW j \in 1 .. n + 1, NEW k \in 1 .. n + 1, j < k
       PROVE  FinStick(mas, j) <= mas[k].base
  <2>1. j \in 1 .. n
    BY <1>1, <1>10
  <2>2. CASE k = n + 1
    BY <1>1, <1>5, <2>1, <2>2
  <2>3. CASE k # n + 1
    <3>1. k \in 1 .. n
      BY <1>1, <2>3
    <3>2. FinStick(sticks, j) <= sticks[k].base
      BY <1>1, <1>10, <2>1, <3>1 DEF SticksBien
    <3>3. QED
      BY <1>5, <2>1, <3>1, <3>2
  <2>4. QED
    BY <2>2, <2>3
<1>11. total + tamanio \in Nat
  BY <1>1
<1>12. QED
  <2>1. SticksBien(mas, total + tamanio)
    BY <1>3, <1>4, <1>5, <1>6, <1>8, <1>9, <1>10, <1>11 DEF SticksBien
  <2>2. QED
    BY <2>1 DEF mas, nuevo

-----------------------------------------------------------------------------
(* A range cut into pieces where each stick ends.                          *)

\* What stick k holds of the range that goes from dir to hasta.
Trozo(sticks, dir, hasta, k) ==
    [stick |-> k,
     desde |-> IF dir > sticks[k].base THEN dir - sticks[k].base ELSE 0,
     tamanio |-> (IF hasta < FinStick(sticks, k) THEN hasta ELSE FinStick(sticks, k))
                     - (IF dir > sticks[k].base THEN dir ELSE sticks[k].base)]

\* The pieces of the range in the sticks from k to m.
Trozos(sticks, dir, hasta, k, m) == [j \in 1 .. m - k + 1 |-> Trozo(sticks, dir, hasta, k + j - 1)]

\* The sticks where a range that ends before hasta may end: one, or none past the end.
Ultimos(sticks, hasta) ==
    {m \in DOMAIN sticks : sticks[m].base < hasta /\ hasta <= FinStick(sticks, m)}

\* What the loop gives from the address dir on, in stick k, with restan bytes to go.
Cortes(sticks, k, dir, restan) ==
    IF restan = 0 THEN {<<>>}
    ELSE {Trozos(sticks, dir, dir + restan, k, m) : m \in Ultimos(sticks, dir + restan)}

\* The states of the loop.
Lugares(sticks, tamanio) ==
    {a \in [stick : DOMAIN sticks, desde : Nat, restan : 0 .. tamanio] :
        a.desde < sticks[a.stick].size}

\* The fields of a state of the loop.
LEMMA LugarTipo ==
    ASSUME NEW sticks, NEW total, SticksBien(sticks, total), NEW tamanio \in Nat,
           NEW a \in Lugares(sticks, tamanio)
    PROVE  /\ a.stick \in DOMAIN sticks /\ a.desde \in Nat /\ a.restan \in Nat
           /\ a.restan <= tamanio /\ a.desde < sticks[a.stick].size
           /\ a = [stick |-> a.stick, desde |-> a.desde, restan |-> a.restan]
  BY DEF Lugares

\* A function over 1 .. n is a list of n elements.
LEMMA FuncionEsLista ==
    ASSUME NEW S, NEW n \in Nat, NEW f \in [1 .. n -> S]
    PROVE  f \in Seq(S) /\ Len(f) = n /\ DOMAIN f = 1 .. n
  OBVIOUS

\* One piece more in front of the cut of the rest is the cut of the whole.
LEMMA TrozosDeMas ==
    ASSUME NEW sticks, NEW total, SticksBien(sticks, total), NEW k \in DOMAIN sticks,
           k + 1 \in DOMAIN sticks, NEW m \in DOMAIN sticks, k < m,
           NEW dir \in Nat, sticks[k].base <= dir, dir < FinStick(sticks, k),
           NEW hasta \in Nat, FinStick(sticks, k) < hasta
    PROVE  <<Trozo(sticks, dir, hasta, k)>> \o Trozos(sticks, FinStick(sticks, k), hasta, k + 1, m)
               = Trozos(sticks, dir, hasta, k, m)
<1> DEFINE fin == FinStick(sticks, k)
           uno == <<Trozo(sticks, dir, hasta, k)>>
           cola == Trozos(sticks, fin, hasta, k + 1, m)
           todo == Trozos(sticks, dir, hasta, k, m)
<1>1. /\ k \in Nat /\ m \in Nat /\ fin \in Nat
      /\ \A j \in DOMAIN sticks : sticks[j].base \in Nat
      /\ \A i, j \in DOMAIN sticks : i < j => FinStick(sticks, i) <= sticks[j].base
      /\ DOMAIN sticks = 1 .. Len(sticks) /\ Len(sticks) \in Nat
  BY SticksTipo
<1>2. \A j \in 2 .. m - k + 1 :
          Trozo(sticks, dir, hasta, k + j - 1) = Trozo(sticks, fin, hasta, (k + 1) + (j - 1) - 1)
  <2>1. SUFFICES ASSUME NEW j \in 2 .. m - k + 1
                 PROVE  Trozo(sticks, dir, hasta, k + j - 1) = Trozo(sticks, fin, hasta, k + j - 1)
    <3>1. \A j \in 2 .. m - k + 1 : (k + 1) + (j - 1) - 1 = k + j - 1
      BY <1>1
    <3>2. QED
      BY <3>1, Zenon
  <2> DEFINE q == k + j - 1
  <2>2. q \in DOMAIN sticks /\ k < q
    BY <1>1
  <2> HIDE DEF q
  <2>3. fin <= sticks[q].base /\ sticks[q].base \in Nat
    BY <1>1, <2>2
  <2>4. ~(dir > sticks[q].base) /\ ~(fin > sticks[q].base)
    BY <1>1, <2>3
  <2>5. Trozo(sticks, dir, hasta, q) = Trozo(sticks, fin, hasta, q)
    BY <2>4 DEF Trozo
  <2>6. QED
    BY <2>5 DEF q
<1>3. /\ uno \in Seq({Trozo(sticks, dir, hasta, k)}) /\ Len(uno) = 1
      /\ uno[1] = Trozo(sticks, dir, hasta, k)
  OBVIOUS
<1> DEFINE T == {Trozo(sticks, dir, hasta, k + j - 1) : j \in 1 .. m - k + 1}
                    \cup {Trozo(sticks, fin, hasta, (k + 1) + j - 1) : j \in 1 .. m - k}
<1>4. /\ cola \in Seq(T) /\ Len(cola) = m - k
      /\ \A j \in 1 .. m - k : cola[j] = Trozo(sticks, fin, hasta, (k + 1) + j - 1)
  <2>1. m - (k + 1) + 1 = m - k /\ m - k \in Nat
    BY <1>1
  <2>2. cola = [j \in 1 .. m - k |-> Trozo(sticks, fin, hasta, (k + 1) + j - 1)]
    BY <2>1 DEF Trozos
  <2> HIDE DEF cola
  <2>3. \A j \in 1 .. m - k : cola[j] \in T /\ cola[j] = Trozo(sticks, fin, hasta, (k + 1) + j - 1)
    BY <2>2
  <2> HIDE DEF T
  <2>4. cola \in [1 .. m - k -> T]
    BY <2>2, <2>3
  <2>5. QED
    BY <2>1, <2>3, <2>4, FuncionEsLista
<1>5. /\ todo \in Seq(T) /\ Len(todo) = m - k + 1
      /\ \A j \in 1 .. m - k + 1 : todo[j] = Trozo(sticks, dir, hasta, k + j - 1)
  <2>1. m - k + 1 \in Nat
    BY <1>1
  <2>2. todo = [j \in 1 .. m - k + 1 |-> Trozo(sticks, dir, hasta, k + j - 1)]
    BY DEF Trozos
  <2> HIDE DEF todo
  <2>3. \A j \in 1 .. m - k + 1 : todo[j] \in T /\ todo[j] = Trozo(sticks, dir, hasta, k + j - 1)
    BY <2>2
  <2> HIDE DEF T
  <2>4. todo \in [1 .. m - k + 1 -> T]
    BY <2>2, <2>3
  <2>5. QED
    BY <2>1, <2>3, <2>4, FuncionEsLista
<1>6. uno \in Seq(T)
  <2>1. k + 1 - 1 = k /\ 1 \in 1 .. m - k + 1
    BY <1>1
  <2>2. Trozo(sticks, dir, hasta, k) \in T
    BY <2>1
  <2> HIDE DEF T
  <2>3. QED
    BY <2>2
<1> HIDE DEF uno, cola, todo, T
<1> DEFINE c == uno \o cola
<1>7. /\ c \in Seq(T) /\ Len(c) = m - k + 1
      /\ \A j \in 1 .. m - k + 1 : c[j] = IF j <= 1 THEN uno[j] ELSE cola[j - 1]
  <2>1. /\ c \in Seq(T) /\ Len(c) = Len(uno) + Len(cola)
        /\ \A j \in 1 .. Len(uno) + Len(cola) :
               c[j] = IF j <= Len(uno) THEN uno[j] ELSE cola[j - Len(uno)]
    BY <1>4, <1>6, ConcatProperties
  <2> HIDE DEF c
  <2>2. Len(uno) + Len(cola) = m - k + 1
    BY <1>1, <1>3, <1>4
  <2>3. QED
    BY <1>3, <2>1, <2>2
<1> HIDE DEF c
<1>8. \A j \in 1 .. m - k + 1 : c[j] = todo[j]
  <2>1. SUFFICES ASSUME NEW j \in 1 .. m - k + 1 PROVE c[j] = todo[j]
    OBVIOUS
  <2>2. CASE j = 1
    <3>1. k + 1 - 1 = k
      BY <1>1
    <3>2. QED
      BY <1>3, <1>5, <1>7, <2>2, <3>1
  <2>3. CASE j # 1
    <3>1. j \in 2 .. m - k + 1 /\ j - 1 \in 1 .. m - k /\ ~(j <= 1)
      BY <1>1, <2>3
    <3>2. c[j] = cola[j - 1]
      BY <1>7, <3>1
    <3>3. cola[j - 1] = Trozo(sticks, fin, hasta, (k + 1) + (j - 1) - 1)
      BY <1>4, <3>1, Zenon
    <3>4. QED
      BY <1>2, <1>5, <3>1, <3>2, <3>3
  <2>4. QED
    BY <2>2, <2>3
<1>9. c = todo
  BY <1>5, <1>7, <1>8, SeqEqual
<1>10. QED
  BY <1>9 DEF c, uno, cola, todo

\* The stick where a range ends comes after every stick that ends before.
LEMMA UltimoTipo ==
    ASSUME NEW sticks, NEW total, SticksBien(sticks, total), NEW hasta \in Nat
    PROVE  /\ hasta > total => Ultimos(sticks, hasta) = {}
           /\ \A m \in Ultimos(sticks, hasta), k \in DOMAIN sticks :
                /\ FinStick(sticks, k) < hasta => k < m
                /\ sticks[k].base < hasta => k <= m
           /\ \A k \in DOMAIN sticks :
                sticks[k].base < hasta /\ hasta <= FinStick(sticks, k) =>
                    Ultimos(sticks, hasta) = {k}
           /\ 0 < hasta /\ hasta <= total => Ultimos(sticks, hasta) # {}
<1>1. /\ DOMAIN sticks \in SUBSET Nat /\ total \in Nat
      /\ \A i \in DOMAIN sticks : /\ sticks[i].base \in Nat /\ FinStick(sticks, i) \in Nat
                                  /\ FinStick(sticks, i) <= total
                                  /\ sticks[i].base < FinStick(sticks, i)
      /\ \A i, j \in DOMAIN sticks : i < j => FinStick(sticks, i) <= sticks[j].base
  BY SticksTipo
<1>2. hasta > total => Ultimos(sticks, hasta) = {}
  BY <1>1 DEF Ultimos
<1>3. ASSUME NEW m \in Ultimos(sticks, hasta), NEW k \in DOMAIN sticks
      PROVE  /\ FinStick(sticks, k) < hasta => k < m
             /\ sticks[k].base < hasta => k <= m
  <2>1. m \in DOMAIN sticks /\ sticks[m].base < hasta /\ hasta <= FinStick(sticks, m)
    BY DEF Ultimos
  <2>2. m < k => FinStick(sticks, m) <= sticks[k].base
    BY <1>1, <2>1
  <2>3. m \in Nat /\ k \in Nat /\ sticks[k].base < FinStick(sticks, k)
    BY <1>1, <2>1
  <2>4. FinStick(sticks, k) < hasta => k # m
    BY <1>1, <2>1
  <2>5. QED
    BY <1>1, <2>1, <2>2, <2>3, <2>4
<1>4. ASSUME NEW k \in DOMAIN sticks, sticks[k].base < hasta, hasta <= FinStick(sticks, k)
      PROVE  Ultimos(sticks, hasta) = {k}
  <2>1. k \in Ultimos(sticks, hasta)
    BY <1>4 DEF Ultimos
  <2>2. ASSUME NEW m \in Ultimos(sticks, hasta) PROVE m = k
    <3>1. m \in DOMAIN sticks /\ sticks[m].base < hasta
      BY DEF Ultimos
    <3>2. k <= m /\ m <= k
      BY <1>3, <1>4, <2>1, <3>1
    <3>3. QED
      BY <1>1, <3>1, <3>2
  <2>3. QED
    BY <2>1, <2>2
<1>5. ASSUME 0 < hasta, hasta <= total PROVE Ultimos(sticks, hasta) # {}
  <2>1. hasta - 1 \in Nat /\ hasta - 1 < total
    BY <1>1, <1>5
  <2>2. PICK k \in DOMAIN sticks : sticks[k].base <= hasta - 1 /\ hasta - 1 < FinStick(sticks, k)
    BY <2>1, HayStick
  <2>3. QED
    BY <1>1, <1>4, <2>2
<1>6. QED
  BY <1>2, <1>3, <1>4, <1>5

\* A range that ends in the stick where it begins.
LEMMA UnTrozo ==
    ASSUME NEW sticks, NEW dir, NEW hasta, NEW k \in Nat
    PROVE  Trozos(sticks, dir, hasta, k, k) = <<Trozo(sticks, dir, hasta, k)>>
<1> DEFINE t == Trozo(sticks, dir, hasta, k)
           l == [j \in 1 .. 1 |-> t]
<1>1. k - k + 1 = 1 /\ \A j \in 1 .. 1 : k + j - 1 = k
  OBVIOUS
<1>2. Trozos(sticks, dir, hasta, k, k) = l
  BY <1>1 DEF Trozos
<1> HIDE DEF t
<1>3. l \in [1 .. 1 -> {t}] /\ l[1] = t
  OBVIOUS
<1>4. l \in Seq({t}) /\ Len(l) = 1
  BY <1>3, FuncionEsLista
<1>5. <<t>> \in Seq({t}) /\ Len(<<t>>) = 1 /\ <<t>>[1] = t
  OBVIOUS
<1> HIDE DEF l
<1>6. \A i \in 1 .. Len(l) : l[i] = <<t>>[i]
  BY <1>3, <1>4, <1>5
<1>7. l = <<t>>
  BY <1>4, <1>5, <1>6, SeqEqual
<1>8. QED
  BY <1>2, <1>7 DEF t

\* The arithmetic of one turn.
CuentasDeVuelta(x, z, d, r, dir, hasta, fin, cabe, leo) ==
    /\ dir \in Nat /\ hasta \in Nat /\ fin \in Nat /\ x <= dir /\ dir < fin
    /\ d = (IF dir > x THEN dir - x ELSE 0)
    /\ leo = (IF hasta < fin THEN hasta ELSE fin) - (IF dir > x THEN dir ELSE x)
    /\ cabe >= r => leo = r /\ hasta <= fin /\ (r # 0 => x < hasta)
    /\ ~(cabe >= r) => /\ leo # r /\ fin < hasta /\ r - leo \in Nat
                       /\ r - leo # 0 /\ r - leo <= r
                       /\ fin + 0 = fin /\ fin + (r - leo) = hasta

\* The arithmetic of a turn holds for any numbers it may meet.
LEMMA Cuentas ==
    ASSUME NEW x \in Nat, NEW z \in Nat, NEW d \in Nat, NEW r \in Nat, d < z,
           NEW dir, dir = x + d, NEW hasta, hasta = dir + r, NEW fin, fin = x + z,
           NEW cabe, cabe = z - d, NEW leo, leo = (IF cabe >= r THEN r ELSE cabe)
    PROVE  CuentasDeVuelta(x, z, d, r, dir, hasta, fin, cabe, leo)
  BY DEF CuentasDeVuelta

-----------------------------------------------------------------------------
(* The addresses of a list of pieces.                                      *)

\* The addresses of a range, in order.
Rango(desde, hasta) == [i \in 1 .. hasta - desde |-> desde + i - 1]

\* A piece of a translation: what the message to a stick carries.
Pieza(sticks) == [stick : DOMAIN sticks, desde : Nat, tamanio : Nat \ {0}]

\* a is where each piece begins, and where the last one ends.
Cotas(sticks, l, desde, hasta, a) ==
    /\ a \in [1 .. Len(l) + 1 -> desde .. hasta]
    /\ a[1] = desde /\ a[Len(l) + 1] = hasta
    /\ \A j \in 1 .. Len(l) : /\ sticks[l[j].stick].base + l[j].desde = a[j]
                              /\ a[j + 1] = a[j] + l[j].tamanio

\* The pieces of the list are, one after the other, the bytes from desde to hasta.
Contiguos(sticks, l, desde, hasta) ==
    /\ l \in Seq(Pieza(sticks))
    /\ \E a : Cotas(sticks, l, desde, hasta, a)

\* Two ranges that touch are one.
LEMMA RangoMas ==
    ASSUME NEW x \in Nat, NEW y \in Nat, NEW z \in Nat, x <= y, y <= z
    PROVE  Rango(x, y) \o Rango(y, z) = Rango(x, z)
<1>1. y - x \in Nat /\ z - y \in Nat /\ z - x \in Nat
  OBVIOUS
<1>2. /\ Rango(x, y) \in Seq(Int) /\ Len(Rango(x, y)) = y - x
      /\ \A i \in 1 .. y - x : Rango(x, y)[i] = x + i - 1
  <2>1. Rango(x, y) \in [1 .. y - x -> Int]
    BY DEF Rango
  <2>2. QED
    BY <1>1, <2>1, FuncionEsLista DEF Rango
<1>3. /\ Rango(y, z) \in Seq(Int) /\ Len(Rango(y, z)) = z - y
      /\ \A i \in 1 .. z - y : Rango(y, z)[i] = y + i - 1
  <2>1. Rango(y, z) \in [1 .. z - y -> Int]
    BY DEF Rango
  <2>2. QED
    BY <1>1, <2>1, FuncionEsLista DEF Rango
<1>4. /\ Rango(x, z) \in Seq(Int) /\ Len(Rango(x, z)) = z - x
      /\ \A i \in 1 .. z - x : Rango(x, z)[i] = x + i - 1
  <2>1. Rango(x, z) \in [1 .. z - x -> Int]
    BY DEF Rango
  <2>2. QED
    BY <1>1, <2>1, FuncionEsLista DEF Rango
<1> DEFINE c == Rango(x, y) \o Rango(y, z)
<1>5. /\ c \in Seq(Int) /\ Len(c) = Len(Rango(x, y)) + Len(Rango(y, z))
      /\ \A i \in 1 .. Len(Rango(x, y)) + Len(Rango(y, z)) :
             c[i] = IF i <= Len(Rango(x, y)) THEN Rango(x, y)[i] ELSE Rango(y, z)[i - Len(Rango(x, y))]
  BY <1>2, <1>3, ConcatProperties
<1> HIDE DEF c
<1>6. Len(c) = z - x
  BY <1>2, <1>3, <1>5
<1>7. ASSUME NEW i \in 1 .. z - x PROVE c[i] = x + i - 1
  <2>1. CASE i <= y - x
    BY <1>2, <1>3, <1>5, <2>1
  <2>2. CASE ~(i <= y - x)
    <3>1. i - (y - x) \in 1 .. z - y
      BY <2>2
    <3>2. Rango(y, z)[i - (y - x)] = y + (i - (y - x)) - 1
      BY <1>3, <3>1
    <3>3. QED
      BY <1>2, <1>3, <1>5, <2>2, <3>2
  <2>3. QED
    BY <2>1, <2>2
<1>8. c = Rango(x, z)
  BY <1>4, <1>5, <1>6, <1>7, SeqEqual
<1>9. QED
  BY <1>8 DEF c

\* What is contiguous begins before it ends, and is empty only if the range is.
LEMMA ContiguosTipo ==
    ASSUME NEW sticks, NEW l, NEW desde \in Nat, NEW hasta \in Nat,
           Contiguos(sticks, l, desde, hasta)
    PROVE  /\ l \in Seq(Pieza(sticks)) /\ desde <= hasta
           /\ l = <<>> <=> desde = hasta
<1>1. PICK a : Cotas(sticks, l, desde, hasta, a)
  BY DEF Contiguos
<1>2. /\ l \in Seq(Pieza(sticks)) /\ Len(l) \in Nat
      /\ \A j \in 1 .. Len(l) : l[j].tamanio \in Nat \ {0}
  <2>1. l \in Seq(Pieza(sticks))
    BY DEF Contiguos
  <2>2. Len(l) \in Nat /\ \A j \in 1 .. Len(l) : l[j] \in Pieza(sticks)
    BY <2>1, ElementOfSeq, LenProperties
  <2>3. \A x \in Pieza(sticks) : x.tamanio \in Nat \ {0}
    BY DEF Pieza
  <2>4. QED
    BY <2>1, <2>2, <2>3
<1>3. /\ \A j \in 1 .. Len(l) + 1 : a[j] \in Nat /\ desde <= a[j] /\ a[j] <= hasta
      /\ a[1] = desde /\ a[Len(l) + 1] = hasta
      /\ \A j \in 1 .. Len(l) : a[j + 1] = a[j] + l[j].tamanio
  <2>1. a \in [1 .. Len(l) + 1 -> desde .. hasta]
    BY <1>1 DEF Cotas
  <2>2. \A j \in 1 .. Len(l) + 1 : a[j] \in desde .. hasta
    BY <2>1
  <2>3. QED
    BY <1>1, <2>2 DEF Cotas
<1>4. desde <= hasta
  BY <1>2, <1>3
<1>5. CASE l = <<>>
  <2>1. Len(l) = 0
    BY <1>2, <1>5, EmptySeq
  <2>2. QED
    BY <1>2, <1>3, <1>4, <1>5, <2>1
<1>6. CASE l # <<>>
  <2>1. Len(l) # 0
    BY <1>2, <1>6, EmptySeq
  <2>2. 1 \in 1 .. Len(l) /\ 2 \in 1 .. Len(l) + 1
    BY <1>2, <2>1
  <2>3. a[1 + 1] = a[1] + l[1].tamanio /\ a[2] <= hasta
    BY <1>3, <2>2
  <2>4. QED
    BY <1>2, <1>3, <1>4, <1>6, <2>2, <2>3
<1>7. QED
  BY <1>5, <1>6

\* The first piece and the rest.
LEMMA ContiguosCabeza ==
    ASSUME NEW sticks, NEW l, NEW desde \in Nat, NEW hasta \in Nat,
           Contiguos(sticks, l, desde, hasta), l # <<>>
    PROVE  /\ Head(l) \in Pieza(sticks)
           /\ Head(l).tamanio \in Nat \ {0} /\ desde + Head(l).tamanio <= hasta
           /\ Contiguos(sticks, <<Head(l)>>, desde, desde + Head(l).tamanio)
           /\ Contiguos(sticks, Tail(l), desde + Head(l).tamanio, hasta)
<1>1. PICK a : Cotas(sticks, l, desde, hasta, a)
  BY DEF Contiguos
<1>2. /\ l \in Seq(Pieza(sticks)) /\ Len(l) \in Nat
      /\ \A j \in 1 .. Len(l) : l[j].tamanio \in Nat \ {0}
  <2>1. l \in Seq(Pieza(sticks))
    BY DEF Contiguos
  <2>2. Len(l) \in Nat /\ \A j \in 1 .. Len(l) : l[j] \in Pieza(sticks)
    BY <2>1, ElementOfSeq, LenProperties
  <2>3. \A x \in Pieza(sticks) : x.tamanio \in Nat \ {0}
    BY DEF Pieza
  <2>4. QED
    BY <2>1, <2>2, <2>3
<1>3. Len(l) # 0
  BY <1>2, EmptySeq
<1>4. /\ Head(l) \in Pieza(sticks) /\ Tail(l) \in Seq(Pieza(sticks))
      /\ Len(Tail(l)) = Len(l) - 1
      /\ \A i \in 1 .. Len(l) - 1 : Tail(l)[i] = l[i + 1]
      /\ Head(l) = l[1]
  BY <1>2, HeadTailProperties
<1>5. /\ \A j \in 1 .. Len(l) + 1 : a[j] \in Nat /\ desde <= a[j] /\ a[j] <= hasta
      /\ a[1] = desde /\ a[Len(l) + 1] = hasta
      /\ \A j \in 1 .. Len(l) : /\ sticks[l[j].stick].base + l[j].desde = a[j]
                               /\ a[j + 1] = a[j] + l[j].tamanio
  BY <1>1, <1>2 DEF Cotas
<1> DEFINE n == Head(l).tamanio
           medio == desde + n
<1>6. n \in Nat \ {0} /\ medio = a[2] /\ medio \in Nat /\ medio <= hasta
  <2>1. 1 \in 1 .. Len(l) /\ 2 \in 1 .. Len(l) + 1
    BY <1>2, <1>3
  <2>2. a[1 + 1] = a[1] + l[1].tamanio
    BY <1>5, <2>1
  <2>3. QED
    BY <1>2, <1>4, <1>5, <2>1, <2>2
<1>7. Contiguos(sticks, <<Head(l)>>, desde, medio)
  <2> DEFINE b == [i \in 1 .. 2 |-> IF i = 1 THEN desde ELSE medio]
             u == <<Head(l)>>
  <2>1. /\ u \in Seq(Pieza(sticks)) /\ Len(u) = 1 /\ u[1] = l[1]
    BY <1>4
  <2> HIDE DEF u
  <2>2. sticks[l[1].stick].base + l[1].desde = desde /\ medio = desde + l[1].tamanio
    BY <1>2, <1>3, <1>4, <1>5
  <2>3. b \in [1 .. 2 -> desde .. medio] /\ b[1] = desde /\ b[2] = medio
    BY <1>6
  <2> HIDE DEF b, medio
  <2>4. Cotas(sticks, u, desde, medio, b)
    BY <2>1, <2>2, <2>3 DEF Cotas
  <2>5. QED
    BY <2>1, <2>4 DEF Contiguos, u
<1>8. Contiguos(sticks, Tail(l), medio, hasta)
  <2> DEFINE b == [i \in 1 .. Len(l) |-> a[i + 1]]
             u == Tail(l)
  <2> HIDE DEF medio
  <2>1. \A i \in 1 .. Len(l) : i + 1 \in 1 .. Len(l) + 1
    BY <1>2
  <2>2. \A i \in 1 .. Len(l) : a[i + 1] >= medio
    <3> DEFINE cortos == {i \in 1 .. Len(l) : ~(a[i + 1] >= medio)}
    <3>1. SUFFICES ASSUME cortos # {} PROVE FALSE
      OBVIOUS
    <3>2. cortos \in SUBSET Nat
      BY <1>2
    <3>3. PICK i \in cortos : \A j \in cortos : i <= j
      <4> HIDE DEF cortos
      <4> QED BY <3>1, <3>2, HayPrimero
    <3>4. i \in 1 .. Len(l) /\ ~(a[i + 1] >= medio)
      OBVIOUS
    <3>5. CASE i = 1
      BY <1>6, <3>4, <3>5
    <3>6. CASE i # 1
      <4>1. i - 1 \in 1 .. Len(l) /\ ~(i <= i - 1) /\ (i - 1) + 1 = i
        BY <1>2, <3>4, <3>6
      <4>2. a[i] >= medio
        BY <3>3, <4>1
      <4>3. a[i + 1] = a[i] + l[i].tamanio /\ l[i].tamanio \in Nat /\ a[i] \in Nat
        BY <1>2, <1>5, <3>4
      <4>4. QED
        BY <1>6, <3>4, <4>2, <4>3
    <3>7. QED
      BY <3>5, <3>6
  <2>3. /\ b \in [1 .. Len(l) -> medio .. hasta]
        /\ \A i \in 1 .. Len(l) : b[i] = a[i + 1]
    BY <1>5, <1>6, <2>1, <2>2
  <2> HIDE DEF b
  <2>4. u \in Seq(Pieza(sticks)) /\ Len(u) + 1 = Len(l)
    BY <1>2, <1>4
  <2>5. \A j \in 1 .. Len(u) : u[j] = l[j + 1]
    BY <1>2, <1>4
  <2> HIDE DEF u
  <2>6. b[1] = medio /\ b[Len(u) + 1] = hasta
    BY <1>2, <1>3, <1>5, <1>6, <2>3, <2>4
  <2>7. ASSUME NEW j \in 1 .. Len(u)
        PROVE  sticks[u[j].stick].base + u[j].desde = b[j] /\ b[j + 1] = b[j] + u[j].tamanio
    <3>1. j \in 1 .. Len(l) /\ j + 1 \in 1 .. Len(l)
      BY <1>2, <2>4
    <3>2. QED
      BY <1>5, <2>3, <2>5, <3>1
  <2>8. Cotas(sticks, u, medio, hasta, b)
    BY <2>3, <2>4, <2>6, <2>7 DEF Cotas
  <2>9. QED
    BY <2>4, <2>8 DEF Contiguos, u
<1>9. QED
  BY <1>4, <1>6, <1>7, <1>8

\* One more stick at the end of the list moves nothing.
LEMMA ContiguosMas ==
    ASSUME NEW sticks, NEW total, SticksBien(sticks, total), NEW nuevo \in [base : Nat, size : Nat \ {0}],
           NEW l, NEW desde \in Nat, NEW hasta \in Nat, Contiguos(sticks, l, desde, hasta)
    PROVE  Contiguos(Append(sticks, nuevo), l, desde, hasta)
<1> DEFINE mas == Append(sticks, nuevo)
<1>1. /\ DOMAIN sticks = 1 .. Len(sticks) /\ Len(sticks) \in Nat
      /\ DOMAIN mas = 1 .. Len(sticks) + 1 /\ \A k \in 1 .. Len(sticks) : mas[k] = sticks[k]
  BY AppendProperties, LenProperties DEF SticksBien
<1> HIDE DEF mas
<1>2. DOMAIN sticks \subseteq DOMAIN mas /\ \A k \in DOMAIN sticks : mas[k] = sticks[k]
  BY <1>1
<1>3. PICK a : Cotas(sticks, l, desde, hasta, a)
  BY DEF Contiguos
<1>4. /\ l \in Seq(Pieza(sticks)) /\ Len(l) \in Nat /\ DOMAIN l = 1 .. Len(l)
      /\ \A j \in 1 .. Len(l) : l[j] \in Pieza(sticks)
  BY ElementOfSeq, LenProperties DEF Contiguos
<1>5. \A j \in 1 .. Len(l) : l[j] \in Pieza(mas) /\ l[j].stick \in DOMAIN sticks
  BY <1>2, <1>4 DEF Pieza
<1>6. l \in Seq(Pieza(mas))
  <2>1. l \in [1 .. Len(l) -> Pieza(mas)]
    <3>1. l = [j \in 1 .. Len(l) |-> l[j]]
      BY <1>4
    <3>2. QED
      BY <1>5, <3>1
  <2>2. QED
    BY <1>4, <2>1, FuncionEsLista
<1>7. Cotas(mas, l, desde, hasta, a)
  BY <1>2, <1>3, <1>5 DEF Cotas
<1>8. QED
  BY <1>6, <1>7 DEF Contiguos, mas

\* The arithmetic of the j-th stick from the k-th to the m-th.
LEMMA Indices ==
    ASSUME NEW k \in Nat, NEW m \in Nat, NEW n \in Nat, 1 <= k, k <= m, m <= n,
           NEW j \in 1 .. m - k + 1
    PROVE  /\ k + j - 1 \in 1 .. n /\ (j = 1 => k + j - 1 = k)
           /\ (j = m - k + 1 => k + j - 1 = m) /\ (j # 1 => k < k + j - 1)
           /\ (j # m - k + 1 => k + j - 1 < m /\ k + (j + 1) - 1 = (k + j - 1) + 1)
  OBVIOUS

\* What the loop cuts is contiguous.
LEMMA TrozosContiguos ==
    ASSUME NEW sticks, NEW total, SticksBien(sticks, total),
           NEW dir \in Nat, NEW hasta \in Nat, dir < hasta,
           NEW k \in DOMAIN sticks, sticks[k].base <= dir, dir < FinStick(sticks, k),
           NEW m \in DOMAIN sticks, sticks[m].base < hasta, hasta <= FinStick(sticks, m)
    PROVE  Contiguos(sticks, Trozos(sticks, dir, hasta, k, m), dir, hasta)
<1> DEFINE n == m - k + 1
           l == Trozos(sticks, dir, hasta, k, m)
           a == [j \in 1 .. n + 1 |-> IF j = 1 THEN dir ELSE IF j = n + 1 THEN hasta
                                      ELSE sticks[k + j - 1].base]
<1>1. /\ k \in Nat /\ m \in Nat /\ DOMAIN sticks = 1 .. Len(sticks) /\ Len(sticks) \in Nat
      /\ \A j \in DOMAIN sticks : /\ sticks[j].base \in Nat /\ FinStick(sticks, j) \in Nat
                                  /\ sticks[j].base < FinStick(sticks, j)
      /\ \A i, j \in DOMAIN sticks : i < j => FinStick(sticks, i) <= sticks[j].base
  BY SticksTipo
<1>2. k <= m
  <2>1. m < k => FinStick(sticks, m) <= sticks[k].base
    BY <1>1
  <2>2. QED
    BY <1>1, <2>1
<1>3. n \in Nat /\ n >= 1
  BY <1>1, <1>2
<1>4. /\ a[1] = dir /\ a[n + 1] = hasta
      /\ \A j \in 2 .. n : a[j] = sticks[k + j - 1].base
  BY <1>3
<1> DEFINE q(j) == k + j - 1
<1>5. \A j \in 1 .. n : q(j) \in DOMAIN sticks /\ (j = 1 => q(j) = k) /\ (j = n => q(j) = m)
                       /\ (j # 1 => k < q(j)) /\ (j # n => q(j) < m /\ q(j + 1) = q(j) + 1)
  <2>1. 1 <= k /\ m <= Len(sticks)
    BY <1>1
  <2>2. SUFFICES ASSUME NEW j \in 1 .. m - k + 1
                 PROVE  /\ k + j - 1 \in 1 .. Len(sticks) /\ (j = 1 => k + j - 1 = k)
                        /\ (j = m - k + 1 => k + j - 1 = m) /\ (j # 1 => k < k + j - 1)
                        /\ (j # m - k + 1 => k + j - 1 < m /\ k + (j + 1) - 1 = (k + j - 1) + 1)
    BY <1>1
  <2>3. Len(sticks) \in Nat /\ k \in Nat /\ m \in Nat
    BY <1>1
  <2>4. QED
    BY <1>2, <2>1, <2>3, Indices
<1>6. \A j \in 2 .. n : /\ a[j] = sticks[q(j)].base /\ a[j] \in dir .. hasta
                        /\ dir < a[j] /\ a[j] < hasta
  <2>1. SUFFICES ASSUME NEW j \in 2 .. n
                 PROVE  a[j] = sticks[q(j)].base /\ dir < sticks[q(j)].base /\ sticks[q(j)].base < hasta
    <3>1. \A j \in 2 .. n : sticks[q(j)].base \in Nat
      BY <1>1, <1>3, <1>5
    <3> HIDE DEF a, q, n
    <3>2. QED
      BY <3>1
  <2>2. j \in 1 .. n /\ j # 1
    BY <1>3
  <2>3. a[j] = sticks[q(j)].base
    BY <1>4
  <2> HIDE DEF a, q
  <2>4. q(j) \in DOMAIN sticks /\ k < q(j) /\ (q(j) # m => q(j) < m)
    BY <1>5, <2>2
  <2>5. FinStick(sticks, k) <= sticks[q(j)].base
    BY <1>1, <2>4
  <2>6. q(j) < m => FinStick(sticks, q(j)) <= sticks[m].base
    BY <1>1, <2>4
  <2>7. QED
    BY <1>1, <2>3, <2>4, <2>5, <2>6
<1>7. a \in [1 .. n + 1 -> dir .. hasta]
  <2>1. \A j \in 1 .. n + 1 : a[j] \in dir .. hasta
    <3>1. \A j \in 1 .. n + 1 : j = 1 \/ j = n + 1 \/ j \in 2 .. n
      BY <1>3
    <3>2. dir \in dir .. hasta /\ hasta \in dir .. hasta
      OBVIOUS
    <3> HIDE DEF a, n
    <3>3. QED
      BY <1>4, <1>6, <3>1, <3>2
  <2>2. a = [j \in 1 .. n + 1 |-> a[j]]
    OBVIOUS
  <2> HIDE DEF a, n
  <2>3. QED
    BY <2>1, <2>2
<1>8. l = [j \in 1 .. n |-> Trozo(sticks, dir, hasta, q(j))]
  BY DEF Trozos
<1> HIDE DEF l
<1>9. ASSUME NEW j \in 1 .. n
      PROVE  /\ l[j] \in Pieza(sticks)
             /\ sticks[l[j].stick].base + l[j].desde = a[j]
             /\ a[j + 1] = a[j] + l[j].tamanio
  <2> DEFINE s == q(j)
  <2>1. l[j] = Trozo(sticks, dir, hasta, s)
    BY <1>8
  <2>2. s \in DOMAIN sticks /\ sticks[s].base \in Nat /\ FinStick(sticks, s) \in Nat
    BY <1>1, <1>5
  <2>3. /\ j = 1 => s = k
        /\ j # 1 => a[j] = sticks[s].base /\ dir < a[j]
        /\ a[j] = (IF dir > sticks[s].base THEN dir ELSE sticks[s].base)
        /\ sticks[s].base + (IF dir > sticks[s].base THEN dir - sticks[s].base ELSE 0) = a[j]
        /\ a[j] \in Nat
    <3>1. CASE j = 1
      <4>1. s = k /\ a[j] = dir
        BY <1>4, <1>5, <3>1
      <4> HIDE DEF s, a
      <4>2. QED
        BY <2>2, <3>1, <4>1
    <3>2. CASE j # 1
      <4>1. j \in 2 .. n
        BY <1>3, <3>2
      <4>2. a[j] = sticks[s].base /\ dir < a[j]
        BY <1>6, <4>1
      <4> HIDE DEF s, a
      <4>3. QED
        BY <2>2, <3>2, <4>2
    <3>3. QED
      BY <3>1, <3>2
  <2>4. a[j + 1] = (IF hasta < FinStick(sticks, s) THEN hasta ELSE FinStick(sticks, s))
    <3>1. CASE j = n
      <4>1. s = m /\ a[j + 1] = hasta
        BY <1>4, <1>5, <3>1
      <4> HIDE DEF s, a
      <4>2. QED
        BY <2>2, <4>1
    <3>2. CASE j # n
      <4>1. j + 1 \in 2 .. n /\ s < m /\ q(j + 1) = s + 1
        BY <1>3, <1>5, <3>2
      <4>2. a[j + 1] = sticks[q(j + 1)].base /\ a[j + 1] < hasta
        BY <1>6, <4>1, Zenon
      <4> HIDE DEF s, a, q
      <4>3. s # Len(sticks)
        BY <1>1, <2>2, <4>1
      <4>4. FinStick(sticks, s) = sticks[s + 1].base
        BY <2>2, <4>3 DEF SticksBien
      <4>5. QED
        BY <2>2, <4>1, <4>2, <4>4
    <3>3. QED
      BY <3>1, <3>2
  <2>5. a[j] < a[j + 1]
    <3>1. a[j] < hasta /\ a[j] < FinStick(sticks, s)
      <4>1. CASE j = 1
        <5>1. s = k /\ a[j] = dir
          BY <1>4, <1>5, <4>1
        <5> HIDE DEF s, a
        <5>2. QED
          BY <5>1
      <4>2. CASE j # 1
        <5>1. j \in 2 .. n
          BY <1>3, <4>2
        <5>2. a[j] = sticks[s].base /\ a[j] < hasta
          BY <1>6, <5>1
        <5>3. sticks[s].base < FinStick(sticks, s)
          BY <1>1, <2>2
        <5> HIDE DEF s, a
        <5>4. QED
          BY <5>2, <5>3
      <4>3. QED
        BY <4>1, <4>2
    <3> HIDE DEF s, a
    <3>2. QED
      BY <2>2, <2>4, <3>1
  <2> HIDE DEF s, a, q
  <2>6. /\ l[j].stick = s
        /\ l[j].desde = (IF dir > sticks[s].base THEN dir - sticks[s].base ELSE 0)
        /\ l[j].tamanio = a[j + 1] - a[j]
        /\ l[j] = [stick |-> l[j].stick, desde |-> l[j].desde, tamanio |-> l[j].tamanio]
    BY <2>1, <2>3, <2>4 DEF Trozo
  <2>7. a[j + 1] \in Nat
    BY <2>2, <2>4
  <2>8. l[j].desde \in Nat /\ l[j].tamanio \in Nat \ {0} /\ a[j + 1] = a[j] + l[j].tamanio
    BY <2>2, <2>3, <2>5, <2>6, <2>7
  <2>9. l[j] \in Pieza(sticks)
    BY <2>2, <2>6, <2>8 DEF Pieza
  <2>10. QED
    BY <2>3, <2>6, <2>8, <2>9
<1>10. l \in Seq(Pieza(sticks)) /\ Len(l) = n
  <2> HIDE DEF a
  <2>1. l \in [1 .. n -> Pieza(sticks)]
    <3>1. l = [j \in 1 .. n |-> l[j]]
      BY <1>8
    <3> HIDE DEF n
    <3>2. QED
      BY <1>9, <3>1
  <2>2. QED
    BY <1>3, <2>1, FuncionEsLista
<1> HIDE DEF a, n, q
<1>11. Cotas(sticks, l, dir, hasta, a)
  BY <1>4, <1>7, <1>9, <1>10 DEF Cotas
<1>12. QED
  BY <1>10, <1>11 DEF Contiguos, l

\* One list, contiguous, for a range that ends inside the memory; none past the end.
LEMMA CortesDan ==
    ASSUME NEW sticks, NEW total, SticksBien(sticks, total), NEW dir \in Nat,
           NEW tamanio \in Nat \ {0}, NEW k \in DOMAIN sticks,
           sticks[k].base <= dir, dir < FinStick(sticks, k)
    PROVE  /\ dir + tamanio <= total =>
                \E l : /\ Cortes(sticks, k, dir, tamanio) = {l}
                      /\ Contiguos(sticks, l, dir, dir + tamanio)
           /\ ~(dir + tamanio <= total) => Cortes(sticks, k, dir, tamanio) = {}
<1> DEFINE hasta == dir + tamanio
           U == Ultimos(sticks, hasta)
<1>1. hasta \in Nat /\ dir < hasta /\ 0 < hasta /\ total \in Nat
  BY SticksTipo
<1>2. Cortes(sticks, k, dir, tamanio) = {Trozos(sticks, dir, hasta, k, m) : m \in U}
  BY DEF Cortes
<1>3. hasta = dir + tamanio
  OBVIOUS
<1> HIDE DEF hasta
<1>4. ASSUME hasta <= total
      PROVE  \E l : /\ Cortes(sticks, k, dir, tamanio) = {l}
                    /\ Contiguos(sticks, l, dir, hasta)
  <2>1. U # {}
    BY <1>1, <1>4, UltimoTipo
  <2>2. PICK m \in U : TRUE
    BY <2>1
  <2>3. m \in DOMAIN sticks /\ sticks[m].base < hasta /\ hasta <= FinStick(sticks, m)
    BY DEF Ultimos
  <2>4. U = {m}
    BY <1>1, <2>3, UltimoTipo
  <2>5. Contiguos(sticks, Trozos(sticks, dir, hasta, k, m), dir, hasta)
    BY <1>1, <2>3, TrozosContiguos
  <2>6. Cortes(sticks, k, dir, tamanio) = {Trozos(sticks, dir, hasta, k, m)}
    BY <1>2, <2>4
  <2>7. QED
    BY <2>5, <2>6
<1>5. ASSUME ~(hasta <= total) PROVE Cortes(sticks, k, dir, tamanio) = {}
  <2>1. U = {}
    BY <1>1, <1>5, UltimoTipo
  <2>2. QED
    BY <1>2, <2>1
<1>6. QED
  BY <1>3, <1>4, <1>5

\* The arithmetic of a range.
LEMMA Restas ==
    ASSUME NEW x \in Nat, NEW y \in Nat, x <= y
    PROVE  /\ y - x \in Nat
           /\ \A i \in 1 .. y - x : x + i - 1 \in Nat /\ x <= x + i - 1 /\ x + i - 1 < y
           /\ \A d \in Nat : x <= d /\ d < y => d - x + 1 \in 1 .. y - x /\ x + (d - x + 1) - 1 = d
           /\ \A i \in 1 .. y - x : x + i - 1 - x + 1 = i
  OBVIOUS

\* The addresses of a range are as many as its bytes.
LEMMA RangoTipo ==
    ASSUME NEW x \in Nat, NEW y \in Nat, x <= y
    PROVE  /\ Rango(x, y) \in Seq(Nat) /\ Len(Rango(x, y)) = y - x /\ DOMAIN Rango(x, y) = 1 .. y - x
           /\ \A i \in 1 .. y - x : Rango(x, y)[i] = x + i - 1
<1>1. Rango(x, y) \in [1 .. y - x -> Nat]
  BY Restas DEF Rango
<1>2. y - x \in Nat
  OBVIOUS
<1>3. QED
  BY <1>1, <1>2, FuncionEsLista DEF Rango
=============================================================================
