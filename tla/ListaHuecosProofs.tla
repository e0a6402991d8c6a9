------------------------- MODULE ListaHuecosProofs -------------------------
(***************************************************************************)
(* The list of holes of segmentacion.c against the set of holes that       *)
(* Segmentacion uses and the set of free addresses of BytesLibres.         *)
(*                                                                         *)
(* First what the loops of encontrar_hueco compute: their fold over the    *)
(* list, known through what it holds after each set of positions.  Then    *)
(* what cutting, inserting and fusing do to a list in order of base.  Then *)
(* the invariant, and what follows from it.                                *)
(***************************************************************************)
EXTENDS ListaHuecos, DireccionesProofs

-----------------------------------------------------------------------------
(* The scans of encontrar_hueco.                                           *)

\* A set of positions of a list has a last one.
LEMMA HayUltimo ==
    ASSUME NEW n \in Nat, NEW T \in SUBSET (1 .. n), T # {}
    PROVE  Max(T) \in T /\ \A j \in T : j <= Max(T)
<1> DEFINE U == {n - j : j \in T}
<1>0. \A j \in T : j \in Nat /\ n - j \in Nat
  OBVIOUS
<1>1. U \in SUBSET Nat /\ U # {}
  BY <1>0
<1>2. Min(U) \in U /\ \A u \in U : Min(U) <= u
  <2> HIDE DEF U
  <2> QED BY <1>1, HayPrimero
<1>3. PICK i \in T : Min(U) = n - i
  BY <1>2
<1>4. ASSUME NEW j \in T PROVE j <= i
  <2>1. n - i <= n - j
    BY <1>2, <1>3
  <2>2. QED
    BY <1>0, <2>1
<1>5. \E x \in T : \A y \in T : x >= y
  BY <1>4
<1>6. QED
  BY <1>5 DEF Max

\* A hole better than another, for a strategy.
Mejor(estrategia, h, m) ==
    IF estrategia = "BEST" THEN h.limite < m.limite ELSE h.limite > m.limite

\* One turn of the loop: mejor (or peor) after looking at h.
Mirar(estrategia, tamanio, mejor, h) ==
    IF h.limite >= tamanio /\ \A m \in mejor : Mejor(estrategia, h, m) THEN {h} ELSE mejor

\* What mejor is after the positions of s, in a function of them.
Vuelta(estrategia, lista, tamanio, s, g) ==
    IF s = {} THEN {}
    ELSE Mirar(estrategia, tamanio, g[s \ {Max(s)}], lista[Max(s)])

EsBarrido(estrategia, lista, tamanio, g) ==
    g = [s \in SUBSET DOMAIN lista |-> Vuelta(estrategia, lista, tamanio, s, g)]

\* The first of the best holes among the positions of s.
Ganadores(estrategia, lista, tamanio, s) ==
    {i \in s : /\ lista[i].limite >= tamanio
               /\ \A j \in s : lista[j].limite >= tamanio =>
                     \/ Mejor(estrategia, lista[i], lista[j])
                     \/ lista[i].limite = lista[j].limite /\ i <= j}

Mejores(estrategia, lista, tamanio, s) ==
    {lista[i] : i \in Ganadores(estrategia, lista, tamanio, s)}

\* No hole of the list is greater than this.
Acotada(lista, cota) == \A i \in DOMAIN lista : lista[i].limite <= cota

LEMMA HayGanador ==
    ASSUME NEW estrategia, NEW lista \in Seq(Hueco), NEW tamanio \in Nat, NEW cota \in Nat,
           Acotada(lista, cota),
           NEW s \in SUBSET DOMAIN lista, NEW i \in s, lista[i].limite >= tamanio
    PROVE  Ganadores(estrategia, lista, tamanio, s) # {}
<1> DEFINE clave(j) == IF estrategia = "BEST" THEN lista[j].limite ELSE cota - lista[j].limite
           caben == {j \in s : lista[j].limite >= tamanio}
           claves == {clave(j) : j \in caben}
           ganan == {j \in caben : clave(j) = Min(claves)}
<1>1. \A j \in DOMAIN lista : j \in Nat /\ lista[j].limite \in Nat /\ lista[j].limite <= cota
  <2>1. DOMAIN lista = 1 .. Len(lista) /\ \A j \in 1 .. Len(lista) : lista[j] \in Hueco
    BY ElementOfSeq
  <2>2. QED
    BY <2>1 DEF Hueco, Acotada
<1>2. \A j \in caben : clave(j) \in Nat
  BY <1>1
<1>3. claves \in SUBSET Nat /\ claves # {}
  BY <1>2
<1>4. Min(claves) \in claves /\ \A c \in claves : Min(claves) <= c
  <2> HIDE DEF claves
  <2> QED BY <1>3, HayPrimero
<1>5. ganan # {} /\ ganan \in SUBSET Nat
  BY <1>1, <1>4
<1>6. Min(ganan) \in ganan /\ \A j \in ganan : Min(ganan) <= j
  <2> HIDE DEF ganan
  <2> QED BY <1>5, HayPrimero
<1>7. PICK k \in ganan : \A j \in ganan : k <= j
  BY <1>6
<1>8. \A j \in caben : clave(k) <= clave(j) /\ (clave(k) = clave(j) => k <= j)
  BY <1>4, <1>7
<1>9. \A j \in s : lista[j].limite >= tamanio =>
         \/ Mejor(estrategia, lista[k], lista[j])
         \/ lista[k].limite = lista[j].limite /\ k <= j
  <2>1. SUFFICES ASSUME NEW j \in s, lista[j].limite >= tamanio
                 PROVE  \/ Mejor(estrategia, lista[k], lista[j])
                        \/ lista[k].limite = lista[j].limite /\ k <= j
    OBVIOUS
  <2>2. j \in caben /\ j \in DOMAIN lista /\ k \in DOMAIN lista
    BY <2>1
  <2>3. clave(k) <= clave(j) /\ (clave(k) = clave(j) => k <= j)
    BY <1>8, <2>2
  <2>4. QED
    BY <1>1, <2>2, <2>3 DEF Mejor
<1>10. QED
  BY <1>7, <1>9 DEF Ganadores

\* One turn more of the loop.
LEMMA UnaVuelta ==
    ASSUME NEW estrategia, NEW lista \in Seq(Hueco), NEW tamanio \in Nat, NEW cota \in Nat,
           Acotada(lista, cota),
           NEW s \in SUBSET DOMAIN lista, NEW x \in s, \A j \in s : j <= x
    PROVE  Mejores(estrategia, lista, tamanio, s) =
               Mirar(estrategia, tamanio, Mejores(estrategia, lista, tamanio, s \ {x}), lista[x])
<1> USE DEF Mejores
<1> DEFINE G(t) == Ganadores(estrategia, lista, tamanio, t)
           r == s \ {x}
           antes == {lista[i] : i \in G(r)}
<1>1. \A j \in DOMAIN lista : j \in Nat /\ lista[j].limite \in Nat
  <2>1. DOMAIN lista = 1 .. Len(lista) /\ \A j \in 1 .. Len(lista) : lista[j] \in Hueco
    BY ElementOfSeq
  <2>2. QED
    BY <2>1 DEF Hueco
<1>2. \A j \in s : j \in DOMAIN lista /\ j \in Nat /\ lista[j].limite \in Nat
  BY <1>1
<1>3. CASE ~(lista[x].limite >= tamanio)
  <2>1. G(s) = G(r)
    BY <1>3 DEF Ganadores
  <2>2. QED
    BY <1>3, <2>1 DEF Mirar
<1>4. CASE lista[x].limite >= tamanio /\ \A m \in antes : Mejor(estrategia, lista[x], m)
  <2>1. \A j \in r : lista[j].limite >= tamanio => Mejor(estrategia, lista[x], lista[j])
    <3>1. SUFFICES ASSUME NEW j \in r, lista[j].limite >= tamanio
                   PROVE  Mejor(estrategia, lista[x], lista[j])
      OBVIOUS
    <3>2. r \in SUBSET DOMAIN lista
      OBVIOUS
    <3>3. G(r) # {}
      <4> HIDE DEF r
      <4> QED BY <3>1, <3>2, HayGanador
    <3>4. PICK i \in G(r) : TRUE
      BY <3>3
    <3>5. /\ i \in s /\ Mejor(estrategia, lista[x], lista[i])
          /\ Mejor(estrategia, lista[i], lista[j]) \/ lista[i].limite = lista[j].limite
      BY <1>4, <3>1, <3>4 DEF Ganadores
    <3>6. QED
      BY <1>2, <3>1, <3>5 DEF Mejor
  <2>2. \A i \in r : i \notin G(s)
    <3>1. SUFFICES ASSUME NEW i \in r, i \in G(s) PROVE FALSE
      OBVIOUS
    <3>2. /\ lista[i].limite >= tamanio
          /\ Mejor(estrategia, lista[i], lista[x]) \/ lista[i].limite = lista[x].limite
      BY <1>4, <3>1 DEF Ganadores
    <3>3. Mejor(estrategia, lista[x], lista[i])
      BY <2>1, <3>2
    <3>4. QED
      BY <1>2, <3>2, <3>3 DEF Mejor
  <2>3. x \in G(s)
    BY <1>2, <1>4, <2>1 DEF Ganadores
  <2>4. G(s) = {x}
    <3>1. G(s) \subseteq s
      BY DEF Ganadores
    <3>2. QED
      BY <2>2, <2>3, <3>1
  <2>5. QED
    BY <1>4, <2>4 DEF Mirar
<1>5. CASE lista[x].limite >= tamanio /\ ~(\A m \in antes : Mejor(estrategia, lista[x], m))
  <2>1. PICK i \in G(r) : ~Mejor(estrategia, lista[x], lista[i])
    BY <1>5
  <2>2. \/ Mejor(estrategia, lista[i], lista[x])
        \/ lista[i].limite = lista[x].limite /\ i <= x
    BY <1>2, <2>1 DEF Mejor, Ganadores
  <2>3. x \notin G(s)
    <3>1. SUFFICES ASSUME x \in G(s) PROVE FALSE
      OBVIOUS
    <3>2. i \in s /\ i # x /\ lista[i].limite >= tamanio
      BY <2>1 DEF Ganadores
    <3>3. \/ Mejor(estrategia, lista[x], lista[i])
          \/ lista[x].limite = lista[i].limite /\ x <= i
      BY <3>1, <3>2 DEF Ganadores
    <3>4. QED
      BY <1>2, <2>1, <3>2, <3>3
  <2>4. ASSUME NEW k \in G(r)
        PROVE  k \in G(s)
    <3>1. k \in r /\ lista[k].limite >= tamanio /\ i \in r /\ lista[i].limite >= tamanio
      BY <2>1, <2>4 DEF Ganadores
    <3>2. \/ Mejor(estrategia, lista[k], lista[i])
          \/ lista[k].limite = lista[i].limite /\ k <= i
      BY <2>4, <3>1 DEF Ganadores
    <3>3. \/ Mejor(estrategia, lista[k], lista[x])
          \/ lista[k].limite = lista[x].limite /\ k <= x
      BY <1>2, <2>2, <3>1, <3>2 DEF Mejor
    <3>4. QED
      BY <2>4, <3>1, <3>3 DEF Ganadores
  <2>5. \A k \in G(s) : k # x => k \in G(r)
    BY DEF Ganadores
  <2>6. G(s) = G(r)
    BY <2>3, <2>4, <2>5
  <2>7. QED
    BY <1>5, <2>6 DEF Mirar
<1>6. QED
  BY <1>3, <1>4, <1>5

\* A loop that has a function for what it keeps ends with the first of the best.
LEMMA BarridoUnico ==
    ASSUME NEW estrategia, NEW lista \in Seq(Hueco), NEW tamanio \in Nat, NEW cota \in Nat,
           Acotada(lista, cota),
           NEW g, EsBarrido(estrategia, lista, tamanio, g)
    PROVE  g[DOMAIN lista] = Mejores(estrategia, lista, tamanio, DOMAIN lista)
<1> DEFINE n == Len(lista)
           sale(s) == Mejores(estrategia, lista, tamanio, s)
           malos == {k \in 0 .. n : g[1 .. k] # sale(1 .. k)}
<1>1. DOMAIN lista = 1 .. n /\ n \in Nat
  OBVIOUS
<1>2. \A s \in SUBSET DOMAIN lista : g[s] = Vuelta(estrategia, lista, tamanio, s, g)
  BY DEF EsBarrido
<1> SUFFICES ASSUME g[DOMAIN lista] # sale(DOMAIN lista) PROVE FALSE
  OBVIOUS
<1>3. malos \in SUBSET Nat /\ malos # {}
  BY <1>1
<1>4. Min(malos) \in malos /\ \A j \in malos : Min(malos) <= j
  <2> HIDE DEF malos
  <2> QED BY <1>3, HayPrimero
<1>5. PICK k \in malos : \A j \in malos : k <= j
  BY <1>4
<1>6. 1 .. k \in SUBSET DOMAIN lista /\ k \in Nat /\ k <= n
  BY <1>1
<1>7. CASE k = 0
  <2>1. 1 .. k = {}
    BY <1>7
  <2>2. g[1 .. k] = {}
    BY <1>2, <1>6, <2>1 DEF Vuelta
  <2>3. sale(1 .. k) = {}
    BY <2>1 DEF Mejores, Ganadores
  <2>4. QED
    BY <1>5, <2>2, <2>3
<1>8. CASE k # 0
  <2> DEFINE s == 1 .. k
  <2>1. s # {} /\ (1 .. k) \ {k} = 1 .. (k - 1) /\ k \in s /\ \A j \in s : j <= k
    BY <1>6, <1>8
  <2>2. Max(s) = k
    <3>1. Max(s) \in s /\ \A j \in s : j <= Max(s)
      <4>1. s \in SUBSET (1 .. k)
        OBVIOUS
      <4> HIDE DEF s
      <4>2. QED
        BY <1>6, <2>1, <4>1, HayUltimo
    <3>2. QED
      BY <1>6, <2>1, <3>1
  <2>3. g[1 .. (k - 1)] = sale(1 .. (k - 1))
    <3>1. k - 1 \in 0 .. n /\ ~(k <= k - 1)
      BY <1>1, <1>6, <1>8
    <3>2. k - 1 \notin malos
      BY <1>5, <3>1
    <3>3. QED
      BY <3>1, <3>2
  <2>4. g[s] = Mirar(estrategia, tamanio, g[1 .. (k - 1)], lista[k])
    BY <1>2, <1>6, <2>1, <2>2 DEF Vuelta
  <2>5. sale(s) = Mirar(estrategia, tamanio, sale(1 .. (k - 1)), lista[k])
    <3>1. s \in SUBSET DOMAIN lista /\ k \in s /\ s \ {k} = 1 .. (k - 1) /\ \A j \in s : j <= k
      BY <1>6, <2>1
    <3> HIDE DEF s
    <3>2. sale(s) = Mirar(estrategia, tamanio, sale(s \ {k}), lista[k])
      BY <3>1, UnaVuelta
    <3>3. QED
      BY <3>1, <3>2
  <2>6. QED
    BY <1>5, <2>3, <2>4, <2>5
<1>9. QED
  BY <1>7, <1>8

\* There is one.
LEMMA HayBarrido ==
    ASSUME NEW estrategia, NEW lista \in Seq(Hueco), NEW tamanio \in Nat, NEW cota \in Nat,
           Acotada(lista, cota)
    PROVE  \E g : EsBarrido(estrategia, lista, tamanio, g)
<1> DEFINE sale(s) == Mejores(estrategia, lista, tamanio, s)
           g == [s \in SUBSET DOMAIN lista |-> sale(s)]
<1>1. \A s \in SUBSET DOMAIN lista : sale(s) = Vuelta(estrategia, lista, tamanio, s, g)
  <2>1. SUFFICES ASSUME NEW s \in SUBSET DOMAIN lista
                 PROVE  sale(s) = Vuelta(estrategia, lista, tamanio, s, g)
    OBVIOUS
  <2>2. CASE s = {}
    BY <2>2 DEF Vuelta, Mejores, Ganadores
  <2>3. CASE s # {}
    <3>1. s \in SUBSET (1 .. Len(lista)) /\ Len(lista) \in Nat
      OBVIOUS
    <3>2. Max(s) \in s /\ \A j \in s : j <= Max(s)
      BY <2>3, <3>1, HayUltimo
    <3>3. sale(s) = Mirar(estrategia, tamanio, sale(s \ {Max(s)}), lista[Max(s)])
      BY <3>2, UnaVuelta
    <3>4. g[s \ {Max(s)}] = sale(s \ {Max(s)})
      BY <3>2
    <3> HIDE DEF sale, g
    <3>5. QED
      BY <2>3, <3>3, <3>4 DEF Vuelta
  <2>4. QED
    BY <2>2, <2>3
<1>2. g = [s \in SUBSET DOMAIN lista |-> Vuelta(estrategia, lista, tamanio, s, g)]
  <2>1. g = [s \in SUBSET DOMAIN lista |-> sale(s)]
    OBVIOUS
  <2> HIDE DEF sale, g
  <2>2. [s \in SUBSET DOMAIN lista |-> sale(s)]
            = [s \in SUBSET DOMAIN lista |-> Vuelta(estrategia, lista, tamanio, s, g)]
    BY <1>1
  <2>3. QED
    BY <2>1, <2>2
<1>3. EsBarrido(estrategia, lista, tamanio, g)
  <2> HIDE DEF g
  <2> QED BY <1>2 DEF EsBarrido
<1>4. QED
  BY <1>3

\* A list whose holes have bytes and end before the next begins, or where it does.
EnFila(lista) ==
    /\ lista \in Seq(Hueco)
    /\ \A i \in 1 .. Len(lista) : lista[i].limite > 0
    /\ \A i, j \in 1 .. Len(lista) : i < j => Fin(lista[i]) <= lista[j].base

LEMMA FilaTipo ==
    ASSUME NEW lista, EnFila(lista)
    PROVE  /\ lista \in Seq(Hueco) /\ DOMAIN lista = 1 .. Len(lista) /\ Len(lista) \in Nat
           /\ \A i \in 1 .. Len(lista) :
                 /\ lista[i] \in Hueco /\ lista[i] \in ToSet(lista)
                 /\ lista[i].base \in Nat /\ lista[i].limite \in Nat /\ lista[i].limite > 0
           /\ \A h \in ToSet(lista) : \E i \in 1 .. Len(lista) : h = lista[i]
           /\ \A h \in ToSet(lista) : h \in Hueco
<1>1. lista \in Seq(Hueco)
  BY DEF EnFila
<1>2. DOMAIN lista = 1 .. Len(lista) /\ Len(lista) \in Nat
      /\ \A i \in 1 .. Len(lista) : lista[i] \in Hueco
  BY <1>1, ElementOfSeq
<1>3. \A i \in 1 .. Len(lista) : lista[i].limite > 0
  BY DEF EnFila
<1>4. QED
  BY <1>1, <1>2, <1>3 DEF Hueco, ToSet

\* Positions in order are bases in order.
LEMMA FilaOrden ==
    ASSUME NEW lista, EnFila(lista), NEW i \in 1 .. Len(lista), NEW j \in 1 .. Len(lista)
    PROVE  /\ i < j <=> lista[i].base < lista[j].base
           /\ i = j <=> lista[i].base = lista[j].base
           /\ i = j <=> lista[i] = lista[j]
           /\ i < j => Fin(lista[i]) <= lista[j].base
<1>1. \A m, n \in 1 .. Len(lista) : m < n => /\ Fin(lista[m]) <= lista[n].base
                                             /\ lista[m].base < lista[n].base
  <2>1. SUFFICES ASSUME NEW m \in 1 .. Len(lista), NEW n \in 1 .. Len(lista), m < n
                 PROVE  Fin(lista[m]) <= lista[n].base /\ lista[m].base < lista[n].base
    OBVIOUS
  <2>2. Fin(lista[m]) <= lista[n].base
    BY <2>1 DEF EnFila
  <2>3. QED
    BY <2>1, <2>2, FilaTipo DEF Fin
<1>2. i \in Nat /\ j \in Nat /\ lista[i].base \in Nat /\ lista[j].base \in Nat
  BY FilaTipo
<1>3. QED
  BY <1>1, <1>2

-----------------------------------------------------------------------------
(* What the scans find.                                                    *)

LEMMA BestDef ==
    ASSUME NEW lista, NEW tamanio
    PROVE  BestFit(lista, tamanio) =
               (CHOOSE g : g = [s \in SUBSET DOMAIN lista |->
                    IF s = {} THEN {}
                    ELSE IF lista[Max(s)].limite >= tamanio
                              /\ \A m \in g[s \ {Max(s)}] : lista[Max(s)].limite < m.limite
                         THEN {lista[Max(s)]}
                         ELSE g[s \ {Max(s)}]])[DOMAIN lista]
  BY Zenon DEF BestFit, FoldLeft, MapThenFoldSet

LEMMA WorstDef ==
    ASSUME NEW lista, NEW tamanio
    PROVE  WorstFit(lista, tamanio) =
               (CHOOSE g : g = [s \in SUBSET DOMAIN lista |->
                    IF s = {} THEN {}
                    ELSE IF lista[Max(s)].limite >= tamanio
                              /\ \A m \in g[s \ {Max(s)}] : lista[Max(s)].limite > m.limite
                         THEN {lista[Max(s)]}
                         ELSE g[s \ {Max(s)}]])[DOMAIN lista]
  BY Zenon DEF WorstFit, FoldLeft, MapThenFoldSet

\* The first of the best of a list in order are the hole Huecos chooses.
LEMMA MejoresElegido ==
    ASSUME NEW estrategia, NEW lista, EnFila(lista), NEW tamanio \in Nat
    PROVE  Mejores(estrategia, lista, tamanio, DOMAIN lista) =
               Elegido(estrategia, ToSet(lista), tamanio)
<1> DEFINE G == Ganadores(estrategia, lista, tamanio, DOMAIN lista)
<1>1. DOMAIN lista = 1 .. Len(lista)
  BY FilaTipo
<1>2. \A i, j \in 1 .. Len(lista) :
         /\ i \in Nat /\ lista[i].base \in Nat /\ lista[i] \in ToSet(lista)
         /\ i <= j <=> lista[i].base <= lista[j].base
  <2>1. SUFFICES ASSUME NEW i \in 1 .. Len(lista), NEW j \in 1 .. Len(lista)
                 PROVE  /\ i \in Nat /\ lista[i].base \in Nat /\ lista[i] \in ToSet(lista)
                        /\ i <= j <=> lista[i].base <= lista[j].base
    OBVIOUS
  <2>2. /\ i \in Nat /\ j \in Nat /\ lista[i].base \in Nat /\ lista[j].base \in Nat
        /\ lista[i] \in ToSet(lista)
    BY FilaTipo
  <2>3. (i < j <=> lista[i].base < lista[j].base) /\ (i = j <=> lista[i].base = lista[j].base)
    BY FilaOrden
  <2>4. QED
    BY <2>2, <2>3
<1>3. \A h \in ToSet(lista) : \E i \in 1 .. Len(lista) : h = lista[i]
  BY FilaTipo
<1>4. \A i \in 1 .. Len(lista) :
         i \in G <=> /\ lista[i].limite >= tamanio
                     /\ \A g \in Caben(ToSet(lista), tamanio) : Preferido(estrategia, lista[i], g)
  <2>1. SUFFICES ASSUME NEW i \in 1 .. Len(lista)
                 PROVE  i \in G <=>
                          /\ lista[i].limite >= tamanio
                          /\ \A g \in Caben(ToSet(lista), tamanio) : Preferido(estrategia, lista[i], g)
    OBVIOUS
  <2>2. i \in G <=> /\ lista[i].limite >= tamanio
                    /\ \A j \in 1 .. Len(lista) : lista[j].limite >= tamanio =>
                          Preferido(estrategia, lista[i], lista[j])
    BY <1>1, <1>2 DEF Ganadores, Preferido, Mejor
  <2>3. (\A j \in 1 .. Len(lista) : lista[j].limite >= tamanio =>
             Preferido(estrategia, lista[i], lista[j]))
          <=> (\A g \in Caben(ToSet(lista), tamanio) : Preferido(estrategia, lista[i], g))
    BY <1>2, <1>3 DEF Caben
  <2>4. QED
    BY <2>2, <2>3
<1>5. \A i \in G : i \in 1 .. Len(lista)
  BY <1>1 DEF Ganadores
<1> HIDE DEF G
<1>6. \A h \in Mejores(estrategia, lista, tamanio, DOMAIN lista) :
         h \in Elegido(estrategia, ToSet(lista), tamanio)
  BY <1>2, <1>4, <1>5 DEF Mejores, Elegido, Caben, G
<1>7. \A h \in Elegido(estrategia, ToSet(lista), tamanio) :
         h \in Mejores(estrategia, lista, tamanio, DOMAIN lista)
  BY <1>3, <1>4 DEF Mejores, Elegido, Caben, G
<1>8. QED
  BY <1>6, <1>7

LEMMA BestElige ==
    ASSUME NEW lista, EnFila(lista), NEW tamanio \in Nat, NEW cota \in Nat, Acotada(lista, cota)
    PROVE  BestFit(lista, tamanio) = Elegido("BEST", ToSet(lista), tamanio)
<1> DEFINE E(g) == g = [s \in SUBSET DOMAIN lista |->
                    IF s = {} THEN {}
                    ELSE IF lista[Max(s)].limite >= tamanio
                              /\ \A m \in g[s \ {Max(s)}] : lista[Max(s)].limite < m.limite
                         THEN {lista[Max(s)]}
                         ELSE g[s \ {Max(s)}]]
           suma == CHOOSE g : E(g)
<1>1. ASSUME NEW g PROVE E(g) <=> EsBarrido("BEST", lista, tamanio, g)
  BY DEF EsBarrido, Vuelta, Mirar, Mejor
<1>2. lista \in Seq(Hueco)
  BY DEF EnFila
<1>3. \E g : EsBarrido("BEST", lista, tamanio, g)
  BY <1>2, HayBarrido
<1>4. E(suma)
  <2>1. \E g : E(g)
    BY <1>1, <1>3
  <2> HIDE DEF E
  <2>2. QED
    BY <2>1
<1>5. EsBarrido("BEST", lista, tamanio, suma)
  <2> HIDE DEF E, suma
  <2> QED BY <1>1, <1>4
<1>6. BestFit(lista, tamanio) = suma[DOMAIN lista]
  BY BestDef, Zenon
<1> HIDE DEF E, suma
<1>7. QED
  BY <1>2, <1>5, <1>6, BarridoUnico, MejoresElegido

LEMMA WorstElige ==
    ASSUME NEW lista, EnFila(lista), NEW tamanio \in Nat, NEW cota \in Nat, Acotada(lista, cota)
    PROVE  WorstFit(lista, tamanio) = Elegido("WORST", ToSet(lista), tamanio)
<1> DEFINE E(g) == g = [s \in SUBSET DOMAIN lista |->
                    IF s = {} THEN {}
                    ELSE IF lista[Max(s)].limite >= tamanio
                              /\ \A m \in g[s \ {Max(s)}] : lista[Max(s)].limite > m.limite
                         THEN {lista[Max(s)]}
                         ELSE g[s \ {Max(s)}]]
           suma == CHOOSE g : E(g)
<1>1. ASSUME NEW g PROVE E(g) <=> EsBarrido("WORST", lista, tamanio, g)
  BY DEF EsBarrido, Vuelta, Mirar, Mejor
<1>2. lista \in Seq(Hueco)
  BY DEF EnFila
<1>3. \E g : EsBarrido("WORST", lista, tamanio, g)
  BY <1>2, HayBarrido
<1>4. E(suma)
  <2>1. \E g : E(g)
    BY <1>1, <1>3
  <2> HIDE DEF E
  <2>2. QED
    BY <2>1
<1>5. EsBarrido("WORST", lista, tamanio, suma)
  <2> HIDE DEF E, suma
  <2> QED BY <1>1, <1>4
<1>6. WorstFit(lista, tamanio) = suma[DOMAIN lista]
  BY WorstDef, Zenon
<1> HIDE DEF E, suma
<1>7. QED
  BY <1>2, <1>5, <1>6, BarridoUnico, MejoresElegido

\* encontrar_hueco finds the hole that EncontrarHueco chooses.
LEMMA EncuentraElElegido ==
    ASSUME NEW lista, EnFila(lista), NEW tamanio \in Nat, NEW cota \in Nat, Acotada(lista, cota)
    PROVE  EncontrarEnLista(lista, tamanio) = EncontrarHueco(ToSet(lista), tamanio)
<1>1. CASE ALLOCATION_STRATEGY = "BEST"
  BY <1>1, BestElige DEF EncontrarEnLista, EncontrarHueco
<1>2. CASE ALLOCATION_STRATEGY # "BEST"
  <2>1. Elegido(ALLOCATION_STRATEGY, ToSet(lista), tamanio)
            = Elegido("WORST", ToSet(lista), tamanio)
    BY <1>2 DEF Elegido, Preferido
  <2>2. QED
    BY <1>2, <2>1, WorstElige DEF EncontrarEnLista, EncontrarHueco
<1>3. QED
  BY <1>1, <1>2

-----------------------------------------------------------------------------
(* Cutting a hole.                                                         *)

\* A list in order without one of its holes.
LEMMA FilaQuitar ==
    ASSUME NEW lista, EnFila(lista), NEW i \in 1 .. Len(lista)
    PROVE  /\ EnFila(RemoveAt(lista, i))
           /\ ToSet(RemoveAt(lista, i)) = ToSet(lista) \ {lista[i]}
<1> DEFINE t == RemoveAt(lista, i)
           v(m) == IF m < i THEN m ELSE m + 1
<1>1. /\ lista \in Seq(Hueco) /\ Len(lista) \in Nat
      /\ \A j \in 1 .. Len(lista) : lista[j].limite > 0
  BY FilaTipo
<1>2. /\ t \in Seq(Hueco) /\ Len(t) = Len(lista) - 1
      /\ \A m \in 1 .. Len(lista) - 1 : t[m] = lista[v(m)]
  BY <1>1, QuitarEn
<1>3. IsInjective(lista)
  <2>1. \A j, k \in 1 .. Len(lista) : lista[j] = lista[k] => j = k
    BY FilaOrden
  <2>2. QED
    BY <1>1, <2>1 DEF IsInjective
<1>4. ToSet(t) = ToSet(lista) \ {lista[i]}
  BY <1>1, <1>3, SinEl
<1> HIDE DEF t
<1>5. \A m, n \in 1 .. Len(t) : m < n => Fin(t[m]) <= t[n].base
  <2>1. SUFFICES ASSUME NEW m \in 1 .. Len(t), NEW n \in 1 .. Len(t), m < n
                 PROVE  Fin(t[m]) <= t[n].base
    OBVIOUS
  <2>2. /\ v(m) \in 1 .. Len(lista) /\ v(n) \in 1 .. Len(lista) /\ v(m) < v(n)
        /\ t[m] = lista[v(m)] /\ t[n] = lista[v(n)]
    BY <1>1, <1>2, <2>1
  <2> HIDE DEF v
  <2>3. QED
    BY <2>2, FilaOrden
<1>6. \A m \in 1 .. Len(t) : t[m].limite > 0
  BY <1>1, <1>2
<1>7. QED
  BY <1>2, <1>4, <1>5, <1>6 DEF EnFila, t

\* A hole that would lie within the neighbours of the i-th.
Encaja(lista, i, r) ==
    \A j \in 1 .. Len(lista) : /\ j < i => Fin(lista[j]) <= r.base
                               /\ i < j => Fin(r) <= lista[j].base

\* A list in order with another hole where the i-th was, within its neighbours.
LEMMA FilaCambiar ==
    ASSUME NEW lista, EnFila(lista), NEW i \in 1 .. Len(lista), NEW r \in Hueco, r.limite > 0,
           Encaja(lista, i, r)
    PROVE  /\ EnFila(ReplaceAt(lista, i, r)) /\ Len(ReplaceAt(lista, i, r)) = Len(lista)
           /\ \A j \in 1 .. Len(lista) : ReplaceAt(lista, i, r)[j] = IF j = i THEN r ELSE lista[j]
           /\ ToSet(ReplaceAt(lista, i, r)) = (ToSet(lista) \ {lista[i]}) \cup {r}
<1> DEFINE t == ReplaceAt(lista, i, r)
<1>1. /\ lista \in Seq(Hueco) /\ Len(lista) \in Nat /\ DOMAIN lista = 1 .. Len(lista)
      /\ \A j \in 1 .. Len(lista) : lista[j].limite > 0
  BY FilaTipo
<1>2. /\ t \in Seq(Hueco) /\ Len(t) = Len(lista) /\ DOMAIN t = 1 .. Len(lista)
      /\ \A j \in 1 .. Len(lista) : t[j] = IF j = i THEN r ELSE lista[j]
  BY <1>1 DEF ReplaceAt
<1> HIDE DEF t
<1>3. \A m, n \in 1 .. Len(t) : m < n => Fin(t[m]) <= t[n].base
  <2>1. SUFFICES ASSUME NEW m \in 1 .. Len(t), NEW n \in 1 .. Len(t), m < n
                 PROVE  Fin(t[m]) <= t[n].base
    OBVIOUS
  <2>2. m = i \/ n = i \/ Fin(lista[m]) <= lista[n].base
    BY <1>2, <2>1, FilaOrden
  <2>3. QED
    BY <1>1, <1>2, <2>1, <2>2 DEF Encaja
<1>4. \A m \in 1 .. Len(t) : t[m].limite > 0
  BY <1>1, <1>2
<1>5. \A j \in 1 .. Len(lista) : lista[j] = lista[i] => j = i
  BY FilaOrden
<1>6. ToSet(t) = (ToSet(lista) \ {lista[i]}) \cup {r}
  BY <1>1, <1>2, <1>5 DEF ToSet
<1>7. QED
  BY <1>2, <1>3, <1>4, <1>6 DEF EnFila, t

\* What crear_segmento does to the list is what Achicar does to the set.
LEMMA RecortarAchica ==
    ASSUME NEW lista, EnFila(lista), NEW h \in ToSet(lista),
           NEW tamanio \in Nat, tamanio <= h.limite
    PROVE  /\ EnFila(Recortar(lista, h, tamanio))
           /\ ToSet(Recortar(lista, h, tamanio)) = Achicar(ToSet(lista), h, tamanio)
<1> DEFINE resto == [base |-> h.base + tamanio, limite |-> h.limite - tamanio]
           i == CHOOSE j \in DOMAIN lista : lista[j] = h
<1>1. i \in 1 .. Len(lista) /\ lista[i] = h
  <2>1. \E j \in DOMAIN lista : lista[j] = h
    BY FilaTipo
  <2>2. QED
    BY <2>1, FilaTipo
<1>2. Recortar(lista, h, tamanio) =
          IF resto.limite = 0 THEN RemoveAt(lista, i) ELSE ReplaceAt(lista, i, resto)
  BY DEF Recortar
<1>3. Achicar(ToSet(lista), h, tamanio) = (ToSet(lista) \ {h}) \cup {r \in {resto} : r.limite # 0}
  BY DEF Achicar
<1>4. /\ h.base \in Nat /\ h.limite \in Nat
      /\ \A j \in 1 .. Len(lista) : lista[j].base \in Nat /\ lista[j].limite \in Nat
  BY FilaTipo
<1>5. CASE resto.limite = 0
  <2> HIDE DEF i
  <2>1. QED
    BY <1>1, <1>2, <1>3, <1>5, FilaQuitar
<1>6. CASE resto.limite # 0
  <2>1. resto \in Hueco /\ resto.limite > 0
    BY <1>4, <1>6 DEF Hueco
  <2>2. Encaja(lista, i, resto)
    <3> HIDE DEF i
    <3>1. SUFFICES ASSUME NEW j \in 1 .. Len(lista)
                   PROVE  /\ j < i => Fin(lista[j]) <= resto.base
                          /\ i < j => Fin(resto) <= lista[j].base
      BY DEF Encaja
    <3>2. (j < i => Fin(lista[j]) <= lista[i].base) /\ (i < j => Fin(lista[i]) <= lista[j].base)
      BY <1>1, FilaOrden
    <3>3. QED
      BY <1>1, <1>4, <3>2 DEF Fin
  <2> HIDE DEF i, resto
  <2>3. /\ EnFila(ReplaceAt(lista, i, resto))
        /\ ToSet(ReplaceAt(lista, i, resto)) = (ToSet(lista) \ {h}) \cup {resto}
    BY <1>1, <2>1, <2>2, FilaCambiar
  <2>4. QED
    BY <1>2, <1>3, <1>6, <2>3
<1>7. QED
  BY <1>5, <1>6

-----------------------------------------------------------------------------
(* Putting a hole in its place, and fusing it.                             *)

\* Two neighbours that touch made one, at the position of the first.
Fundir(lista, k) ==
    RemoveAt([lista EXCEPT ![k].limite = @ + lista[k + 1].limite], k + 1)

Fundido(g, h) == [base |-> g.base, limite |-> g.limite + h.limite]

LEMMA FilaFundir ==
    ASSUME NEW lista, EnFila(lista), NEW k \in 1 .. Len(lista) - 1,
           Fin(lista[k]) = lista[k + 1].base
    PROVE  LET t == Fundir(lista, k)
               f == Fundido(lista[k], lista[k + 1])
           IN  /\ EnFila(t) /\ Len(t) = Len(lista) - 1 /\ t[k] = f
               /\ \A j \in 1 .. Len(t) : j < k => t[j] = lista[j]
               /\ \A j \in 1 .. Len(t) : j > k => t[j] = lista[j + 1]
               /\ ToSet(t) = (ToSet(lista) \ {lista[k], lista[k + 1]}) \cup {f}
<1> DEFINE f == Fundido(lista[k], lista[k + 1])
           g == lista[k + 1]
           u == [lista EXCEPT ![k].limite = @ + lista[k + 1].limite]
           w == RemoveAt(lista, k + 1)
           t == Fundir(lista, k)
<1>1. /\ lista \in Seq(Hueco) /\ DOMAIN lista = 1 .. Len(lista) /\ Len(lista) \in Nat
      /\ k \in 1 .. Len(lista) /\ k + 1 \in 1 .. Len(lista) /\ k \in Nat
      /\ lista[k] \in Hueco /\ lista[k + 1] \in Hueco
      /\ lista[k].base \in Nat /\ lista[k].limite \in Nat /\ lista[k].limite > 0
      /\ lista[k + 1].base \in Nat /\ lista[k + 1].limite \in Nat
  BY FilaTipo
<1>2. f \in Hueco /\ f.limite > 0 /\ f.base = lista[k].base /\ Fin(f) = Fin(lista[k + 1])
  BY <1>1 DEF Hueco, Fundido, Fin
<1>3. u = [lista EXCEPT ![k] = f]
  <2>1. ASSUME NEW r \in Hueco, NEW x
        PROVE  [r EXCEPT !.limite = x] = [base |-> r.base, limite |-> x]
    BY DEF Hueco
  <2>2. [lista[k] EXCEPT !.limite = @ + lista[k + 1].limite] = f
    BY <1>1, <2>1 DEF Fundido
  <2>3. QED
    BY <2>2
<1>4. u \in Seq(Hueco) /\ Len(u) = Len(lista)
      /\ \A j \in 1 .. Len(lista) : u[j] = IF j = k THEN f ELSE lista[j]
  BY <1>1, <1>2, <1>3
<1> HIDE DEF f, u
<1>5. /\ t \in Seq(Hueco) /\ Len(t) = Len(lista) - 1
      /\ \A m \in 1 .. Len(lista) - 1 : t[m] = u[IF m < k + 1 THEN m ELSE m + 1]
  <2>1. k + 1 \in 1 .. Len(u) /\ t = RemoveAt(u, k + 1)
    BY <1>1, <1>4 DEF Fundir, u
  <2> HIDE DEF t
  <2>2. QED
    BY <1>4, <2>1, QuitarEn
\* The same without the second and with the first grown.
<1>6. /\ EnFila(w) /\ ToSet(w) = ToSet(lista) \ {lista[k + 1]}
      /\ Len(w) = Len(lista) - 1
      /\ \A m \in 1 .. Len(lista) - 1 : w[m] = lista[IF m < k + 1 THEN m ELSE m + 1]
  BY <1>1, FilaQuitar, QuitarEn
<1> HIDE DEF t, w
<1>7. k \in 1 .. Len(w) /\ w[k] = lista[k]
  BY <1>1, <1>6
<1>8. Encaja(w, k, f)
  <2>1. SUFFICES ASSUME NEW j \in 1 .. Len(w)
                 PROVE  /\ j < k => Fin(w[j]) <= f.base
                        /\ k < j => Fin(f) <= w[j].base
    BY DEF Encaja
  <2>2. CASE j < k
    <3>1. j \in 1 .. Len(lista) /\ w[j] = lista[j] /\ ~(k < j)
      BY <1>1, <1>6, <2>2
    <3>2. Fin(lista[j]) <= lista[k].base
      BY <1>1, <2>2, <3>1, FilaOrden
    <3>3. QED
      BY <1>2, <3>1, <3>2
  <2>3. CASE k < j
    <3>1. j + 1 \in 1 .. Len(lista) /\ w[j] = lista[j + 1] /\ k + 1 < j + 1 /\ ~(j < k)
      BY <1>1, <1>6, <2>3
    <3>2. Fin(lista[k + 1]) <= lista[j + 1].base
      BY <1>1, <3>1, FilaOrden
    <3>3. QED
      BY <1>2, <3>1, <3>2
  <2>4. QED
    BY <2>2, <2>3
<1>9. /\ EnFila(ReplaceAt(w, k, f)) /\ Len(ReplaceAt(w, k, f)) = Len(w)
      /\ \A j \in 1 .. Len(w) : ReplaceAt(w, k, f)[j] = IF j = k THEN f ELSE w[j]
      /\ ToSet(ReplaceAt(w, k, f)) = (ToSet(w) \ {w[k]}) \cup {f}
  <2>1. EnFila(w) /\ k \in 1 .. Len(w) /\ f \in Hueco /\ f.limite > 0 /\ Encaja(w, k, f)
    BY <1>2, <1>6, <1>7, <1>8
  <2>2. QED
    BY <2>1, FilaCambiar
<1>10. \A m \in 1 .. Len(lista) - 1 : t[m] = ReplaceAt(w, k, f)[m]
  <2>1. SUFFICES ASSUME NEW m \in 1 .. Len(lista) - 1 PROVE t[m] = ReplaceAt(w, k, f)[m]
    OBVIOUS
  <2>2. /\ m \in Nat /\ (IF m < k + 1 THEN m ELSE m + 1) \in 1 .. Len(lista)
        /\ (IF m < k + 1 THEN m ELSE m + 1) = k <=> m = k
    BY <1>1
  <2>3. t[m] = IF m = k THEN f ELSE lista[IF m < k + 1 THEN m ELSE m + 1]
    BY <1>4, <1>5, <2>2
  <2>4. QED
    BY <1>6, <1>9, <2>3
<1>11. t = ReplaceAt(w, k, f)
  <2>1. ReplaceAt(w, k, f) \in Seq(Hueco) /\ Len(ReplaceAt(w, k, f)) = Len(lista) - 1
    BY <1>6, <1>9 DEF EnFila
  <2> DEFINE z == ReplaceAt(w, k, f)
  <2> HIDE DEF z
  <2>2. z \in Seq(Hueco) /\ Len(z) = Len(t) /\ \A m \in 1 .. Len(t) : t[m] = z[m]
    BY <1>5, <1>10, <2>1 DEF z
  <2>3. t = z
    BY <1>5, <2>2, SeqEqual
  <2>4. QED
    BY <2>3 DEF z
<1>12. /\ \A j \in 1 .. Len(t) : j < k => t[j] = lista[j]
       /\ \A j \in 1 .. Len(t) : j > k => t[j] = lista[j + 1]
       /\ t[k] = f
  BY <1>1, <1>5, <1>6, <1>7, <1>9, <1>11
<1>13. QED
  BY <1>5, <1>6, <1>7, <1>9, <1>11, <1>12 DEF t, f

\* The new hole goes before the first with a greater base.
LEMMA PosicionEs ==
    ASSUME NEW lista, EnFila(lista), NEW n \in Hueco
    PROVE  /\ Posicion(lista, n) \in 1 .. Len(lista) + 1
           /\ \A j \in 1 .. Len(lista) :
                 j < Posicion(lista, n) <=> lista[j].base <= n.base
<1> DEFINE tope == [base |-> n.base + 1, limite |-> 0]
           larga == lista \o <<tope>>
           T == {i \in 1 .. Len(larga) : larga[i].base > n.base}
<1>1. /\ lista \in Seq(Hueco) /\ Len(lista) \in Nat /\ n.base \in Nat
      /\ \A j \in 1 .. Len(lista) : lista[j].base \in Nat
  BY FilaTipo DEF Hueco
<1>2. tope \in Hueco
  BY <1>1 DEF Hueco
<1>3. /\ Len(larga) = Len(lista) + 1
      /\ \A i \in 1 .. Len(lista) : larga[i] = lista[i]
      /\ larga[Len(lista) + 1] = tope
  <2> HIDE DEF tope
  <2>1. <<tope>> \in Seq(Hueco) /\ Len(<<tope>>) = 1 /\ <<tope>>[1] = tope
    BY <1>2
  <2>2. /\ Len(larga) = Len(lista) + Len(<<tope>>)
        /\ \A i \in 1 .. Len(lista) + Len(<<tope>>) :
              larga[i] = IF i <= Len(lista) THEN lista[i] ELSE <<tope>>[i - Len(lista)]
    BY <1>1, <2>1, ConcatProperties
  <2> HIDE DEF larga
  <2>3. Len(lista) + 1 \in 1 .. Len(lista) + 1 /\ Len(lista) + 1 - Len(lista) = 1
        /\ ~(Len(lista) + 1 <= Len(lista))
    BY <1>1
  <2>4. QED
    BY <1>1, <2>1, <2>2, <2>3
<1> HIDE DEF larga
<1>4. T \in SUBSET Nat /\ T # {}
  <2>1. Len(lista) + 1 \in T
    BY <1>1, <1>3
  <2>2. QED
    BY <2>1
<1>5. Posicion(lista, n) = Min(T)
  <2>1. SelectInSeq(larga, LAMBDA h : h.base > n.base) = Min(T)
    BY <1>4, Zenon DEF SelectInSeq
  <2>2. QED
    BY <2>1, Zenon DEF Posicion, larga
<1>6. Min(T) \in T /\ \A j \in T : Min(T) <= j
  <2> HIDE DEF T
  <2> QED BY <1>4, HayPrimero
<1>7. Min(T) \in 1 .. Len(lista) + 1
  BY <1>3, <1>6
<1> DEFINE m == Min(T)
<1>8. ASSUME NEW j \in 1 .. Len(lista) PROVE j < m <=> lista[j].base <= n.base
  <2>1. j \in T <=> lista[j].base > n.base
    BY <1>1, <1>3
  <2>2. j \in T => m <= j
    BY <1>6
  <2>3. m \in 1 .. Len(lista) => lista[m].base > n.base
    BY <1>3, <1>6
  <2>4. m < j => m \in 1 .. Len(lista) /\ lista[m].base < lista[j].base
    <3> HIDE DEF T
    <3>1. ASSUME m < j PROVE m \in 1 .. Len(lista)
      BY <1>1, <1>7, <3>1
    <3> HIDE DEF m
    <3>2. QED
      BY <3>1, FilaOrden
  <2> HIDE DEF m, T
  <2>5. CASE j < m
    BY <1>1, <1>7, <2>1, <2>2, <2>5 DEF m
  <2>6. CASE j = m
    BY <1>1, <1>7, <2>3, <2>6 DEF m
  <2>7. CASE m < j
    <3>1. m \in 1 .. Len(lista) /\ lista[m].base < lista[j].base /\ lista[m].base > n.base
      BY <2>3, <2>4, <2>7
    <3>2. QED
      BY <1>1, <2>7, <3>1
  <2>8. QED
    BY <1>7, <2>5, <2>6, <2>7 DEF m
<1>9. QED
  BY <1>5, <1>7, <1>8

\* A hole that touches no other has a place in the order.
LEMMA FilaInsertar ==
    ASSUME NEW lista, EnFila(lista), NEW n \in Hueco, n.limite > 0,
           \A h \in ToSet(lista) : Disjuntos(h, n),
           NEW pos, pos = Posicion(lista, n)
    PROVE  LET t == InsertAt(lista, pos, n)
           IN  /\ EnFila(t) /\ Len(t) = Len(lista) + 1 /\ t[pos] = n
               /\ \A j \in 1 .. Len(lista) : j < pos => t[j] = lista[j]
               /\ \A j \in 1 .. Len(lista) : j >= pos => t[j + 1] = lista[j]
               /\ ToSet(t) = ToSet(lista) \cup {n}
<1> DEFINE t == InsertAt(lista, pos, n)
           v(m) == IF m < pos THEN m ELSE m - 1
<1>1. /\ lista \in Seq(Hueco) /\ Len(lista) \in Nat /\ n.base \in Nat /\ n.limite \in Nat
      /\ \A j \in 1 .. Len(lista) : /\ lista[j].base \in Nat /\ lista[j].limite \in Nat
                                    /\ lista[j].limite > 0 /\ lista[j] \in ToSet(lista)
  BY FilaTipo DEF Hueco
<1>2. /\ pos \in 1 .. Len(lista) + 1
      /\ \A j \in 1 .. Len(lista) : j < pos <=> lista[j].base <= n.base
  BY PosicionEs
<1>3. \A j \in 1 .. Len(lista) : /\ j < pos => Fin(lista[j]) <= n.base
                                 /\ j >= pos => Fin(n) <= lista[j].base
  <2>1. SUFFICES ASSUME NEW j \in 1 .. Len(lista)
                 PROVE  /\ j < pos => Fin(lista[j]) <= n.base
                        /\ j >= pos => Fin(n) <= lista[j].base
    OBVIOUS
  <2>2. Disjuntos(lista[j], n)
    BY <1>1
  <2>3. QED
    BY <1>1, <1>2, <2>2 DEF Disjuntos, Fin
<1>4. /\ t \in Seq(Hueco) /\ Len(t) = Len(lista) + 1
      /\ \A j \in 1 .. Len(lista) + 1 :
            t[j] = IF j < pos THEN lista[j] ELSE IF j = pos THEN n ELSE lista[j - 1]
  BY <1>1, <1>2, PonerEn
<1>5. ToSet(t) = ToSet(lista) \cup {n}
  BY <1>1, <1>2, EnMedio
<1> HIDE DEF t
<1>6. \A m \in 1 .. Len(t) : m # pos => v(m) \in 1 .. Len(lista) /\ t[m] = lista[v(m)]
  BY <1>1, <1>2, <1>4
<1>7. t[pos] = n
  BY <1>1, <1>2, <1>4
<1>8. \A m \in 1 .. Len(t) : t[m].limite > 0
  BY <1>1, <1>6, <1>7
<1>9. \A i, j \in 1 .. Len(t) : i < j => Fin(t[i]) <= t[j].base
  <2>1. SUFFICES ASSUME NEW i \in 1 .. Len(t), NEW j \in 1 .. Len(t), i < j
                 PROVE  Fin(t[i]) <= t[j].base
    OBVIOUS
  <2>2. CASE i = pos
    <3>1. j # pos /\ v(j) \in 1 .. Len(lista) /\ v(j) >= pos /\ t[j] = lista[v(j)]
      BY <1>1, <1>2, <1>4, <1>6, <2>1, <2>2
    <3>2. QED
      BY <1>3, <1>7, <2>2, <3>1
  <2>3. CASE j = pos
    <3>1. i # pos /\ v(i) \in 1 .. Len(lista) /\ v(i) < pos /\ t[i] = lista[v(i)]
      BY <1>1, <1>2, <1>4, <1>6, <2>1, <2>3
    <3>2. QED
      BY <1>3, <1>7, <2>3, <3>1
  <2>4. CASE i # pos /\ j # pos
    <3>1. /\ v(i) \in 1 .. Len(lista) /\ v(j) \in 1 .. Len(lista) /\ v(i) < v(j)
          /\ t[i] = lista[v(i)] /\ t[j] = lista[v(j)]
      BY <1>1, <1>2, <1>4, <1>6, <2>1, <2>4
    <3> HIDE DEF v
    <3>2. QED
      BY <3>1, FilaOrden
  <2>5. QED
    BY <2>2, <2>3, <2>4
<1>10. /\ \A j \in 1 .. Len(lista) : j < pos => t[j] = lista[j]
       /\ \A j \in 1 .. Len(lista) : j >= pos => t[j + 1] = lista[j]
  <2>1. ASSUME NEW j \in 1 .. Len(lista), j < pos PROVE t[j] = lista[j]
    BY <1>1, <1>4, <2>1
  <2>2. ASSUME NEW j \in 1 .. Len(lista), j >= pos PROVE t[j + 1] = lista[j]
    <3>1. j + 1 \in 1 .. Len(lista) + 1 /\ ~(j + 1 < pos) /\ j + 1 # pos /\ j + 1 - 1 = j
      BY <1>1, <1>2, <2>2
    <3>2. t[j + 1] = lista[j + 1 - 1]
      BY <1>4, <3>1
    <3>3. QED
      BY <3>1, <3>2
  <2>3. QED
    BY <2>1, <2>2
<1>11. EnFila(t)
  BY <1>4, <1>8, <1>9 DEF EnFila
<1>12. QED
  BY <1>4, <1>5, <1>7, <1>10, <1>11 DEF t

\* The neighbours of the new hole that touch it, in the list and in the set.
LEMMA Vecinos ==
    ASSUME NEW lista, EnFila(lista), NEW n \in Hueco, NEW pos, pos = Posicion(lista, n)
    PROVE  /\ Siguiente(ToSet(lista), n) =
                 IF pos <= Len(lista) /\ Fin(n) = lista[pos].base THEN {lista[pos]} ELSE {}
           /\ Anterior(ToSet(lista), n) =
                 IF pos > 1 /\ Fin(lista[pos - 1]) = n.base THEN {lista[pos - 1]} ELSE {}
<1> DEFINE hs == ToSet(lista)
<1>1. /\ Len(lista) \in Nat /\ n.base \in Nat
      /\ \A j \in 1 .. Len(lista) : lista[j].base \in Nat /\ lista[j] \in hs
      /\ \A h \in hs : \E j \in 1 .. Len(lista) : h = lista[j]
  BY FilaTipo DEF Hueco
<1>2. /\ pos \in 1 .. Len(lista) + 1
      /\ \A j \in 1 .. Len(lista) : j < pos <=> lista[j].base <= n.base
  BY PosicionEs
<1>3. \A i, j \in 1 .. Len(lista) : i < j <=> lista[i].base < lista[j].base
  BY FilaOrden
<1> HIDE DEF hs
<1>4. ASSUME NEW h
      PROVE  h \in Siguiente(hs, n) <=>
                 pos <= Len(lista) /\ h = lista[pos] /\ Fin(n) = lista[pos].base
  <2>1. ASSUME h \in Siguiente(hs, n)
        PROVE  pos <= Len(lista) /\ h = lista[pos] /\ Fin(n) = lista[pos].base
    <3>1. /\ h \in hs /\ h.base > n.base /\ Fin(n) = h.base
          /\ \A g \in hs : g.base > n.base => h.base <= g.base
      BY <2>1 DEF Siguiente
    <3>2. PICK j \in 1 .. Len(lista) : h = lista[j]
      BY <1>1, <3>1
    <3>3. ~(j < pos)
      BY <1>1, <1>2, <3>1, <3>2
    <3>4. pos \in 1 .. Len(lista) /\ ~(pos < j)
      <4>1. pos \in 1 .. Len(lista)
        BY <1>1, <1>2, <3>3
      <4>2. lista[pos].base > n.base /\ lista[pos] \in hs
        BY <1>1, <1>2, <4>1
      <4>3. lista[j].base <= lista[pos].base
        BY <3>1, <3>2, <4>2
      <4>4. QED
        BY <1>1, <1>3, <4>1, <4>3
    <3>5. j = pos
      BY <1>2, <3>3, <3>4
    <3>6. QED
      BY <3>1, <3>2, <3>5
  <2>2. ASSUME pos <= Len(lista), h = lista[pos], Fin(n) = lista[pos].base
        PROVE  h \in Siguiente(hs, n)
    <3>1. pos \in 1 .. Len(lista)
      BY <1>1, <1>2, <2>2
    <3>2. h \in hs /\ h.base > n.base
      BY <1>1, <1>2, <2>2, <3>1
    <3>3. ASSUME NEW g \in hs, g.base > n.base PROVE h.base <= g.base
      <4>1. PICK j \in 1 .. Len(lista) : g = lista[j]
        BY <1>1
      <4>2. ~(j < pos)
        BY <1>1, <1>2, <3>3, <4>1
      <4>3. QED
        BY <1>1, <1>2, <1>3, <2>2, <3>1, <4>1, <4>2
    <3>4. QED
      BY <2>2, <3>2, <3>3 DEF Siguiente
  <2>3. QED
    BY <2>1, <2>2
<1>5. ASSUME NEW h
      PROVE  h \in Anterior(hs, n) <=>
                 pos > 1 /\ h = lista[pos - 1] /\ Fin(lista[pos - 1]) = n.base
  <2>1. ASSUME h \in Anterior(hs, n)
        PROVE  pos > 1 /\ h = lista[pos - 1] /\ Fin(lista[pos - 1]) = n.base
    <3>1. /\ h \in hs /\ h.base <= n.base /\ Fin(h) = n.base
          /\ \A g \in hs : g.base <= n.base => g.base <= h.base
      BY <2>1 DEF Anterior
    <3>2. PICK j \in 1 .. Len(lista) : h = lista[j]
      BY <1>1, <3>1
    <3>3. j < pos
      BY <1>1, <1>2, <3>1, <3>2
    <3>4. pos > 1 /\ pos - 1 \in 1 .. Len(lista) /\ pos - 1 < pos
      BY <1>1, <1>2, <3>3
    <3>5. lista[pos - 1].base <= n.base /\ lista[pos - 1] \in hs
      BY <1>1, <1>2, <3>4
    <3>6. lista[pos - 1].base <= lista[j].base
      BY <3>1, <3>2, <3>5
    <3>7. ~(j < pos - 1)
      BY <1>1, <1>3, <3>4, <3>6
    <3>8. j = pos - 1
      BY <1>2, <3>3, <3>7
    <3>9. QED
      BY <3>1, <3>2, <3>4, <3>8
  <2>2. ASSUME pos > 1, h = lista[pos - 1], Fin(lista[pos - 1]) = n.base
        PROVE  h \in Anterior(hs, n)
    <3>1. pos - 1 \in 1 .. Len(lista) /\ pos - 1 < pos
      BY <1>1, <1>2, <2>2
    <3>2. h \in hs /\ h.base <= n.base
      BY <1>1, <1>2, <2>2, <3>1
    <3>3. ASSUME NEW g \in hs, g.base <= n.base PROVE g.base <= h.base
      <4>1. PICK j \in 1 .. Len(lista) : g = lista[j]
        BY <1>1
      <4>2. j < pos
        BY <1>2, <3>3, <4>1
      <4>3. ~(pos - 1 < j)
        BY <1>2, <4>2
      <4>4. QED
        BY <1>1, <1>3, <2>2, <3>1, <4>1, <4>3
    <3>4. QED
      BY <2>2, <3>2, <3>3 DEF Anterior
  <2>3. QED
    BY <2>1, <2>2
<1>6. QED
  BY <1>4, <1>5 DEF hs

\* insertar_hueco_y_fusionar keeps the list in order and does to it what InsertarYFusionar
\* does to the set.
LEMMA InsertarFusiona ==
    ASSUME NEW lista, EnFila(lista), NEW n \in Hueco, n.limite > 0,
           \A h \in ToSet(lista) : Disjuntos(h, n)
    PROVE  /\ EnFila(InsertarEnLista(lista, n))
           /\ ToSet(InsertarEnLista(lista, n)) = InsertarYFusionar(ToSet(lista), n)
<1> DEFINE hs == ToSet(lista)
           pos == Posicion(lista, n)
           l1 == InsertAt(lista, pos, n)
           l2 == AbsorberSiguiente(l1, pos)
           l3 == AbsorberEnAnterior(l2, pos)
           sig == Siguiente(hs, n)
           ant == Anterior(hs, n)
           desde == IF ant = {} THEN n.base ELSE (CHOOSE h \in ant : TRUE).base
           hasta == IF sig = {} THEN Fin(n) ELSE Fin(CHOOSE h \in sig : TRUE)
           haySig == pos <= Len(lista) /\ Fin(n) = lista[pos].base
           hayAnt == pos > 1 /\ Fin(lista[pos - 1]) = n.base
           s == lista[pos]
           a == lista[pos - 1]
           m == Fundido(n, s)
           c == IF haySig THEN m ELSE n
<1>1. /\ lista \in Seq(Hueco) /\ Len(lista) \in Nat
      /\ n.base \in Nat /\ n.limite \in Nat
      /\ \A j \in 1 .. Len(lista) :
            /\ lista[j] \in Hueco /\ lista[j].base \in Nat /\ lista[j].limite \in Nat
            /\ lista[j].limite > 0 /\ lista[j] \in hs
      /\ \A h \in hs : \E j \in 1 .. Len(lista) : h = lista[j]
  BY FilaTipo DEF Hueco
<1>2. pos \in 1 .. Len(lista) + 1
  BY PosicionEs
<1>3. InsertarEnLista(lista, n) = l3
  BY DEF InsertarEnLista
<1>4. /\ sig = IF haySig THEN {s} ELSE {}
      /\ ant = IF hayAnt THEN {a} ELSE {}
  BY Vecinos
<1>5. InsertarYFusionar(hs, n) =
          (hs \ (sig \cup ant)) \cup {[base |-> desde, limite |-> hasta - desde]}
  BY DEF InsertarYFusionar
<1>6. /\ EnFila(l1) /\ Len(l1) = Len(lista) + 1 /\ l1[pos] = n
      /\ \A j \in 1 .. Len(lista) : j < pos => l1[j] = lista[j]
      /\ \A j \in 1 .. Len(lista) : j >= pos => l1[j + 1] = lista[j]
      /\ ToSet(l1) = hs \cup {n}
  BY FilaInsertar
<1>7. \A h \in hs : h.base # n.base
  <2>1. SUFFICES ASSUME NEW h \in hs, h.base = n.base PROVE FALSE
    OBVIOUS
  <2>2. h.base \in Nat /\ h.limite \in Nat /\ h.limite > 0 /\ Disjuntos(h, n)
    BY <1>1
  <2>3. QED
    BY <1>1, <2>1, <2>2 DEF Disjuntos, Fin
<1>8. /\ haySig => pos \in 1 .. Len(lista) /\ l1[pos + 1] = s
      /\ hayAnt => pos - 1 \in 1 .. Len(lista) /\ l1[pos - 1] = a
  BY <1>1, <1>2, <1>6
<1> HIDE DEF l1, l2, l3, sig, ant, hs
\* The new hole swallows the next one.
<1>9. /\ EnFila(l2) /\ l2[pos] = c /\ Len(l2) >= pos
      /\ \A j \in 1 .. Len(l2) : j < pos => l2[j] = lista[j]
      /\ ToSet(l2) = (hs \ sig) \cup {c}
  <2>1. CASE haySig
    <3>1. pos \in 1 .. Len(l1) - 1 /\ l1[pos] = n /\ l1[pos + 1] = s /\ pos < Len(l1)
          /\ Fin(l1[pos]) = l1[pos + 1].base
      BY <1>1, <1>6, <1>8, <2>1
    <3>2. l2 = Fundir(l1, pos)
      BY <3>1 DEF l2, AbsorberSiguiente, Fundir
    <3>3. /\ EnFila(l2) /\ Len(l2) = Len(l1) - 1 /\ l2[pos] = Fundido(l1[pos], l1[pos + 1])
          /\ \A j \in 1 .. Len(l2) : j < pos => l2[j] = l1[j]
          /\ ToSet(l2) = (ToSet(l1) \ {l1[pos], l1[pos + 1]}) \cup {Fundido(l1[pos], l1[pos + 1])}
      BY <1>6, <3>1, <3>2, FilaFundir
    <3>4. l2[pos] = m /\ c = m /\ sig = {s}
      BY <1>4, <2>1, <3>1, <3>3
    <3>5. ToSet(l2) = (hs \ {s}) \cup {m}
      <4>1. ToSet(l2) = ((hs \cup {n}) \ {n, s}) \cup {m}
        BY <1>6, <3>1, <3>3
      <4>2. n \notin hs
        BY <1>7
      <4>3. QED
        BY <4>1, <4>2
    <3>6. ASSUME NEW j \in 1 .. Len(l2), j < pos PROVE l2[j] = lista[j]
      <4>1. j \in 1 .. Len(lista)
        BY <1>1, <1>2, <3>6
      <4>2. QED
        BY <1>6, <3>3, <3>6, <4>1
    <3>7. Len(l2) >= pos
      BY <1>1, <3>1, <3>3
    <3>8. QED
      BY <3>3, <3>4, <3>5, <3>6, <3>7
  <2>2. CASE ~haySig
    <3>1. ~(pos < Len(l1) /\ Fin(l1[pos]) = l1[pos + 1].base)
      <4>1. SUFFICES ASSUME pos < Len(l1), Fin(l1[pos]) = l1[pos + 1].base PROVE FALSE
        OBVIOUS
      <4>2. pos \in 1 .. Len(lista)
        BY <1>1, <1>2, <1>6, <4>1
      <4>3. l1[pos + 1] = lista[pos] /\ pos <= Len(lista)
        BY <1>1, <1>6, <4>2
      <4>4. QED
        BY <1>6, <2>2, <4>1, <4>3
    <3>2. l2 = l1
      BY <3>1 DEF l2, AbsorberSiguiente
    <3>3. c = n /\ sig = {}
      BY <1>4, <2>2
    <3>4. ASSUME NEW j \in 1 .. Len(l2), j < pos PROVE l2[j] = lista[j]
      <4>1. j \in 1 .. Len(lista)
        BY <1>1, <1>2, <3>4
      <4>2. QED
        BY <1>6, <3>2, <3>4, <4>1
    <3>5. Len(l2) >= pos
      BY <1>1, <1>2, <1>6, <3>2
    <3>6. QED
      BY <1>6, <3>2, <3>3, <3>4, <3>5
  <2>3. QED
    BY <2>1, <2>2
<1>10. c.base = n.base /\ c.limite \in Nat
  BY <1>1, <1>8 DEF Fundido
<1>11. c \notin hs
  BY <1>7, <1>10
<1>12. a \in hs \/ ~hayAnt
  BY <1>1, <1>8
\* The one before swallows it.
<1>13. /\ EnFila(l3)
       /\ ToSet(l3) = (hs \ (sig \cup ant)) \cup {IF hayAnt THEN Fundido(a, c) ELSE c}
  <2>1. CASE hayAnt
    <3>1. pos - 1 \in 1 .. Len(l2) - 1 /\ pos - 1 < pos /\ pos - 1 + 1 = pos
      BY <1>2, <1>8, <1>9, <2>1
    <3>2. pos - 1 \in 1 .. Len(l2)
      BY <1>2, <3>1
    <3>3. l2[pos - 1] = a /\ l2[pos] = c
      BY <1>9, <3>1, <3>2
    <3>4. Fin(l2[pos - 1]) = l2[pos].base /\ pos > 1
      BY <1>10, <2>1, <3>3
    <3>5. l3 = Fundir(l2, pos - 1)
      BY <3>1, <3>4 DEF l3, AbsorberEnAnterior, Fundir
    <3>6. /\ EnFila(Fundir(l2, pos - 1))
          /\ ToSet(Fundir(l2, pos - 1)) =
                (ToSet(l2) \ {l2[pos - 1], l2[pos - 1 + 1]})
                    \cup {Fundido(l2[pos - 1], l2[pos - 1 + 1])}
      <4>1. EnFila(l2) /\ pos - 1 \in 1 .. Len(l2) - 1 /\ Fin(l2[pos - 1]) = l2[pos - 1 + 1].base
        BY <1>9, <3>1, <3>4
      <4> DEFINE k == pos - 1
      <4> HIDE DEF k
      <4>2. EnFila(l2) /\ k \in 1 .. Len(l2) - 1 /\ Fin(l2[k]) = l2[k + 1].base
        BY <4>1 DEF k
      <4>3. /\ EnFila(Fundir(l2, k))
            /\ ToSet(Fundir(l2, k)) = (ToSet(l2) \ {l2[k], l2[k + 1]}) \cup {Fundido(l2[k], l2[k + 1])}
        BY <4>2, FilaFundir
      <4>4. QED
        BY <4>3 DEF k
    <3>7. ToSet(l3) = (((hs \ sig) \cup {c}) \ {a, c}) \cup {Fundido(a, c)}
      BY <1>9, <3>1, <3>3, <3>5, <3>6
    <3>8. ant = {a}
      BY <1>4, <2>1
    <3>9. QED
      BY <1>11, <2>1, <3>5, <3>6, <3>7, <3>8
  <2>2. CASE ~hayAnt
    <3>1. ~(pos > 1 /\ Fin(l2[pos - 1]) = l2[pos].base)
      <4>1. SUFFICES ASSUME pos > 1, Fin(l2[pos - 1]) = l2[pos].base PROVE FALSE
        OBVIOUS
      <4>2. EnFila(l2) /\ Len(l2) \in Nat
        BY <1>9, FilaTipo
      <4>3. pos - 1 \in 1 .. Len(l2) /\ pos - 1 < pos
        BY <1>2, <1>9, <4>1, <4>2
      <4>4. l2[pos - 1] = a
        BY <1>9, <4>3
      <4>5. QED
        BY <1>9, <1>10, <2>2, <4>1, <4>4
    <3>2. l3 = l2
      BY <3>1 DEF l3, AbsorberEnAnterior
    <3>3. ant = {}
      BY <1>4, <2>2
    <3>4. QED
      BY <1>9, <2>2, <3>2, <3>3
  <2>3. QED
    BY <2>1, <2>2
\* What is left in its place.
<1>14. (IF hayAnt THEN Fundido(a, c) ELSE c) = [base |-> desde, limite |-> hasta - desde]
  <2>1. desde = IF hayAnt THEN a.base ELSE n.base
    BY <1>4
  <2>2. hasta = IF haySig THEN Fin(s) ELSE Fin(n)
    BY <1>4
  <2>3. /\ haySig => s.base \in Nat /\ s.limite \in Nat /\ n.base + n.limite = s.base
        /\ hayAnt => a.base \in Nat /\ a.limite \in Nat /\ a.base + a.limite = n.base
    BY <1>1, <1>8 DEF Fin
  <2>4. c.base = n.base /\ c.limite = hasta - n.base
    BY <1>1, <2>2, <2>3 DEF Fundido, Fin
  <2>5. c = [base |-> n.base, limite |-> hasta - n.base]
    <3>1. c = [base |-> c.base, limite |-> c.limite]
      <4>1. n = [base |-> n.base, limite |-> n.limite]
        BY DEF Hueco
      <4>2. m = [base |-> m.base, limite |-> m.limite]
        BY DEF Fundido
      <4> HIDE DEF m
      <4>3. QED
        BY <4>1, <4>2
    <3> HIDE DEF c
    <3>2. QED
      BY <2>4, <3>1
  <2>6. hasta \in Nat
    BY <1>1, <2>2, <2>3 DEF Fin
  <2>7. CASE hayAnt
    <3>1. Fundido(a, c) = [base |-> a.base, limite |-> a.limite + c.limite]
      BY DEF Fundido
    <3>2. a.limite + c.limite = hasta - a.base
      <4>1. /\ a.base \in Nat /\ a.limite \in Nat /\ a.base + a.limite = n.base
            /\ c.limite = hasta - n.base /\ n.base \in Nat /\ hasta \in Nat
        BY <1>1, <2>3, <2>4, <2>6, <2>7
      <4> HIDE DEF a, c, hasta
      <4>2. QED
        BY <4>1
    <3>3. QED
      BY <2>1, <2>7, <3>1, <3>2
  <2>8. CASE ~hayAnt
    BY <2>1, <2>5, <2>8
  <2>9. QED
    BY <2>7, <2>8
<1>15. QED
  BY <1>3, <1>5, <1>13, <1>14 DEF hs

-----------------------------------------------------------------------------
(* The invariant.                                                          *)

\* The list is in order, its holes are apart, and so are the segments, from them and from one
\* another.
ListaBien ==
    /\ EnFila(lista_huecos)
    /\ Fusionados(ToSet(lista_huecos), total)
    /\ \A s \in tomados : s.limite > 0 /\ Fin(s) <= total
    /\ \A s, t \in tomados : s # t => Disjuntos(s, t)
    /\ \A h \in ToSet(lista_huecos), s \in tomados : Disjuntos(h, s)

\* A request for no bytes would leave an empty hole (ListaHuecosCero.cfg).
SinCeros == 0 \notin TAMANIOS

InvLista == TypeOK /\ ListaBien

LEMMA ListaTipo ==
    ASSUME InvLista
    PROVE  /\ EnFila(lista_huecos) /\ Fusionados(ToSet(lista_huecos), total) /\ total \in Nat
           /\ ToSet(lista_huecos) \in SUBSET Hueco
           /\ \A s \in tomados : s \in Hueco /\ s.base \in Nat /\ s.limite \in Nat
           /\ Acotada(lista_huecos, total)
<1>1. EnFila(lista_huecos) /\ Fusionados(ToSet(lista_huecos), total) /\ total \in Nat
      /\ \A s \in tomados : s \in Hueco
  BY DEF InvLista, ListaBien, TypeOK
<1>2. ToSet(lista_huecos) \in SUBSET Hueco
  BY <1>1, FilaTipo
<1>3. ASSUME NEW i \in DOMAIN lista_huecos PROVE lista_huecos[i].limite <= total
  <2>1. lista_huecos[i] \in ToSet(lista_huecos)
    BY DEF ToSet
  <2>2. lista_huecos[i] \in Hueco /\ Fin(lista_huecos[i]) <= total
    BY <1>1, <1>2, <2>1 DEF Fusionados
  <2>3. QED
    BY <1>1, <2>2 DEF Hueco, Fin
<1>4. QED
  BY <1>1, <1>2, <1>3 DEF Acotada, Hueco

\* What an assignment finds and does.
LEMMA AsignarEs ==
    ASSUME InvLista, NEW tamanio \in TAMANIOS, Asignar(tamanio)
    PROVE  \E h \in EncontrarHueco(ToSet(lista_huecos), tamanio) :
             /\ h \in Caben(ToSet(lista_huecos), tamanio)
             /\ tomados' = tomados \cup {[base |-> h.base, limite |-> tamanio]}
             /\ EnFila(lista_huecos')
             /\ ToSet(lista_huecos') = Achicar(ToSet(lista_huecos), h, tamanio)
<1>1. tamanio \in Nat
  BY ListaAssumption
<1>2. EncontrarEnLista(lista_huecos, tamanio) = EncontrarHueco(ToSet(lista_huecos), tamanio)
  BY <1>1, ListaTipo, EncuentraElElegido
<1>3. PICK h \in EncontrarHueco(ToSet(lista_huecos), tamanio) :
          /\ tomados' = tomados \cup {[base |-> h.base, limite |-> tamanio]}
          /\ lista_huecos' = Recortar(lista_huecos, h, tamanio)
  BY <1>2 DEF Asignar
<1>4. h \in Caben(ToSet(lista_huecos), tamanio) /\ h \in ToSet(lista_huecos) /\ tamanio <= h.limite
  BY <1>1, ListaTipo DEF EncontrarHueco, Elegido, Caben, Hueco
<1>5. /\ EnFila(Recortar(lista_huecos, h, tamanio))
      /\ ToSet(Recortar(lista_huecos, h, tamanio)) = Achicar(ToSet(lista_huecos), h, tamanio)
  BY <1>1, <1>4, ListaTipo, RecortarAchica
<1>6. QED
  BY <1>3, <1>4, <1>5

\* Putting a range that nobody has in the list.
LEMMA Vuelve ==
    ASSUME InvLista, NEW n \in Hueco, n.limite > 0, NEW tope \in Nat, total <= tope, Fin(n) <= tope,
           \A h \in ToSet(lista_huecos) : Disjuntos(h, n)
    PROVE  /\ EnFila(InsertarEnLista(lista_huecos, n))
           /\ ToSet(InsertarEnLista(lista_huecos, n)) = InsertarYFusionar(ToSet(lista_huecos), n)
           /\ ToSet(InsertarEnLista(lista_huecos, n)) \in SUBSET Hueco
           /\ Fusionados(ToSet(InsertarEnLista(lista_huecos, n)), tope)
           /\ \A dir \in Int :
                 (\E g \in ToSet(InsertarEnLista(lista_huecos, n)) : Contiene(g, dir)) <=>
                     Contiene(n, dir) \/ \E g \in ToSet(lista_huecos) : Contiene(g, dir)
<1> DEFINE hs == ToSet(lista_huecos)
<1>1. hs \in SUBSET Hueco /\ EnFila(lista_huecos)
  BY ListaTipo
<1>2. Fusionados(hs, tope)
  <2>1. Fusionados(hs, total) /\ total \in Nat
    BY ListaTipo
  <2>2. \A h \in hs : Fin(h) \in Nat /\ Fin(h) <= total
    BY <1>1, <2>1 DEF Fusionados, Hueco, Fin
  <2>3. QED
    BY <2>1, <2>2 DEF Fusionados
<1>3. /\ EnFila(InsertarEnLista(lista_huecos, n))
      /\ ToSet(InsertarEnLista(lista_huecos, n)) = InsertarYFusionar(hs, n)
  BY <1>1, InsertarFusiona
<1>4. /\ Fusionados(InsertarYFusionar(hs, n), tope)
      /\ \A dir \in Int :
            (\E g \in InsertarYFusionar(hs, n) : Contiene(g, dir)) <=>
                Contiene(n, dir) \/ \E g \in hs : Contiene(g, dir)
  <2> HIDE DEF hs
  <2>1. \A h \in hs : Disjuntos(h, n)
    BY DEF hs
  <2>2. QED
    BY <1>1, <1>2, <2>1, InsertarHueco
<1>5. InsertarYFusionar(hs, n) \in SUBSET Hueco
  BY <1>1, InsertarTipo
<1>6. QED
  BY <1>3, <1>4, <1>5

\* Holes with other addresses, and segments that have none of them.
LEMMA Separados ==
    ASSUME NEW hs \in SUBSET Hueco, NEW limite, Fusionados(hs, limite), NEW s \in Hueco, s.limite > 0,
           \A dir \in Nat : Contiene(s, dir) => ~\E g \in hs : Contiene(g, dir)
    PROVE  \A h \in hs : Disjuntos(h, s)
<1>1. SUFFICES ASSUME NEW h \in hs PROVE Disjuntos(h, s)
  OBVIOUS
<1>2. /\ h.base \in Nat /\ h.limite \in Nat /\ h.limite > 0
      /\ s.base \in Nat /\ s.limite \in Nat
  BY DEF Hueco, Fusionados
<1>3. \A dir \in Nat : ~(Contiene(h, dir) /\ Contiene(s, dir))
  OBVIOUS
<1>4. QED
  BY <1>2, <1>3, ApartePorBytes

LEMMA NoComparten ==
    ASSUME InvLista, NEW h \in ToSet(lista_huecos), NEW s \in tomados, NEW dir \in Int,
           Contiene(s, dir), Contiene(h, dir)
    PROVE  FALSE
<1>1. h \in Hueco /\ s \in Hueco /\ Disjuntos(h, s)
  BY ListaTipo DEF InvLista, ListaBien
<1>2. QED
  BY <1>1 DEF Hueco, Disjuntos, Contiene, Fin

LEMMA ListaPaso ==
    ASSUME SinCeros, InvLista, [Next]_vars
    PROVE  InvLista'
<1> DEFINE hs == ToSet(lista_huecos)
           hs2 == ToSet(lista_huecos')
<1>1. /\ hs \in SUBSET Hueco /\ Fusionados(hs, total) /\ total \in Nat /\ EnFila(lista_huecos)
      /\ tomados \in SUBSET Hueco
      /\ \A s \in tomados : s.base \in Nat /\ s.limite \in Nat /\ s.limite > 0 /\ Fin(s) <= total
      /\ \A s, t \in tomados : s # t => Disjuntos(s, t)
      /\ \A h \in hs, s \in tomados : Disjuntos(h, s)
  BY ListaTipo DEF InvLista, ListaBien, TypeOK
<1>2. ASSUME NEW tamanio \in TAMANIOS, Asignar(tamanio)
      PROVE  InvLista'
  <2>1. tamanio \in Nat /\ tamanio > 0
    BY ListaAssumption DEF SinCeros
  <2>2. PICK h \in Caben(hs, tamanio) :
          /\ tomados' = tomados \cup {[base |-> h.base, limite |-> tamanio]}
          /\ EnFila(lista_huecos')
          /\ hs2 = Achicar(hs, h, tamanio)
    BY <1>2, AsignarEs
  <2>3. total' = total
    BY <1>2 DEF Asignar
  <2> DEFINE n == [base |-> h.base, limite |-> tamanio]
  <2>4. /\ h \in hs /\ h.base \in Nat /\ h.limite \in Nat /\ tamanio <= h.limite
        /\ n \in Hueco /\ n.limite > 0 /\ Fin(h) <= total
    BY <1>1, <2>1 DEF Caben, Hueco, Fusionados
  <2> HIDE DEF hs, hs2
  <2>5. hs2 \in SUBSET Hueco /\ Fusionados(hs2, total)
    BY <1>1, <2>1, <2>2, AchicarTipo, AchicarFusionados
  <2>6. \A dir \in Int : (\E g \in hs2 : Contiene(g, dir)) <=>
            /\ \E g \in hs : Contiene(g, dir)
            /\ ~(h.base <= dir /\ dir < h.base + tamanio)
    <3>1. \A dir \in Int : (\E g \in Achicar(hs, h, tamanio) : Contiene(g, dir)) <=>
            /\ \E g \in hs : Contiene(g, dir)
            /\ ~(h.base <= dir /\ dir < h.base + tamanio)
      BY <1>1, <2>1, AchicarBytes, Zenon
    <3>2. QED
      BY <2>2, <3>1
  <2>7. \A s \in tomados' : s \in Hueco /\ s.limite > 0 /\ Fin(s) <= total
    BY <1>1, <2>1, <2>2, <2>4 DEF Fin
  <2>8. \A s \in tomados : Disjuntos(s, n) /\ Disjuntos(n, s)
    BY <1>1, <2>1, <2>4 DEF Disjuntos, Fin
  <2>9. \A s, t \in tomados' : s # t => Disjuntos(s, t)
    BY <1>1, <2>2, <2>8
  <2>10. ASSUME NEW s \in tomados' PROVE \A g \in hs2 : Disjuntos(g, s)
    <3>1. ASSUME NEW dir \in Nat, Contiene(s, dir) PROVE ~\E g \in hs2 : Contiene(g, dir)
      <4>1. CASE s = n
        BY <2>4, <2>6, <3>1, <4>1 DEF Contiene, Fin
      <4>2. CASE s \in tomados
        <5>1. ~\E g \in hs : Contiene(g, dir)
          BY <3>1, <4>2, NoComparten DEF hs
        <5>2. QED
          BY <2>6, <5>1
      <4>3. QED
        BY <2>2, <4>1, <4>2
    <3>2. QED
      BY <2>5, <2>7, <3>1, Separados
  <2>11. ListaBien'
    BY <2>2, <2>3, <2>5, <2>7, <2>9, <2>10 DEF ListaBien, hs2
  <2>12. TypeOK'
    BY <1>1, <2>2, <2>3, <2>7 DEF TypeOK, EnFila
  <2>13. QED
    BY <2>11, <2>12 DEF InvLista
<1>3. ASSUME NEW s \in tomados, Liberar(s)
      PROVE  InvLista'
  <2>1. /\ tomados' = tomados \ {s} /\ total' = total
        /\ lista_huecos' = InsertarEnLista(lista_huecos, s)
    BY <1>3 DEF Liberar
  <2>2. s \in Hueco /\ s.limite > 0 /\ Fin(s) <= total /\ total <= total
        /\ \A h \in ToSet(lista_huecos) : Disjuntos(h, s)
    BY <1>1
  <2>3. /\ EnFila(lista_huecos') /\ hs2 \in SUBSET Hueco /\ Fusionados(hs2, total)
        /\ \A dir \in Int : (\E g \in hs2 : Contiene(g, dir)) <=>
                                Contiene(s, dir) \/ \E g \in hs : Contiene(g, dir)
    BY <1>1, <2>1, <2>2, Vuelve
  <2> HIDE DEF hs, hs2
  <2>4. ASSUME NEW t \in tomados' PROVE \A g \in hs2 : Disjuntos(g, t)
    <3>1. t \in tomados /\ t # s /\ t \in Hueco /\ t.limite > 0
      BY <1>1, <2>1
    <3>2. ASSUME NEW dir \in Nat, Contiene(t, dir) PROVE ~\E g \in hs2 : Contiene(g, dir)
      <4>1. ~\E g \in hs : Contiene(g, dir)
        BY <3>1, <3>2, NoComparten DEF hs
      <4>2. ~Contiene(s, dir)
        BY <1>1, <3>1, <3>2 DEF Disjuntos, Contiene, Fin
      <4>3. QED
        BY <2>3, <4>1, <4>2
    <3>3. QED
      BY <2>3, <3>1, <3>2, Separados
  <2>5. ListaBien'
    BY <1>1, <2>1, <2>3, <2>4 DEF ListaBien, hs2
  <2>6. TypeOK'
    BY <1>1, <2>1, <2>3 DEF TypeOK, EnFila
  <2>7. QED
    BY <2>5, <2>6 DEF InvLista
<1>4. ASSUME NEW tamanio \in STICKS, AgregarStick(tamanio)
      PROVE  InvLista'
  <2> DEFINE n == [base |-> total, limite |-> tamanio]
  <2>1. tamanio \in Nat /\ tamanio > 0
    BY ListaAssumption
  <2>2. /\ tomados' = tomados /\ total' = total + tamanio
        /\ lista_huecos' = InsertarEnLista(lista_huecos, n)
    BY <1>4 DEF AgregarStick
  <2>3. /\ n \in Hueco /\ n.limite > 0 /\ total + tamanio \in Nat
        /\ total <= total + tamanio /\ Fin(n) <= total + tamanio
    BY <1>1, <2>1 DEF Hueco, Fin
  <2>4. \A h \in ToSet(lista_huecos) : Disjuntos(h, n)
    BY <1>1 DEF Fusionados, Disjuntos
  <2>5. /\ EnFila(lista_huecos') /\ hs2 \in SUBSET Hueco /\ Fusionados(hs2, total + tamanio)
        /\ \A dir \in Int : (\E g \in hs2 : Contiene(g, dir)) <=>
                                Contiene(n, dir) \/ \E g \in hs : Contiene(g, dir)
    <3> HIDE DEF n
    <3>1. QED
      BY <2>2, <2>3, <2>4, Vuelve
  <2> HIDE DEF hs, hs2
  <2>6. ASSUME NEW t \in tomados PROVE \A g \in hs2 : Disjuntos(g, t)
    <3>1. ASSUME NEW dir \in Nat, Contiene(t, dir) PROVE ~\E g \in hs2 : Contiene(g, dir)
      <4>1. ~\E g \in hs : Contiene(g, dir)
        BY <3>1, NoComparten DEF hs
      <4>2. ~Contiene(n, dir)
        BY <1>1, <3>1 DEF Contiene, Fin
      <4>3. QED
        BY <2>5, <4>1, <4>2
    <3>2. t \in Hueco /\ t.limite > 0
      BY <1>1
    <3>3. QED
      BY <2>5, <3>1, <3>2, Separados
  <2>7. \A t \in tomados : t.limite > 0 /\ Fin(t) <= total + tamanio
    BY <1>1, <2>1 DEF Fin
  <2>8. ListaBien'
    BY <1>1, <2>2, <2>5, <2>6, <2>7 DEF ListaBien, hs2
  <2>9. TypeOK'
    BY <1>1, <2>2, <2>3, <2>5 DEF TypeOK, EnFila
  <2>10. QED
    BY <2>8, <2>9 DEF InvLista
<1>5. CASE UNCHANGED vars
  BY <1>5 DEF vars, InvLista, TypeOK, ListaBien
<1>6. QED
  BY <1>2, <1>3, <1>4, <1>5 DEF Next

LEMMA ListaInicial == Init => InvLista
<1> SUFFICES ASSUME Init PROVE InvLista
  OBVIOUS
<1>1. lista_huecos = <<>> /\ tomados = {} /\ total = 0
  BY DEF Init
<1>2. lista_huecos \in Seq(Hueco) /\ Len(lista_huecos) = 0 /\ ToSet(lista_huecos) = {}
  BY <1>1 DEF ToSet
<1>3. EnFila(lista_huecos)
  BY <1>2 DEF EnFila
<1>4. QED
  BY <1>1, <1>2, <1>3 DEF InvLista, TypeOK, ListaBien, Fusionados

-----------------------------------------------------------------------------
(* What the list promises.                                                 *)

\* insertar_hueco_y_fusionar and crear_segmento (segmentacion.c) keep the list in order of base,
\* its holes with bytes and apart from one another and from every segment, which are apart too,
\* as long as nobody asks for no bytes.
THEOREM ListaCorrecta ==
    ASSUME SinCeros
    PROVE  Spec => []InvLista
<1>1. InvLista /\ [Next]_vars => InvLista'
  BY ListaPaso
<1>2. QED
  BY <1>1, ListaInicial, PTL DEF Spec

\* "Inserta un hueco en lista_huecos (ordenada por base) y fusiona con adyacentes"
\* (segmentacion.c:36): each hole ends before the next begins, with used bytes in between.
THEOREM ListaEnOrden ==
    ASSUME SinCeros
    PROVE  Spec => []OrdenadaYFusionada
<1>1. ASSUME InvLista PROVE OrdenadaYFusionada
  <2>1. SUFFICES ASSUME NEW i \in 1 .. Len(lista_huecos) - 1
                 PROVE  Fin(lista_huecos[i]) < lista_huecos[i + 1].base
    BY DEF OrdenadaYFusionada
  <2>2. EnFila(lista_huecos) /\ Fusionados(ToSet(lista_huecos), total)
    BY <1>1, ListaTipo
  <2>3. Len(lista_huecos) \in Nat
    BY <2>2, FilaTipo
  <2>4. i \in 1 .. Len(lista_huecos) /\ i + 1 \in 1 .. Len(lista_huecos) /\ i < i + 1 /\ i # i + 1
    BY <2>3
  <2> DEFINE g == lista_huecos[i]
             h == lista_huecos[i + 1]
  <2>5. /\ g \in ToSet(lista_huecos) /\ g.base \in Nat /\ g.limite \in Nat /\ g.limite > 0
        /\ h \in ToSet(lista_huecos) /\ h.base \in Nat /\ h.limite \in Nat /\ h.limite > 0
    BY <2>2, <2>4, FilaTipo
  <2>6. g # h /\ Fin(g) <= h.base
    BY <2>2, <2>4, FilaOrden
  <2> HIDE DEF g, h
  <2>7. Fin(g) < h.base \/ Fin(h) < g.base
    BY <2>2, <2>5, <2>6 DEF Fusionados
  <2>8. Fin(g) < h.base
    BY <2>5, <2>6, <2>7 DEF Fin
  <2>9. QED
    BY <2>8 DEF g, h
<1>2. QED
  BY <1>1, ListaCorrecta, PTL

\* The loops of encontrar_hueco_best_fit and encontrar_hueco_worst_fit choose, and
\* crear_segmento and insertar_hueco_y_fusionar change, what the operators on sets that
\* Segmentacion uses say.
THEOREM ListaFiel ==
    ASSUME SinCeros
    PROVE  Spec => []ConjuntoFiel
<1>1. ASSUME InvLista PROVE ConjuntoFiel
  <2> DEFINE hs == ToSet(lista_huecos)
  <2>1. /\ EnFila(lista_huecos) /\ total \in Nat /\ Acotada(lista_huecos, total)
        /\ hs \in SUBSET Hueco
    BY <1>1, ListaTipo
  <2>2. ASSUME NEW tamanio \in TAMANIOS
        PROVE  /\ BestFit(lista_huecos, tamanio) = Elegido("BEST", hs, tamanio)
               /\ WorstFit(lista_huecos, tamanio) = Elegido("WORST", hs, tamanio)
               /\ \A h \in EncontrarEnLista(lista_huecos, tamanio) :
                    ToSet(Recortar(lista_huecos, h, tamanio)) = Achicar(hs, h, tamanio)
    <3>1. tamanio \in Nat
      BY ListaAssumption
    <3>2. BestFit(lista_huecos, tamanio) = Elegido("BEST", hs, tamanio)
      BY <2>1, <3>1, BestElige
    <3>3. WorstFit(lista_huecos, tamanio) = Elegido("WORST", hs, tamanio)
      BY <2>1, <3>1, WorstElige
    <3>4. EncontrarEnLista(lista_huecos, tamanio) = EncontrarHueco(hs, tamanio)
      BY <2>1, <3>1, EncuentraElElegido
    <3>5. ASSUME NEW h \in EncontrarEnLista(lista_huecos, tamanio)
          PROVE  ToSet(Recortar(lista_huecos, h, tamanio)) = Achicar(hs, h, tamanio)
      <4>1. h \in hs /\ tamanio <= h.limite
        BY <2>1, <3>1, <3>4 DEF EncontrarHueco, Elegido, Caben, Hueco
      <4>2. QED
        BY <2>1, <3>1, <4>1, RecortarAchica
    <3>6. QED
      BY <3>2, <3>3, <3>5
  <2>3. ASSUME NEW s \in tomados
        PROVE  ToSet(InsertarEnLista(lista_huecos, s)) = InsertarYFusionar(hs, s)
    <3>1. /\ s \in Hueco /\ s.limite > 0 /\ Fin(s) <= total /\ total <= total
          /\ \A h \in ToSet(lista_huecos) : Disjuntos(h, s)
      BY <1>1, ListaTipo DEF InvLista, ListaBien
    <3>2. QED
      BY <1>1, <2>1, <3>1, Vuelve
  <2>4. QED
    BY <2>2, <2>3 DEF ConjuntoFiel
<1>2. QED
  BY <1>1, ListaCorrecta, PTL

-----------------------------------------------------------------------------
(* The list implements the set of free addresses.                          *)

Libres(hs) == UNION {h.base .. Fin(h) - 1 : h \in hs}

LEMMA LibresEs ==
    ASSUME NEW hs \in SUBSET Hueco
    PROVE  \A dir : dir \in Libres(hs) <=> dir \in Int /\ \E h \in hs : Contiene(h, dir)
<1>1. \A h \in hs : h.base \in Int /\ Fin(h) \in Int
  BY DEF Hueco, Fin
<1>2. \A h \in hs : \A dir : dir \in h.base .. Fin(h) - 1 <=> dir \in Int /\ Contiene(h, dir)
  BY <1>1 DEF Contiene
<1>3. \A dir : dir \in Libres(hs) <=> \E h \in hs : dir \in h.base .. Fin(h) - 1
  BY Zenon DEF Libres
<1>4. QED
  BY <1>2, <1>3

\* The runs of free addresses that cannot be extended are the holes.
LEMMA TramosHuecos ==
    ASSUME NEW hs \in SUBSET Hueco, NEW tope \in Nat, Fusionados(hs, tope)
    PROVE  {t \in [base : Libres(hs), limite : 1 .. tope] :
               /\ t.base .. t.base + t.limite - 1 \subseteq Libres(hs)
               /\ t.base - 1 \notin Libres(hs)
               /\ t.base + t.limite \notin Libres(hs)} = hs
<1> DEFINE libre == Libres(hs)
           tramos == {t \in [base : libre, limite : 1 .. tope] :
                         /\ t.base .. t.base + t.limite - 1 \subseteq libre
                         /\ t.base - 1 \notin libre
                         /\ t.base + t.limite \notin libre}
<1>1. \A dir : dir \in libre <=> dir \in Int /\ \E h \in hs : Contiene(h, dir)
  BY LibresEs
<1> HIDE DEF libre
<1>2. \A h \in hs : /\ h.base \in Nat /\ h.limite \in Nat /\ h.limite > 0
                    /\ Fin(h) = h.base + h.limite /\ Fin(h) <= tope
                    /\ h = [base |-> h.base, limite |-> h.limite]
  BY DEF Hueco, Fusionados, Fin
<1>3. \A g, h \in hs : g # h => Fin(g) < h.base \/ Fin(h) < g.base
  BY DEF Fusionados
<1>4. ASSUME NEW h \in hs PROVE h \in tramos
  <2>1. /\ h.base \in Nat /\ h.limite \in Nat /\ h.limite > 0
        /\ Fin(h) = h.base + h.limite /\ Fin(h) <= tope
    BY <1>2
  <2>2. ASSUME NEW dir \in h.base .. h.base + h.limite - 1 PROVE dir \in libre
    BY <1>1, <2>1 DEF Contiene
  <2>3. ASSUME h.base - 1 \in libre PROVE FALSE
    <3>1. PICK g \in hs : Contiene(g, h.base - 1)
      BY <1>1, <2>3
    <3>2. g.base <= h.base - 1 /\ h.base - 1 < Fin(g) /\ g.base \in Nat /\ Fin(g) \in Nat
      BY <1>2, <3>1 DEF Contiene
    <3>3. g # h
      BY <2>1, <3>2
    <3>4. Fin(g) < h.base \/ Fin(h) < g.base
      BY <1>3, <3>3
    <3>5. QED
      BY <2>1, <3>2, <3>4
  <2>4. ASSUME h.base + h.limite \in libre PROVE FALSE
    <3>1. PICK g \in hs : Contiene(g, h.base + h.limite)
      BY <1>1, <2>4
    <3>2. g.base <= Fin(h) /\ Fin(h) < Fin(g) /\ g.base \in Nat /\ Fin(g) \in Nat
      BY <1>2, <2>1, <3>1 DEF Contiene
    <3>3. g # h
      BY <2>1, <3>2
    <3>4. Fin(g) < h.base \/ Fin(h) < g.base
      BY <1>3, <3>3
    <3>5. QED
      BY <2>1, <3>2, <3>4
  <2>5. h.base \in libre /\ h.limite \in 1 .. tope
    BY <2>1, <2>2
  <2>6. h \in [base : libre, limite : 1 .. tope]
    BY <1>2, <2>5
  <2>7. QED
    BY <2>2, <2>3, <2>4, <2>6
<1>5. ASSUME NEW t \in tramos PROVE t \in hs
  <2>1. /\ t.base \in libre /\ t.limite \in 1 .. tope
        /\ t = [base |-> t.base, limite |-> t.limite]
        /\ t.base .. t.base + t.limite - 1 \subseteq libre
        /\ t.base - 1 \notin libre /\ t.base + t.limite \notin libre
    OBVIOUS
  <2>2. t.base \in Int /\ t.limite \in Nat /\ t.limite > 0
    BY <1>1, <2>1
  <2>3. PICK h \in hs : Contiene(h, t.base)
    BY <1>1, <2>1
  <2>4. ~Contiene(h, t.base - 1) /\ ~Contiene(h, t.base + t.limite)
    BY <1>1, <2>1, <2>2
  <2>5. h.base \in Nat /\ h.limite \in Nat /\ Fin(h) = h.base + h.limite
        /\ h = [base |-> h.base, limite |-> h.limite]
    BY <1>2
  <2>6. h.base = t.base /\ Fin(h) <= t.base + t.limite
    BY <2>2, <2>3, <2>4, <2>5 DEF Contiene
  <2>7. ASSUME Fin(h) < t.base + t.limite PROVE FALSE
    <3>1. Fin(h) \in t.base .. t.base + t.limite - 1
      BY <2>2, <2>3, <2>5, <2>7 DEF Contiene
    <3>2. PICK g \in hs : Contiene(g, Fin(h))
      BY <1>1, <2>1, <3>1
    <3>3. g.base <= Fin(h) /\ Fin(h) < Fin(g) /\ g.base \in Nat /\ Fin(g) \in Nat
      BY <1>2, <3>2 DEF Contiene
    <3>4. g # h
      BY <2>5, <3>3
    <3>5. Fin(g) < h.base \/ Fin(h) < g.base
      BY <1>3, <3>4
    <3>6. QED
      BY <2>5, <3>3, <3>5
  <2>8. h.limite = t.limite
    BY <2>2, <2>5, <2>6, <2>7
  <2>9. QED
    BY <2>1, <2>5, <2>6, <2>8
<1>6. tramos = hs
  BY <1>4, <1>5
<1>7. QED
  BY <1>6 DEF libre

\* The run to cut is the hole the code chooses.
LEMMA ElegidosHuecos ==
    ASSUME InvLista, NEW tamanio \in Nat
    PROVE  Bytes!Elegidos(tamanio) = EncontrarHueco(ToSet(lista_huecos), tamanio)
<1> DEFINE hs == ToSet(lista_huecos)
<1>1. hs \in SUBSET Hueco /\ Fusionados(hs, total) /\ total \in Nat
  BY ListaTipo
<1>2. Bytes!Tramos = {t \in [base : Libres(hs), limite : 1 .. total] :
                         /\ t.base .. t.base + t.limite - 1 \subseteq Libres(hs)
                         /\ t.base - 1 \notin Libres(hs)
                         /\ t.base + t.limite \notin Libres(hs)}
  BY DEF Bytes!Tramos, Bytes!Direcciones, Libres
<1>3. Bytes!Tramos = hs
  <2> HIDE DEF hs
  <2>1. QED
    BY <1>1, <1>2, TramosHuecos
<1>4. Bytes!Elegidos(tamanio) =
        {t \in hs : /\ t.limite >= tamanio
                    /\ \A u \in hs : u.limite >= tamanio => Preferido(ALLOCATION_STRATEGY, t, u)}
  BY <1>3, Zenon DEF Bytes!Elegidos, Bytes!Mejor, Preferido
<1>5. QED
  BY <1>4 DEF EncontrarHueco, Elegido, Caben

LEMMA LibresMenos ==
    ASSUME NEW hs \in SUBSET Hueco, NEW tope \in Nat, Fusionados(hs, tope),
           NEW tamanio \in Nat, NEW h \in Caben(hs, tamanio)
    PROVE  Libres(Achicar(hs, h, tamanio)) = Libres(hs) \ (h.base .. h.base + tamanio - 1)
<1>1. Achicar(hs, h, tamanio) \in SUBSET Hueco
  BY AchicarTipo
<1>2. h.base \in Nat
  BY DEF Caben, Hueco
<1>3. \A dir \in Int : (\E g \in Achicar(hs, h, tamanio) : Contiene(g, dir)) <=>
               /\ \E g \in hs : Contiene(g, dir)
               /\ ~(h.base <= dir /\ dir < h.base + tamanio)
  BY AchicarBytes, Zenon
<1>4. \A dir : dir \in Libres(Achicar(hs, h, tamanio)) <=>
               dir \in Int /\ \E g \in Achicar(hs, h, tamanio) : Contiene(g, dir)
  BY <1>1, LibresEs
<1>5. \A dir : dir \in Libres(hs) <=> dir \in Int /\ \E g \in hs : Contiene(g, dir)
  BY LibresEs
<1>6. \A dir \in Int : dir \in h.base .. h.base + tamanio - 1 <=>
               h.base <= dir /\ dir < h.base + tamanio
  BY <1>2
<1> DEFINE quedan == Libres(Achicar(hs, h, tamanio))
           libre == Libres(hs)
           van == h.base .. h.base + tamanio - 1
<1>7. \A dir : dir \in quedan <=> dir \in libre /\ dir \notin van
  BY <1>3, <1>4, <1>5, <1>6
<1>8. QED
  BY <1>7

LEMMA LibresMas ==
    ASSUME NEW hs \in SUBSET Hueco, NEW hs2 \in SUBSET Hueco, NEW n \in Hueco,
           \A dir \in Int : (\E g \in hs2 : Contiene(g, dir)) <=>
                                Contiene(n, dir) \/ \E g \in hs : Contiene(g, dir)
    PROVE  Libres(hs2) = Libres(hs) \cup (n.base .. n.base + n.limite - 1)
<1>1. n.base \in Nat /\ n.limite \in Nat
  BY DEF Hueco
<1>2. \A dir : dir \in Libres(hs2) <=> dir \in Int /\ \E g \in hs2 : Contiene(g, dir)
  BY LibresEs
<1>3. \A dir : dir \in Libres(hs) <=> dir \in Int /\ \E g \in hs : Contiene(g, dir)
  BY LibresEs
<1>4. \A dir : dir \in n.base .. n.base + n.limite - 1 <=> dir \in Int /\ Contiene(n, dir)
  BY <1>1 DEF Contiene, Fin
<1>5. \A dir : dir \in Libres(hs2) <=>
               dir \in Libres(hs) \/ dir \in n.base .. n.base + n.limite - 1
  BY <1>2, <1>3, <1>4
<1>6. QED
  BY <1>5

\* Cutting the hole that encontrar_hueco chooses cuts the best run of free addresses there is,
\* and inserting and fusing returns the addresses: the list is the set of free addresses.
LEMMA PasoDeBytes ==
    ASSUME InvLista, [Next]_vars
    PROVE  [Bytes!Next]_(Bytes!vars)
<1> DEFINE hs == ToSet(lista_huecos)
           hs2 == ToSet(lista_huecos')
           libres == Libres(hs)
           libres2 == Libres(hs2)
<1>1. /\ hs \in SUBSET Hueco /\ Fusionados(hs, total) /\ total \in Nat /\ EnFila(lista_huecos)
      /\ \A s \in tomados : s \in Hueco /\ s.limite > 0 /\ Fin(s) <= total
      /\ \A h \in hs, s \in tomados : Disjuntos(h, s)
  BY ListaTipo DEF InvLista, ListaBien, TypeOK
<1>2. ASSUME NEW tamanio \in TAMANIOS, Asignar(tamanio)
      PROVE  Bytes!Asignar(tamanio)
  <2>1. tamanio \in Nat /\ total' = total
    BY <1>2, ListaAssumption DEF Asignar
  <2>2. PICK h \in EncontrarHueco(hs, tamanio) :
          /\ h \in Caben(hs, tamanio)
          /\ tomados' = tomados \cup {[base |-> h.base, limite |-> tamanio]}
          /\ hs2 = Achicar(hs, h, tamanio)
    BY <1>2, AsignarEs
  <2>3. h \in Bytes!Elegidos(tamanio)
    BY <2>1, <2>2, ElegidosHuecos
  <2>4. libres2 = libres \ (h.base .. h.base + tamanio - 1)
    <3> HIDE DEF hs, hs2
    <3>1. QED
      BY <1>1, <2>1, <2>2, LibresMenos
  <2>5. QED
    BY <2>1, <2>2, <2>3, <2>4 DEF Bytes!Asignar, Bytes!Direcciones, Libres
<1>3. ASSUME NEW s \in tomados, Liberar(s)
      PROVE  Bytes!Liberar(s)
  <2>1. /\ tomados' = tomados \ {s} /\ total' = total
        /\ lista_huecos' = InsertarEnLista(lista_huecos, s)
    BY <1>3 DEF Liberar
  <2>2. s \in Hueco /\ s.limite > 0 /\ Fin(s) <= total /\ total <= total
        /\ \A h \in ToSet(lista_huecos) : Disjuntos(h, s)
    BY <1>1
  <2>3. /\ hs2 \in SUBSET Hueco
        /\ \A dir \in Int : (\E g \in hs2 : Contiene(g, dir)) <=>
                                Contiene(s, dir) \/ \E g \in hs : Contiene(g, dir)
    BY <1>1, <2>1, <2>2, Vuelve
  <2>4. libres2 = libres \cup (s.base .. s.base + s.limite - 1)
    <3> HIDE DEF hs, hs2
    <3>1. QED
      BY <1>1, <2>2, <2>3, LibresMas
  <2>5. QED
    BY <2>1, <2>4 DEF Bytes!Liberar, Bytes!Direcciones, Libres
<1>4. ASSUME NEW tamanio \in STICKS, AgregarStick(tamanio)
      PROVE  Bytes!AgregarStick(tamanio)
  <2> DEFINE n == [base |-> total, limite |-> tamanio]
  <2>1. tamanio \in Nat /\ tamanio > 0
    BY ListaAssumption
  <2>2. /\ tomados' = tomados /\ total' = total + tamanio /\ total + tamanio <= MAX_MEMORIA
        /\ lista_huecos' = InsertarEnLista(lista_huecos, n)
    BY <1>4 DEF AgregarStick
  <2>3. /\ n \in Hueco /\ n.limite > 0 /\ total + tamanio \in Nat
        /\ total <= total + tamanio /\ Fin(n) <= total + tamanio
        /\ n.base = total /\ n.limite = tamanio
    BY <1>1, <2>1 DEF Hueco, Fin
  <2>4. \A h \in ToSet(lista_huecos) : Disjuntos(h, n)
    BY <1>1 DEF Fusionados, Disjuntos
  <2> HIDE DEF n
  <2>5. /\ hs2 \in SUBSET Hueco
        /\ \A dir \in Int : (\E g \in hs2 : Contiene(g, dir)) <=>
                                Contiene(n, dir) \/ \E g \in hs : Contiene(g, dir)
    BY <2>2, <2>3, <2>4, Vuelve
  <2>6. libres2 = libres \cup (n.base .. n.base + n.limite - 1)
    <3> HIDE DEF hs, hs2
    <3>1. QED
      BY <1>1, <2>3, <2>5, LibresMas
  <2>7. QED
    BY <2>2, <2>3, <2>6 DEF Bytes!AgregarStick, Bytes!Direcciones, Libres
<1>5. CASE UNCHANGED vars
  BY <1>5 DEF vars, Bytes!vars
<1>6. QED
  BY <1>2, <1>3, <1>4, <1>5 DEF Next, Bytes!Next

\* The list of segmentacion.c implements the allocator of BytesLibres, whose state is the set
\* of free addresses: each request is cut from the best (or the largest) run of free bytes, the
\* leftmost of equals, and each release and each stick give their bytes back, no more, no less.
THEOREM ImplementaDirecciones ==
    ASSUME SinCeros
    PROVE  Spec => ImplementaBytes
<1>1. Init => Bytes!Init
  <2>1. SUFFICES ASSUME Init PROVE Bytes!Init
    OBVIOUS
  <2>2. ToSet(lista_huecos) = {} /\ tomados = {} /\ total = 0
    BY <2>1 DEF Init, ToSet
  <2>3. QED
    BY <2>2 DEF Bytes!Init
<1>2. InvLista /\ [Next]_vars => [Bytes!Next]_(Bytes!vars)
  BY PasoDeBytes
<1>3. QED
  BY <1>1, <1>2, ListaCorrecta, PTL DEF Spec, Bytes!Spec, ImplementaBytes
=============================================================================
