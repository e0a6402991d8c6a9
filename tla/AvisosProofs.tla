---------------------------- MODULE AvisosProofs ----------------------------
(* Theorems about AvisosSticks, for any number of CPUs and sticks.           *)
EXTENDS AvisosSticks, SequenceTheorems, TLAPS

-----------------------------------------------------------------------------
(* Prefixes.                                                               *)

LEMMA PrefijoPuntual ==
    ASSUME NEW S, NEW s \in Seq(S), NEW t \in Seq(S)
    PROVE  IsPrefix(s, t) <=> Len(s) <= Len(t) /\ \A i \in 1 .. Len(s) : s[i] = t[i]
<1>1. ASSUME Len(s) <= Len(t)
      PROVE  SubSeq(s, 1, Len(s)) = SubSeq(t, 1, Len(s)) <=> \A i \in 1 .. Len(s) : s[i] = t[i]
  <2>1. /\ SubSeq(s, 1, Len(s)) = [i \in 1 .. Len(s) |-> s[i]]
        /\ SubSeq(t, 1, Len(s)) = [i \in 1 .. Len(s) |-> t[i]]
    BY <1>1
  <2>2. QED
    BY <2>1
<1>2. QED
  BY <1>1 DEF IsPrefix

LEMMA PrefijoVacio ==
    ASSUME NEW S, NEW t \in Seq(S)
    PROVE  <<>> \in Seq(S) /\ IsPrefix(<<>>, t)
<1>1. <<>> \in Seq(S) /\ Len(<<>>) = 0 /\ Len(t) \in Nat
  OBVIOUS
<1>2. Len(<<>>) <= Len(t) /\ \A i \in 1 .. Len(<<>>) : <<>>[i] = t[i]
  BY <1>1
<1>3. QED
  BY <1>1, <1>2, PrefijoPuntual

LEMMA PrefijoPropio ==
    ASSUME NEW S, NEW t \in Seq(S)
    PROVE  IsPrefix(t, t)
  BY PrefijoPuntual

\* What was a prefix of the list stays one when a stick is added at its end.
LEMMA PrefijoAgregado ==
    ASSUME NEW S, NEW s \in Seq(S), NEW t \in Seq(S), NEW e \in S, IsPrefix(s, t)
    PROVE  IsPrefix(s, Append(t, e))
<1>1. Len(s) <= Len(t) /\ \A i \in 1 .. Len(s) : s[i] = t[i]
  BY PrefijoPuntual
<1>2. /\ Append(t, e) \in Seq(S)
      /\ Len(Append(t, e)) = Len(t) + 1
      /\ \A i \in 1 .. Len(t) : Append(t, e)[i] = t[i]
  OBVIOUS
<1>3. Len(s) <= Len(Append(t, e)) /\ \A i \in 1 .. Len(s) : s[i] = Append(t, e)[i]
  BY <1>1, <1>2
<1>4. QED
  BY <1>2, <1>3, PrefijoPuntual

\* conectarme_nuevas_sticks: a shorter prefix completed with the end of a longer one is the
\* longer one.
LEMMA PrefijoCompletado ==
    ASSUME NEW S, NEW s \in Seq(S), NEW l \in Seq(S), NEW t \in Seq(S),
           IsPrefix(s, t), IsPrefix(l, t), Len(s) <= Len(l)
    PROVE  s \o SubSeq(l, Len(s) + 1, Len(l)) = l
<1> DEFINE resto == SubSeq(l, Len(s) + 1, Len(l))
<1>1. /\ resto \in Seq(S)
      /\ Len(resto) = Len(l) - Len(s)
      /\ \A i \in 1 .. Len(l) - Len(s) : resto[i] = l[Len(s) + i]
  OBVIOUS
<1>2. \A i \in 1 .. Len(s) : s[i] = l[i]
  BY PrefijoPuntual
<1> HIDE DEF resto
<1>3. /\ s \o resto \in Seq(S)
      /\ Len(s \o resto) = Len(l)
      /\ \A i \in 1 .. Len(l) :
            (s \o resto)[i] = IF i <= Len(s) THEN s[i] ELSE resto[i - Len(s)]
  BY <1>1
<1>4. ASSUME NEW i \in 1 .. Len(l) PROVE (s \o resto)[i] = l[i]
  BY <1>1, <1>2, <1>3
<1>5. s \o resto = l
  BY <1>3, <1>4, SeqEqual
<1>6. QED
  BY <1>5 DEF resto

-----------------------------------------------------------------------------
(* The inductive invariant: every list on its way is a prefix of the list. *)

Comienzo(l, lista) == l \in Seq(STICKS) /\ IsPrefix(l, lista)

InvListas ==
    /\ lista_memory_sticks \in Seq(STICKS)
    /\ lista_memory_stick \in [CPUS -> Seq(STICKS)]
    /\ canal \in [CPUS -> Seq(Seq(STICKS))]
    /\ \A c \in CPUS : Comienzo(lista_memory_stick[c], lista_memory_sticks)
    /\ \A c \in CPUS : \A i \in 1 .. Len(canal[c]) : Comienzo(canal[c][i], lista_memory_sticks)
    /\ principal.paso = "avisar" => Comienzo(principal.lista, lista_memory_sticks)
    /\ hilo_notif.paso = "mandar" => Comienzo(hilo_notif.lista, lista_memory_sticks)

LEMMA ListasInicial == Init => InvListas
<1>1. <<>> \in Seq(STICKS) /\ <<>> \in Seq(Seq(STICKS)) /\ Len(<<>>) = 0
  OBVIOUS
<1>2. IsPrefix(<<>>, <<>>)
  BY <1>1, PrefijoVacio
<1>3. QED
  BY <1>1, <1>2 DEF Init, InvListas, Comienzo, En

\* A prefix that is sent arrives as one, behind the ones on their way.
LEMMA EnviarPrefijo ==
    ASSUME InvListas, NEW lista, Comienzo(lista, lista_memory_sticks), NEW destinos,
           canal' = Enviada(lista, destinos), UNCHANGED lista_memory_sticks
    PROVE  /\ canal' \in [CPUS -> Seq(Seq(STICKS))]
           /\ \A c \in CPUS : \A i \in 1 .. Len(canal'[c]) : Comienzo(canal'[c][i], lista_memory_sticks')
<1>1. ASSUME NEW c \in CPUS
      PROVE  /\ canal'[c] \in Seq(Seq(STICKS))
             /\ \A i \in 1 .. Len(canal'[c]) : Comienzo(canal'[c][i], lista_memory_sticks)
  <2>1. canal'[c] = canal[c] \/ canal'[c] = Append(canal[c], lista)
    BY DEF Enviada
  <2>2. canal[c] \in Seq(Seq(STICKS)) /\ lista \in Seq(STICKS)
    BY DEF InvListas, Comienzo
  <2>3. CASE canal'[c] = canal[c]
    BY <2>2, <2>3 DEF InvListas
  <2>4. CASE canal'[c] = Append(canal[c], lista)
    <3>1. /\ Append(canal[c], lista) \in Seq(Seq(STICKS))
          /\ Len(Append(canal[c], lista)) = Len(canal[c]) + 1
          /\ \A i \in 1 .. Len(canal[c]) : Append(canal[c], lista)[i] = canal[c][i]
          /\ Append(canal[c], lista)[Len(canal[c]) + 1] = lista
      BY <2>2
    <3>2. ASSUME NEW i \in 1 .. Len(canal[c]) + 1 PROVE Comienzo(Append(canal[c], lista)[i], lista_memory_sticks)
      <4>1. CASE i \in 1 .. Len(canal[c])
        BY <3>1, <4>1 DEF InvListas
      <4>2. CASE i = Len(canal[c]) + 1
        BY <3>1, <4>2
      <4>3. QED
        BY <2>2, <4>1, <4>2
    <3>3. QED
      BY <2>4, <3>1, <3>2
  <2>5. QED
    BY <2>1, <2>3, <2>4
<1>2. DOMAIN canal' = CPUS /\ canal' = [c \in CPUS |-> canal'[c]]
  BY DEF Enviada
<1>3. QED
  BY <1>1, <1>2

\* conectarme_nuevas_sticks.
LEMMA RecibirPrefijo ==
    ASSUME InvListas, NEW c \in CPUS, RecibirAviso(c)
    PROVE  InvListas'
<1> DEFINE lista == Head(canal[c])
           mias  == lista_memory_stick[c]
<1>1. /\ canal[c] \in Seq(Seq(STICKS))
      /\ canal[c] # <<>>
      /\ mias \in Seq(STICKS)
      /\ lista_memory_sticks \in Seq(STICKS)
  BY DEF InvListas, RecibirAviso
<1>2. /\ Len(canal[c]) \in Nat \ {0}
      /\ lista = canal[c][1]
      /\ Tail(canal[c]) \in Seq(Seq(STICKS))
      /\ Len(Tail(canal[c])) = Len(canal[c]) - 1
      /\ \A i \in 1 .. Len(Tail(canal[c])) : Tail(canal[c])[i] = canal[c][i + 1]
  BY <1>1
<1>3. Comienzo(lista, lista_memory_sticks) /\ Comienzo(mias, lista_memory_sticks)
  <2>1. 1 \in 1 .. Len(canal[c])
    BY <1>2
  <2>2. QED
    BY <1>2, <2>1 DEF InvListas
<1>4. UNCHANGED <<lista_memory_sticks, principal, hilo_notif>>
  BY DEF RecibirAviso, memoria
<1>5. /\ canal' \in [CPUS -> Seq(Seq(STICKS))]
      /\ \A d \in CPUS : \A i \in 1 .. Len(canal'[d]) : Comienzo(canal'[d][i], lista_memory_sticks)
  <2>1. \/ canal' = [canal EXCEPT ![c] = <<>>]
        \/ canal' = [canal EXCEPT ![c] = Tail(canal[c])]
    BY DEF RecibirAviso, Caer
  <2>2. <<>> \in Seq(Seq(STICKS)) /\ Len(<<>>) = 0
    OBVIOUS
  <2>3. \A i \in 1 .. Len(Tail(canal[c])) : Comienzo(Tail(canal[c])[i], lista_memory_sticks)
    <3>1. SUFFICES ASSUME NEW i \in 1 .. Len(Tail(canal[c])) PROVE Comienzo(Tail(canal[c])[i], lista_memory_sticks)
      OBVIOUS
    <3>2. i + 1 \in 1 .. Len(canal[c])
      BY <1>2
    <3>3. QED
      BY <1>2, <3>2 DEF InvListas
  <2>4. canal \in [CPUS -> Seq(Seq(STICKS))]
    BY DEF InvListas
  <2>5. canal' \in [CPUS -> Seq(Seq(STICKS))]
    BY <1>2, <2>1, <2>2, <2>4
  <2>6. ASSUME NEW d \in CPUS, NEW i \in 1 .. Len(canal'[d]) PROVE Comienzo(canal'[d][i], lista_memory_sticks)
    <3>1. CASE d # c
      <4>1. canal'[d] = canal[d]
        BY <2>1, <2>4, <3>1
      <4>2. QED
        BY <4>1 DEF InvListas
    <3>2. CASE d = c
      <4>1. canal'[d] = <<>> \/ canal'[d] = Tail(canal[c])
        BY <2>1, <2>4, <3>2
      <4>2. canal'[d] = Tail(canal[c])
        BY <2>2, <4>1
      <4>3. i \in 1 .. Len(Tail(canal[c]))
        BY <4>2
      <4>4. QED
        BY <2>3, <4>2, <4>3
    <3>3. QED
      BY <3>1, <3>2
  <2>7. QED
    BY <2>5, <2>6
<1>6. /\ lista_memory_stick' \in [CPUS -> Seq(STICKS)]
      /\ \A d \in CPUS : Comienzo(lista_memory_stick'[d], lista_memory_sticks)
  <2>1. \/ lista_memory_stick' = lista_memory_stick
        \/ /\ Len(mias) <= Len(lista)
           /\ lista_memory_stick' = [lista_memory_stick EXCEPT ![c] = mias \o NuevasSticks(c, lista)]
    <3>1. Len(mias) \in Nat /\ Len(lista) \in Nat
      BY <1>1, <1>3 DEF Comienzo
    <3>2. IF Len(lista) < Len(mias) THEN lista_memory_stick' = lista_memory_stick
          ELSE lista_memory_stick' = IF Len(lista) = Len(mias) THEN lista_memory_stick
                   ELSE [lista_memory_stick EXCEPT ![c] = mias \o NuevasSticks(c, lista)]
      BY Zenon DEF RecibirAviso
    <3> DEFINE nuevas == [lista_memory_stick EXCEPT ![c] = mias \o NuevasSticks(c, lista)]
    <3> HIDE DEF lista, mias, nuevas
    <3>3. \/ lista_memory_stick' = lista_memory_stick
          \/ Len(mias) <= Len(lista) /\ lista_memory_stick' = nuevas
      BY <3>1, <3>2 DEF nuevas
    <3>4. QED
      BY <3>3 DEF nuevas
  <2>2. ASSUME Len(mias) <= Len(lista) PROVE mias \o NuevasSticks(c, lista) = lista
    BY <1>1, <1>3, <2>2, PrefijoCompletado DEF Comienzo, NuevasSticks
  <2>3. lista_memory_stick' = lista_memory_stick
        \/ lista_memory_stick' = [lista_memory_stick EXCEPT ![c] = lista]
    BY <2>1, <2>2
  <2>4. lista \in Seq(STICKS) /\ lista_memory_stick \in [CPUS -> Seq(STICKS)]
    BY <1>3 DEF Comienzo, InvListas
  <2>5. \A d \in CPUS : lista_memory_stick'[d] = lista_memory_stick[d] \/ lista_memory_stick'[d] = lista
    BY <2>3, <2>4
  <2>6. QED
    BY <1>3, <2>3, <2>4, <2>5 DEF InvListas
<1>7. QED
  BY <1>4, <1>5, <1>6 DEF InvListas, Comienzo

LEMMA ListasPaso == InvListas /\ [Next]_vars => InvListas'
<1> SUFFICES ASSUME InvListas, [Next]_vars PROVE InvListas'
  OBVIOUS
<1>1. ASSUME NEW c \in CPUS, AceptarCpu(c) PROVE InvListas'
  BY <1>1 DEF AceptarCpu, InvListas, Comienzo, memoria
<1>2. ASSUME AnotarCpu PROVE InvListas'
  BY <1>2 DEF AnotarCpu, InvListas, Comienzo, En
<1>3. ASSUME NEW s \in STICKS, agregar_memory_stick(s) PROVE InvListas'
  <2>1. /\ lista_memory_sticks \in Seq(STICKS)
        /\ lista_memory_sticks' = Append(lista_memory_sticks, s)
        /\ lista_memory_sticks' \in Seq(STICKS)
    BY <1>3 DEF agregar_memory_stick, InvListas
  <2>2. ASSUME NEW l, Comienzo(l, lista_memory_sticks) PROVE Comienzo(l, lista_memory_sticks')
    BY <2>1, <2>2, PrefijoAgregado DEF Comienzo
  <2>3. principal' = [paso |-> "avisar", lista |-> lista_memory_sticks']
    BY <1>3 DEF agregar_memory_stick
  <2>4. Comienzo(lista_memory_sticks', lista_memory_sticks')
    BY <2>1, PrefijoPropio DEF Comienzo
  <2>5. UNCHANGED <<lista_memory_stick, canal, hilo_notif>>
    BY <1>3 DEF agregar_memory_stick
  <2>6. principal'.lista = lista_memory_sticks'
    BY <2>3
  <2>7. QED
    BY <2>1, <2>2, <2>4, <2>5, <2>6 DEF InvListas
<1>4. ASSUME AvisarATodas PROVE InvListas'
  <2>1. /\ Comienzo(principal.lista, lista_memory_sticks)
        /\ canal' = Enviada(principal.lista, Destinos)
        /\ UNCHANGED <<lista_memory_sticks, lista_memory_stick, hilo_notif>>
        /\ principal'.paso # "avisar"
    BY <1>4 DEF AvisarATodas, InvListas, En, memoria
  <2>2. /\ canal' \in [CPUS -> Seq(Seq(STICKS))]
        /\ \A c \in CPUS : \A i \in 1 .. Len(canal'[c]) : Comienzo(canal'[c][i], lista_memory_sticks')
    BY <2>1, EnviarPrefijo
  <2>3. QED
    BY <2>1, <2>2 DEF InvListas, Comienzo
<1>5. ASSUME AceptarAvisos PROVE InvListas'
  BY <1>5 DEF AceptarAvisos, InvListas, Comienzo, memoria
<1>6. ASSUME RegistrarAvisos PROVE InvListas'
  BY <1>6 DEF RegistrarAvisos, InvListas, Comienzo
<1>7. ASSUME LeerLista PROVE InvListas'
  BY <1>7, PrefijoPropio DEF LeerLista, InvListas, Comienzo, memoria
<1>8. ASSUME MandarLista PROVE InvListas'
  <2>1. /\ Comienzo(hilo_notif.lista, lista_memory_sticks)
        /\ canal' = Enviada(hilo_notif.lista, {hilo_notif.cpu})
        /\ UNCHANGED <<lista_memory_sticks, lista_memory_stick, principal>>
        /\ hilo_notif'.paso # "mandar"
    BY <1>8 DEF MandarLista, InvListas, En, memoria
  <2>2. /\ canal' \in [CPUS -> Seq(Seq(STICKS))]
        /\ \A c \in CPUS : \A i \in 1 .. Len(canal'[c]) : Comienzo(canal'[c][i], lista_memory_sticks')
    BY <2>1, EnviarPrefijo
  <2>3. QED
    BY <2>1, <2>2 DEF InvListas, Comienzo
<1>9. ASSUME NEW c \in CPUS, OlvidarCpu(c) PROVE InvListas'
  BY <1>9 DEF OlvidarCpu, InvListas, Comienzo
<1>10. ASSUME NEW c \in CPUS, ConectarAvisos(c) PROVE InvListas'
  BY <1>10 DEF ConectarAvisos, InvListas, Comienzo, memoria
<1>11. ASSUME NEW c \in CPUS, RecibirCierre(c) \/ Morir(c) PROVE InvListas'
  <2>1. /\ canal' = [canal EXCEPT ![c] = <<>>]
        /\ UNCHANGED <<lista_memory_sticks, lista_memory_stick, principal, hilo_notif>>
    BY <1>11 DEF RecibirCierre, Morir, Caer, memoria
  <2>2. canal \in [CPUS -> Seq(Seq(STICKS))] /\ <<>> \in Seq(Seq(STICKS)) /\ Len(<<>>) = 0
    BY DEF InvListas
  <2>3. /\ canal' \in [CPUS -> Seq(Seq(STICKS))]
        /\ \A d \in CPUS : canal'[d] = canal[d] \/ canal'[d] = <<>>
    BY <2>1, <2>2
  <2>4. \A d \in CPUS : \A i \in 1 .. Len(canal'[d]) : Comienzo(canal'[d][i], lista_memory_sticks)
    BY <2>2, <2>3 DEF InvListas
  <2>5. QED
    BY <2>1, <2>3, <2>4 DEF InvListas, Comienzo
<1>12. ASSUME UNCHANGED vars PROVE InvListas'
  BY <1>12 DEF vars, memoria, InvListas, Comienzo
<1>13. QED
  BY <1>1, <1>2, <1>3, <1>4, <1>5, <1>6, <1>7, <1>8, <1>9, <1>10, <1>11, <1>12, RecibirPrefijo
     DEF Next, HiloPrincipal, HiloNotif, Cpu

\* Every list of sticks, of a CPU or on its way to one, is the beginning of the list of
\* kernel_memory (memory_sticks.c 33, memory.c 474-491).
THEOREM ListasCorrectas == Spec => []InvListas
<1>1. QED
  BY ListasInicial, ListasPaso, PTL DEF Spec

\* The memory a CPU sees is the memory of kernel_memory as far as it goes
\* (conectarme_nuevas_sticks).
THEOREM SticksEnOrden == Spec => []ListaPrefijo
<1>1. InvListas => ListaPrefijo
  BY DEF InvListas, Comienzo, ListaPrefijo
<1>2. QED
  BY <1>1, ListasCorrectas, PTL
=============================================================================
