------------------------------- MODULE Turnos -------------------------------
(* What the mutexes of the user programs promise: whoever asks gets a turn,  *)
(* turns are served in order, and only the first in line is inside.          *)
EXTENDS Naturals, Sequences

CONSTANTS PIDS, MUTEX

VARIABLES
    turno,   \* for each mutex, the processes in line; the first owns it
    tiene,   \* the mutexes each program has locked and not yet unlocked
    vivos    \* the processes that have not ended

vars == <<turno, tiene, vivos>>

EnLinea(p, m) == \E i \in DOMAIN turno[m] : turno[m][i] = p
Primero(p, m) == turno[m] # <<>> /\ Head(turno[m]) = p

Init ==
    /\ turno = [m \in MUTEX |-> <<>>]
    /\ tiene = [p \in PIDS |-> {}]
    /\ vivos = PIDS

\* A program asks for a mutex; it may get it at once.
Pedir(p, m) ==
    /\ p \in vivos
    /\ ~EnLinea(p, m)
    /\ UNCHANGED vivos
    /\ turno' = [turno EXCEPT ![m] = Append(@, p)]
    /\ \/ UNCHANGED tiene
       \/ Primero(p, m)' /\ tiene' = [tiene EXCEPT ![p] = @ \cup {m}]

\* Its turn has come and it runs again; whatever it had asked for it has.
Entrar(p, ms) ==
    /\ \A m \in ms : Primero(p, m)
    /\ tiene' = [tiene EXCEPT ![p] = @ \cup ms]
    /\ UNCHANGED <<turno, vivos>>

\* It unlocks.
Soltar(p, m) ==
    /\ m \in tiene[p]
    /\ turno' = [turno EXCEPT ![m] = Tail(@)]
    /\ tiene' = [tiene EXCEPT ![p] = @ \ {m}]
    /\ UNCHANGED vivos

\* It ends: it stops using what it had, and then its turns pass.
Morir(p) ==
    /\ vivos' = vivos \ {p}
    /\ tiene' = [tiene EXCEPT ![p] = {}]
    /\ UNCHANGED turno

Heredar(p, m) ==
    /\ p \notin vivos
    /\ Primero(p, m)
    /\ turno' = [turno EXCEPT ![m] = Tail(@)]
    /\ UNCHANGED <<tiene, vivos>>

Next ==
    \E p \in PIDS :
        \/ Morir(p)
        \/ \E ms \in SUBSET MUTEX : Entrar(p, ms)
        \/ \E m \in MUTEX : Pedir(p, m) \/ Soltar(p, m) \/ Heredar(p, m)

Spec == Init /\ [][Next]_vars

\* Two programs are never inside the same mutex, and who is inside is first.
Exclusion ==
    \A p \in PIDS : \A m \in tiene[p] :
        Primero(p, m) /\ \A q \in PIDS \ {p} : m \notin tiene[q]
=============================================================================
