---------------------------- MODULE CicloDeVida -----------------------------
(* What the Kernel Scheduler promises of a process, without threads, sockets *)
(* or semaphores: it is in one state, it changes state only along the arrows *)
(* the scheduler logs ("Pasa del estado ... al estado ..."), a process in    *)
(* EXEC has one CPU and a CPU has at most one process.                       *)
EXTENDS Naturals

CONSTANTS PIDS, CPUS, Nadie

VARIABLES
    estado,     \* the state of each process
    en          \* the process each CPU was given

cvars == <<estado, en>>

Init ==
    \E p \in PIDS :
      /\ estado = [q \in PIDS |-> IF q = p THEN "READY" ELSE "NEW"]
      /\ en = [c \in CPUS |-> Nadie]

Pasa(p, desde, a) ==
    /\ estado[p] = desde
    /\ estado' = [estado EXCEPT ![p] = a]

Crear(p) == Pasa(p, "NEW", "READY") /\ UNCHANGED en
Despertar(p) == Pasa(p, "BLOCK", "READY") /\ UNCHANGED en

Despachar(p, c) ==
    /\ Pasa(p, "READY", "EXEC")
    /\ en[c] = Nadie
    /\ en' = [en EXCEPT ![c] = p]

\* Preempted, blocked or ended: the CPU is free in the same step.
Dejar(p, c) ==
    /\ \E a \in {"READY", "BLOCK", "EXIT"} : Pasa(p, "EXEC", a)
    /\ en[c] = p
    /\ en' = [en EXCEPT ![c] = Nadie]

Next ==
    \E p \in PIDS :
      \/ Crear(p)
      \/ Despertar(p)
      \/ \E c \in CPUS : Despachar(p, c) \/ Dejar(p, c)

Spec == Init /\ [][Next]_cvars
=============================================================================
