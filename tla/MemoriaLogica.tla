--------------------------- MODULE MemoriaLogica ----------------------------
(***************************************************************************)
(* What a process is promised about its memory: each segment is an array   *)
(* of its own that only the accesses of its process change, whatever is    *)
(* allocated, released, suspended, resumed or compacted around it; an      *)
(* access inside the segment is carried out and one outside is refused.    *)
(* What a new segment holds is not promised.  Datos implements this.       *)
(***************************************************************************)
EXTENDS Integers, Sequences

CONSTANTS PIDS, IDS, TAMANIOS, VALORES, SEGMENT_MAX_SIZE

VARIABLES
    contenido,   \* pid -> segment -> its bytes, the empty sequence if there is no segment
    acceso       \* pid -> the access under way

\* datos: what was read so far, or what has to be written; hecho: how much of it was written.
Ninguno == [op |-> "ninguno", dir |-> 0, destino |-> 0, tamanio |-> 0, datos |-> <<>>, hecho |-> 0]

Id(dir) == dir \div SEGMENT_MAX_SIZE
Desp(dir) == dir % SEGMENT_MAX_SIZE
Entra(p, dir, tamanio) == Desp(dir) + tamanio <= Len(contenido[p][Id(dir)])

Init ==
    /\ contenido = [p \in PIDS |-> [id \in IDS |-> <<>>]]
    /\ acceso = [p \in PIDS |-> Ninguno]

Crear(p, id, tamanio) ==
    /\ contenido[p][id] = <<>>
    /\ \E nuevo \in [1 .. tamanio -> VALORES] : contenido' = [contenido EXCEPT ![p][id] = nuevo]
    /\ UNCHANGED acceso

\* Some segments of a process are given back.
Borrar(p) ==
    /\ acceso[p] = Ninguno
    /\ \E ids \in SUBSET IDS :
        contenido' = [contenido EXCEPT ![p] = [id \in IDS |-> IF id \in ids THEN <<>> ELSE @[id]]]
    /\ UNCHANGED acceso

\* A new access, any that has nothing done yet: carried out if its range is inside the
\* segment, and only then.
Pedir(p) ==
    LET nuevo == acceso'[p]
    IN  /\ acceso[p] = Ninguno
        /\ nuevo.op \in {"leer", "copiar", "escribir", "fallo"}
        /\ nuevo.op # "fallo" <=> Entra(p, nuevo.dir, nuevo.tamanio)
        /\ nuevo.datos = <<>> \/ (nuevo.op = "escribir" /\ Len(nuevo.datos) = nuevo.tamanio)
        /\ nuevo.hecho = 0
        /\ acceso' = [acceso EXCEPT ![p] = nuevo]
        /\ UNCHANGED contenido

\* The next bytes of the range are read.
Leer(p) ==
    LET a == acceso[p]
    IN  /\ a.op \in {"leer", "copiar"}
        /\ \E n \in 1 .. a.tamanio - Len(a.datos) :
            acceso' = [acceso EXCEPT ![p].datos = @ \o
                [i \in 1 .. n |-> contenido[p][Id(a.dir)][Desp(a.dir) + Len(@) + i]]]
        /\ UNCHANGED contenido

\* COPY_MEM goes on to write what it read, or is refused.
Copiar(p) ==
    LET a == acceso[p]
    IN  /\ a.op = "copiar"
        /\ Len(a.datos) = a.tamanio
        /\ acceso' = [acceso EXCEPT ![p] =
            IF Entra(p, a.destino, a.tamanio)
            THEN [a EXCEPT !.op = "escribir", !.dir = a.destino]
            ELSE [Ninguno EXCEPT !.op = "fallo", !.dir = a.destino, !.tamanio = a.tamanio]]
        /\ UNCHANGED contenido

\* The next bytes of the data are written where they belong.
Escribir(p) ==
    LET a == acceso[p]
    IN  /\ a.op = "escribir"
        /\ \E n \in 1 .. a.tamanio - a.hecho :
            /\ contenido' = [contenido EXCEPT ![p][Id(a.dir)] =
                [i \in DOMAIN @ |-> IF i - Desp(a.dir) \in a.hecho + 1 .. a.hecho + n
                                    THEN a.datos[i - Desp(a.dir)] ELSE @[i]]]
            /\ acceso' = [acceso EXCEPT ![p].hecho = @ + n]

Terminar(p) ==
    /\ acceso[p].op = "leer" => Len(acceso[p].datos) = acceso[p].tamanio
    /\ acceso[p].op = "escribir" => acceso[p].hecho = acceso[p].tamanio
    /\ acceso[p].op # "copiar"
    /\ acceso' = [acceso EXCEPT ![p] = Ninguno]
    /\ UNCHANGED contenido

Next == \E p \in PIDS :
    \/ \E id \in IDS, tamanio \in TAMANIOS : Crear(p, id, tamanio)
    \/ Borrar(p) \/ Pedir(p) \/ Leer(p) \/ Copiar(p) \/ Escribir(p) \/ Terminar(p)

Spec == Init /\ [][Next]_<<contenido, acceso>>
=============================================================================
