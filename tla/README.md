# Verification of the kernel project (UTN FRBA, sistemas operativos)

The repository simulates an operating system as six programs that talk over TCP: a
kernel scheduler, a kernel memory, CPUs, memory sticks, a swap and I/O devices. Its README
says that "evitar deadlocks, race conditions y espera activa" is a central part of the work;
this directory states what that means and checks it. Names of state and operations are
those of the C code, in Spanish as there.

## 1. Inventory

| Component | State | Operations | Talks to |
|---|---|---|---|
| kernel_memory, segments (`segmentacion.c`) | `lista_huecos`, `memoria_libre_size`, segment table of each process | `crear_segmento`, `eliminar_segmento`, `asignar_fisica_segmento`, `liberar_fisica_segmento` | called by the request loop |
| kernel_memory, swap (`swap_gestor.c`) | `tabla_swap`, `en_swap` of each process | `suspender_proceso`, `desuspender_proceso` | swap module, memory sticks |
| kernel_memory, compaction (`compactacion.c`) | the same tables | `compactar` | memory sticks |
| kernel_memory, processes (`inicializar.c`, `serializacion_m.c`) | `lista_procesos`, saved contexts | create, finish, get and update a context, read an instruction | CPUs |
| kernel_memory, sticks (`memory_sticks.c`) | `lista_memory_sticks`, `memoria_total_size` | a stick connects; a stick disconnects (abort) | notices to every CPU |
| kernel_memory, request loop (`memory.c`) | - | `atender_scheduler`, `atender_cpu`, `notificar_desuspendibles` | scheduler (two sockets), CPUs |
| kernel_scheduler, dispatch (`scheduler.c`, `utils_scheduler.c`) | `exec_lista`, `ready_cola` / `cola_multinivel`, `sem_hay_proceso_ready`, `sem_hay_cpu_libre`, `compactando` | `planificador`, one `atender_cliente` thread per client, quantum timers | CPUs, kernel_memory |
| kernel_scheduler, middle term (`utils_scheduler.c`) | `block_lista`, `susp_block`, `susp_ready` | block, suspend after a timeout, resume when kernel_memory says it fits | kernel_memory |
| kernel_scheduler, devices (`gestion_IO_scheduler.c`) | a queue and two semaphores per device | one thread per device | I/O modules |
| kernel_scheduler, user mutexes (`scheduler.c`) | `lista_mutex`: owner, counter, queue | create, lock, unlock, release at death, priority inheritance | - |
| cpu (`cpu.c`, `ciclo.c`, ...) | registers, segment table of the running process | fetch, decode, execute, system calls, interruptions | scheduler, kernel_memory, sticks |
| utils (`mmu.c`, `serializacion.c`) | - | address translation, messages | - |
| memory_stick, swap, io | bytes, blocks, a device | read, write, sleep, print | - |

What is hard: handlers of several clients run at once and share lists under different mutexes;
the scheduler keeps the number of free CPUs and of ready processes in semaphores apart from the
lists they count; a process may be interrupted, block or die while a control message to its CPU
is on its way; compaction stops every CPU in the middle of that; suspension and its notices race
with the end of I/O; and kernel_memory keeps four tables (holes, segments, swap blocks, flags)
that must agree after every request and after half a request.

What makes each component correct:

* segments, swap, compaction: no byte in two places, none lost, the counter exact, the swap table
  a mirror of the suspended processes, a compaction after which the request fits;
* dispatch: a process is in one place, a CPU runs what the scheduler believes it runs, semaphores
  agree with lists, nothing runs while memory is compacted;
* middle term: a process that finished its I/O runs again; a notice never resumes what does not fit;
* user mutexes: one owner, a waiter per queue entry, nobody resumes without the mutex;
* locks: no cycle of waits;
* notices: every CPU ends up with every stick.

The hazards, each at its line, are in `PROJECT.json`.

## 2. Modules

| Module | What it is | Code |
|---|---|---|
| `Huecos` | the free list as a set of holes; search, cut, insertion with fusion | `segmentacion.c` 7-66 |
| `ListaHuecos` | the same list element by element, with the loops of the code | `segmentacion.c` |
| `BytesLibres` | abstract: the set of free addresses; an allocator cuts the best run | what `ListaHuecos` implements |
| `Segmentacion` | segment tables, holes, swap blocks, compaction, one action per critical section | `segmentacion.c`, `swap_gestor.c`, `compactacion.c`, `inicializar.c`, `memory_sticks.c` |
| `Despacho` | planner, handlers, timers, the SLEEP device, compaction, and the CPUs at the other end of the sockets | `scheduler.c`, `utils_scheduler.c`, `cpu.c`, `contexto.c`, `interrupciones.c` |
| `CicloDeVida` | abstract: the states of a process and the arrows between them | what `Despacho` implements |
| `MutexUsuario` | user mutexes, inheritance of priority, and the lists a blocked process goes through | `scheduler.c`, `utils_scheduler.c` |
| `Turnos` | abstract: a line of processes for each mutex, the first one inside | what `MutexUsuario` implements |
| `Mmu` | address translation: a logical or physical range as pieces of memory sticks | `mmu.c`, `pedazos_fisico` |
| `Datos` | composes `Segmentacion` and `Mmu` with the bytes: sticks, swap file, the accesses of the processes | `swap_gestor.c`, `compactacion.c`, `memory_sticks.c`, `swap.c`, `memo_stick.c`, `instrucciones.c` |
| `MemoriaLogica` | abstract: each segment is an array only its process writes | what `Datos` implements |
| `Suspension` | devices, the timer of a blocked process, suspension, notices and the way back, with the refusals | `scheduler.c`, `gestion_IO_scheduler.c`, `utils_scheduler.c`, `memory.c`, `main.c` of io |
| `AvisosSticks` | how CPUs learn the sticks there are | `memory.c`, `memory_sticks.c`, `cpu.c`, `kernel_memory_avisos.c` |
| `MC*` | values for TLC | - |
| `DireccionesProofs` | lemmas about ranges of addresses: holes cut and inserted with fusion, sticks end to end, ranges cut into pieces | - |
| `MemoriaProofs` | theorems about `Segmentacion`, `Mmu` and `Datos`, and the refinement of `MemoriaLogica` | - |
| `ListaHuecosProofs` | theorems about `ListaHuecos`, and its refinement of `BytesLibres` | - |
| `DespachoProofs` | theorems about `Despacho` | - |
| `AvisosProofs` | theorems about `AvisosSticks` | - |
| `ListasProofs` | lemmas about lists without repetition: appending, inserting, taking the first or a given element out | - |
| `SuspensionProofs` | theorems about `Suspension` | - |
| `MutexProofs` | theorems about `MutexUsuario`, and its refinement of `Turnos` | - |

**Segmentacion.** The variables are the lists of `memory_gestor.h`; `hilo` is what
`atender_scheduler` is in the middle of, and `todos`, `cursor` are the locals of the loop of
`compactar`. `suspender_proceso` and `desuspender_proceso` release `memoria_mutex` and
`swap_mutex` between segments, so each of their sections is an action and the main thread may
add a stick (`AgregarStick`) between any two; `compactar` and the release of a dead process
hold the mutex, so their steps cannot be interleaved with it. The failures (no swap block, a
segment larger than a block, no hole) are actions of their own: they leave the tables as the
code leaves them, and the scheduler gives the process up (`perdidos`, `utils_scheduler.c`
784-787 and 907-911). The environment keeps the promises written at the head of the module.

**Despacho.** A step is one critical section. `manejador[c]` is the thread `atender_cliente` of
CPU `c`: `paso` names the section it is about to run and the other fields are its locals
(`pid`, the CPU and the `t_pcb` found). `planif` is the planner in the same way. A `sem_post`
right after a section is part of it; a read of `cpu->pcb` with `exec_mutex` released is a step of
its own. `a_cpu` and `a_plan` are the two directions of a socket: nothing is lost or reordered
within one. A CPU is `corre[c]` (the process it executes, or none) and three actions:
`obtener_pid`, `hay_interrupcion` and a syscall, chosen freely by the program. Kernel Memory
answers freely among `RESPUESTAS`; that its answers are right is the subject of `Segmentacion`.
`mutex_socket` is the owner of `mutex_socket_memory` while a compaction keeps it; shorter uses
are one step. `caida` records a NULL dereference or the `abort` of `manejar_bsod`, after which
nothing moves.

Left out of `Despacho`, and of its properties: CMN and priorities, STDIN and STDOUT, user
mutexes, suspension, disconnections. `INIT_PROC` refused by Kernel Memory leaves nothing behind.

**MutexUsuario.** A step is again one critical section, and `manejador[h]` the thread: a handler
of a CPU, the one of the SLEEP device, or `hilo_escuchar_memory`. `mutex_lista` is the owner of
`mutex_lista_mutex`, which MUTEX_LOCK keeps from the queue of the mutex to `bloquear_proceso` and
an EXIT keeps while it passes on every mutex of the dead process. The search of the owner
(`buscar_pcb_por_pid`) is one step per list, since the owner moves meanwhile; with CMN it takes
the owner out of its queue (`sacado`) until `FinTransitiva` puts it back under the inherited
priority. A process that is woken goes through `sacar`, then READY, or SUSP BLOCK, SUSP READY and
READY. MUTEX_UNLOCK ends with `Recalcular` (under `mutex_lista_mutex`) and `Reponer` (after it).
`pide` and `tiene` are the programs' side: what they called MUTEX_LOCK on and what they came back
with. `Linea(n)`, the owner followed by the queue, is what `Turnos` sees.

Abstracted: the protocol between a handler and its CPU, which is the subject of `Despacho` (a
resumed process runs, a quantum ends when the handler is idle); one turn of the loop over the other
mutexes (`Transitiva`) is one step; `Suspender` is one step, as `block_mutex` is kept all along;
`susp_ready` is a set, as a notice may name any of it. SLEEP's two pushes and the
posts that follow a section are part of it. Left out: programs that unlock what they do
not hold or lock twice, the preemption of CMN, STDIN and STDOUT, compaction, and the refusals of
Kernel Memory (the process suspended always fits in swap, the one resumed in memory).

**Datos.** Every action of `Segmentacion` that moves bytes gets a conjunct that says which (`Guardar`,
`Traer`, `Restaurar`, `Mover`, `Conectar`), and the others are taken as they are (`SinCopia`).
`bytes` is the contents of all the sticks by physical address, `archivo` the swap file, `copia` the
local of `desuspender_proceso`. An access of a process is translated once into the list `faltan`
of pieces (operators of `Mmu`) and goes on one piece at a time, each a message to one stick, which
serves it under its own mutex; requests of other processes to Kernel Memory fall in between. A new
stick holds anything. `UINT32` is the number of values of a `uint32_t`, small in the run so that
`desplazamiento + tamanio` wraps. `ContenidoDe` is what a process sees of a segment wherever
its bytes are; `MemoriaLogica` promises that only the accesses of the process change it. The
environment keeps what the other modules are about: nothing is asked about a process while it
accesses memory, and a compaction starts when nobody does (`Despacho`; section 5 says when that is
false).

**Suspension.** A step is a critical section of a thread of the scheduler: one per CPU connection
(`hilo_cpu`), one that sends to each device, one that reads its answers (`hilo_io`), one per timer,
and the listener of notices. A request to Kernel Memory is part of the step that makes it,
as its caller keeps `block_mutex` or `mutex_susp_ready` meanwhile, and only the
notices (`avisos`) travel: each is the set of processes that fit alone when it was computed. Memory
is the set of holes of `Huecos` and one segment per process; swap is a number of blocks.
`espera_texto` and `cadena` follow the text of STDIN: who asked for it, and what waits in
`cadenaStdin` while the process is in swap. `destino_invalido` are the processes whose last STDIN
named an address that Kernel Memory does not find in their segments. The CPU checks the address
before it sends the syscall (`syscalls.c:107-113` of cpu; a refusal ends the process, as `EXIT`
does), but with the table it was given at dispatch: after a MEM_FREE, which nobody answers
(`scheduler.c:706-710`), the CPU may read its context before Kernel Memory frees the segment, and
STDIN passes the check. The text is then written nowhere, on both paths: in BLOCK the handler sees
ESCRITURA_FALLIDA and gives the process up (`EscrituraFallida`); in swap `memory.c:376-378` ignores
the result, DESUSPEND_OK is answered and the process goes on (`EscribirAlVolver` leaves it in
`espera_texto`). A resumption is two holdings of `mutex_socket_memory`, `Desuspender` and then
`PedirDesuspendibles`, with `mutex_susp_ready` kept in between (`SuspReadyLibre`); a refused one asks
for nothing. A handler of STDOUT takes `mutex_stdout_ocupado` once more when all is done
(`Desocupar`). `rechazados` are the processes whose resumption was
refused, `roto` that freed memory was used, after which nothing is followed. Left out: sticks that
connect (they only make more fit), CPUs and their preemption, user mutexes.

**AvisosSticks.** The main thread and `hilo_notificaciones_cpu` of Kernel Memory each with its `paso`,
the table of CPU connections, one notices channel per CPU, and the CPUs, which may die at any moment
and be started again with the same id (another element of `CPUS` with the same `idCpu`). A list is
sent whole; `canal` keeps the order within a socket and nothing else.

## 3. What is checked

All runs are in `PROJECT.json`. Deadlock is not checked where the system may rightly stop (memory
full and every process gone; every process ended; a crash).

| Run | Instance | Shows |
|---|---|---|
| `memoria` | 2 processes, 2 segments each, sizes 1-2, sticks 2-3, 5 bytes, 3 swap blocks, best fit | no byte shared, lost or miscounted; swap table and flags agree; the thread of the requests is never stuck half-way; after a compaction the retry fits; the inductive invariant |
| `huecos` | 8 bytes, sizes 1-3 | the list stays sorted and fused, agrees with the set operators under both strategies, implements `BytesLibres` |
| `datos` | 2 processes, a segment of 1-2 bytes each, 2 sticks of 2 bytes, 2 swap blocks, worst fit, bytes of two values, 8 values of `uint32_t` | `MemoriaLogica` is implemented: no byte is lost by suspensions, resumptions, compactions, or accesses piece by piece; the translation is exact, wrap included |
| `despacho_fifo` | 3 processes, 2 CPUs, every syscall | a process in one place; both semaphores count what they stand for; a CPU runs what it was given; no NULL read |
| `despacho_compacta` | 2 processes, 2 CPUs, one compaction with every answer of Kernel Memory | the inductive invariant, the compaction waits for whom it asked, `CicloDeVida` is implemented |
| `rr_viva` | 3 processes, 1 CPU, RR, programs that need not yield | a ready process comes to execute thanks to the quantum; the token of the CPU is neither lost nor doubled |
| `suspension` | 3 processes, STDIN, segments of 1-2 bytes, 2 bytes of memory, 2 swap blocks | scheduler and memory agree on who is suspended; nobody who fits is forgotten; one use of the device at a time; the text asked for at an address the process holds is in memory before the process goes on, a failed write loses it or not as the code does |
| `suspension_viva` | 2 processes, SLEEP and STDOUT, memory for one | who waits for a device is where its handler looks; a process that finished its I/O and fits is resumed |
| `avisos` | 3 CPUs, two of them with the same id, 2 sticks | a CPU knows the first sticks, in order; one that was recorded comes to know them all |
| `mutex` | CMN, 3 processes of two priorities, 2 CPUs, 2 mutexes, one created on the way | one owner, recorded and alone; counter, queue and lists agree; nothing stays with the dead; priority given back; a process in one place; `Turnos` is implemented |
| `mutex_viva` | RR, 3 processes, 2 CPUs, 1 mutex; suspension, quanta, ends | who asks for a mutex gets it |
| `compacta_trabada` | | an expected violation, section 5 |

**Bounds.** Two processes with two segments are enough for a hole between neighbours, a hole
between segments of different processes, a full swap and a process that fails half-way while
another one is resident; five bytes leave room for two holes apart. Two CPUs are needed for a
handler of one to meet the planner serving the other; three processes so that one waits while
two run. In `mutex`, a third process can wait for the owner of one mutex while that owner waits for
the other (transitive inheritance), and two can wait at once for one owner; the two processes of
equal priority, and the CPUs, are interchangeable and are declared symmetric (never with
liveness). `MAX_COMPACTACIONES` stops a run after that many compactions. `MAX_EN_VUELO`
lets a quantum timer expire only when the sockets of its CPU hold fewer messages: stale answers
would otherwise accumulate without end, since each one can preempt a later dispatch whose timer
starts another. Two is enough for a stale answer to meet a fresh interruption.
`MAX_MEMORIA` bounds the bytes of all the sticks.

In `datos` a segment of two bytes may start in the middle of a stick and end in the next one, a
compaction moves it over itself, and a block of the swap is used again by another process;
`TAM_COPIA` has a size whose sum with the displacement wraps. `MAX_ACCESOS` is one: accesses of
two processes in the middle of each other multiply the states and touch disjoint bytes, which is
what `SegmentosDisjuntos` says. In `suspension` two segments of one byte, or one of two, fill the memory,
so that a notice may name two processes of which only one still fits when it is served; two swap blocks for
three processes make the third suspension be refused. `DIRECCIONES_INVALIDAS` is one: one process at
a time has named an address it does not hold, enough to lose the device and to resume it without its
text, while the other two keep theirs. `MAX_AVISOS` stops programs and timers (never the
threads of the scheduler) from causing a notice while one is on its way. In `avisos` two sticks are needed for
lists to cross, two CPUs of one id for an entry to be taken over, and the third one is there to be
unaffected. None of these bounds is used in the proofs,
which hold for any value of them.

**Fairness.** Weak fairness of every thread (planner, device, handler of each CPU, timers) and of
each CPU reading its socket: the operating system schedules them and none of them waits for
another one except at the guards of the model. A program that computes is not forced to do
anything: `rr_viva` needs nothing of it. With RR and SLEEP together `SeAtiende` is false (a
discarded interruption, section 5), so `rr_viva` leaves SLEEP out.
In `suspension_viva` the threads of the handlers, of the devices and of the notices are fair and
a device ends what it was given; a program may do nothing for ever, and a timer last
as long as it likes. In `avisos` both threads of Kernel Memory are fair and so is a CPU that
lives; nobody has to connect or to die.
`mutex_viva` adds that a program unlocks what it locked, although the quantum may take the CPU from
it each time before it does (strong fairness of its unlock): no mutex can be promised otherwise. A
process may end while it owns the mutex, and nothing is assumed of that. It leaves SLEEP and
notices out: there a handler may wait for `mutex_susp_ready` each time another one has it, which
`pthread_mutex_lock` does not exclude.

Each property has a mutant: a change to a definition of the model, like a bug of that line would
make, that the run must detect. The mutants are the definitions marked so next to the originals.

## 4. What is proved

TLAPS checks these for every value of the constants.

* `TipoCorrecto`: the types of `Segmentacion`.
* `MemoriaCorrecta`: `InvMemoria`. As long as no suspension failed half-way, holes and
  resident segments tile the memory (`Mapa`), holes are fused, and the swap table mirrors the
  suspended processes. The five properties `SegmentosDisjuntos`, `HuecosLibres`,
  `HuecosFusionados`, `SinFugas` and `SwapConsistente` follow. None of them is inductive
  alone: that an allocation takes bytes of nobody needs holes and segments to be disjoint,
  that the hole a release inserts can be fused needs every byte between to be covered, and during a
  compaction the tiling is replaced by `Empaquetado` (what was moved is packed below the cursor,
  what was not lies above it), which needs that no block is marked for a resident segment. The
  lemmas of `DireccionesProofs` say what cutting and inserting do to the holes, those at the head of
  `MemoriaProofs` what they and packing do to a tiling; then there is one lemma per action.
* `CuentaCorrecta`: `InvCuenta`, `InvMemoria` with two sums. `memoria_libre_size` is the number
  of addresses the list covers (`BytesDe`), and `memoria_total_size` less it the number of those of
  the segments in memory. Each step does one of four things to the segments (`Mudanza`: nothing
  or a new stick, one leaves, one comes, one goes elsewhere with the same size), which gives the
  second sum; where the memory is tiled the first follows, and during a compaction, when the
  list is the one from before, nothing of it changes until the last step makes it the one hole.
  `ContadorExacto` (`LibreExacta`) follows: the sum over the list is a recursive
  function, and another one that satisfies its equation is the number of bytes (`SumaEsBytes`:
  a least set where they differ has no element to take out). `CompactarSirve`
  (`ReintentoEntra`) too: the one hole a compaction leaves has as many bytes as the counter.
* After failures. `InvMemoria` says nothing once a process is given up; two invariants of
  `Segmentacion` do. `RegistroCorrecto` is `InvFirme`, with no hypothesis: a swap block belongs to
  one listed process and one of its segments, with its size; a process in swap that was not given
  up has a block for each of its segments; no hole or segment passes the end of the memory; what a
  compaction has still to move is in the tables as it was listed. `ProteccionVivos` is `LugarBien`,
  when resumptions may fail and suspensions do not: no byte of a process that was not given up is in
  another segment or in a hole, and a compaction packs just what it listed. A failed resumption
  leaves `en_swap` true, so a compaction skips the segments that came back, which nobody uses any
  more; a failed suspension leaves it false over segments that left, and `LugarBien` is then false of the
  code (`DatosSwapLleno`, section 5). `NingunaFalla` says when that cannot be: with
  `SwapAlcanza`, a swap with a block of `SEGMENT_MAX_SIZE` for each segment there may be, no
  suspension is refused (the blocks that are taken map one to one into pairs of process and segment,
  and the one being suspended is not among them).
* `TraduccionCorrecta` (`TraduccionExacta`), whatever failed before. The sticks lie one
  after the other from address zero to the end of the memory (`InvSticks`). What the loop of
  `crear_lista_con_memories_stick_a_llamar` gives has a closed form: the pieces of the range cut
  where each stick ends (`Cortes`), which laid end to end are its addresses, in order
  (`Contiguos`). The loop is a function, unique by its equation as above. The sum of displacement
  and size wraps as in the code. A range whose sum wraps passes
  `hay_segmentation_fault` (`mmu.c:39`) and is refused all the same, because the sticks, which a
  `uint32_t` addresses, end before it does.
* `DatosCorrectos`: `InvDatos`, whatever failed before. What an access has still to do (`faltan`) is
  the translation of the rest of its range, in a segment that is in memory and is not being taken
  out, released or moved (`AccesosBien`), and what `desuspender_proceso` has read is what the
  block still holds (`CopiaBien`). `faltan` is described as `Contiguos` does, so that one piece
  served leaves the rest of the range.
* `MemoriaTransparente`: `Datos` implements `MemoriaLogica` (`ImplementaLogica`). One family
  of lemmas (`Contenido...`) says what each way of moving bytes does to what a process sees of
  a segment: copying it to a free block, back, or downwards in memory gives the same contents,
  and leaves those of the segments apart from it alone. That they are apart is `LugarBien`, that
  blocks are is `InvFirme`. Each action of `Datos` then is one of `MemoriaLogica` or a stutter. The
  hypothesis is that no suspension fails, `[][~FallarSuspension]_vars`; without it a live
  process loses bytes, as above. `MemoriaTransparenteSiAlcanza` has `SwapAlcanza` instead, which
  the constants of `datos` satisfy. `CompactacionFiel` (`CompactarConserva`), from the same
  lemmas: no step of a compaction changes what any process sees.
* `ListaHuecos`, with any sizes and sticks and both strategies. `ListaCorrecta` is the inductive
  `InvLista`: the list is in order of base (`EnFila`), its holes have bytes and do not touch, and they
  and the segments are apart. Strictly between two holes there are used bytes (`ListaEnOrden`,
  `OrdenadaYFusionada`) because fusion leaves no two that touch. `ListaFiel` (`ConjuntoFiel`) is
  what lets `Segmentacion` work with a set of holes. The loops of `encontrar_hueco` are folds; what
  one holds after each set of positions is a function, unique by its equation (`BarridoUnico`: a
  least set of positions where two such functions differ has no last position to look at), and it is
  the first of the best holes, which in a list in order is the one with the least base. Inserting and then
  absorbing the next and the previous hole is `InsertarYFusionar` (`InsertarFusiona`), since in
  order the only holes that can touch the new one are its neighbours (`Vecinos`).
  `ImplementaDirecciones`: the list implements `BytesLibres`, whose runs of free addresses are
  the holes, for the same reason (`TramosHuecos`). All have the hypothesis `SinCeros`, nobody
  asks for no bytes: a segment of size zero leaves an empty hole when it is freed and the first of
  these properties is false (`ListaHuecosCero`, section 5).
* `DespachoInvariante`: `InvReady`, with any number of CPUs, processes and compactions. From it
  `ColaContada` (`sem_hay_proceso_ready`, plus the token in the planner's hand, is the length of
  `ready_cola`) and `ColaNoVacia` (the planner never takes the first process of an
  empty queue, which the code does not test). The count alone is not inductive: a thread must
  be known to hold a `t_pcb` when it queues one (`EnLaMano`), and that a compaction under way
  has a count of evicted processes to give back.
* The places of a `t_pcb` in `Despacho`, also with both algorithms and any compactions.
  `LugaresSiempre` is the inductive `InvLugar`: a live process is in `ready_cola`, once, or on one
  CPU, or in the hand of one handler or of the planner, or in `block`, in one of these, and a dead
  one is nowhere. `EnUnSoloLugar` (`UnLugar`) follows. The invariant says what a
  step does to the place of each process, so that it also gives the refinement, `EsUnCiclo`
  (`ImplementaCiclo`): a step of a thread moves one process along one arrow of `CicloDeVida`, or
  none. The proof has one lemma per action, for the place and for the arrow.
* Who executes what, in `Despacho`. `FifoSiempre` is `InvFifo`: a process on a CPU has at most
  one bearer, the order on its way to the CPU, the CPU that executes it, the syscall on its way
  back or the handler that serves it, and what they bear is the process of that CPU. `SoloElAsignado`
  (`EjecutaElAsignado`), `NuncaNulo` (`SinNulos`) and the count of the free CPUs follow. Its
  hypothesis is `SinDesalojo`, FIFO and no compaction: otherwise an interruption crosses a syscall and
  the properties are false of the code (section 5, `DespachoCompactaFallas`, `DespachoEcoTardio`,
  `DespachoTimer`). The count needs less. `FichasSiempre` is `InvFichas`, also with the quantum:
  whoever takes a process out of a CPU owes its token. It assumes `SinFichasDeMas`, no compaction
  (which takes the tokens of idle CPUs and gives back fewer) and no SLEEP (with RR, the late
  interruption gives a token for a CPU it did not free). `CpuContada` (`TokensDeCpu`) has either
  hypothesis, and covers both runs that check the property.
  `TodosContestaron` (`AcksRecibidos`) is about the compactions themselves, any number of them, one
  inside the retry of another included, whatever Kernel Memory answers. Its hypothesis is
  `SinCruces`, FIFO and no SLEEP: a process then leaves its CPU only to end, or when it answers.
  `InvAcks` says that each notice, or its answer, is the only one in the sockets of its CPU and is
  for the process of that CPU or for one that is ending (`Canales`); hence the search by pid of
  COMPACTACION finds the CPU that answers, or none (`RespuestaEsSuya`), and the posts of
  `sem_desalojo_compactacion`, the handlers about to post and the CPUs with `esperando_ack` add
  up to the answers still awaited (`CuentaAcks`). An answer of a process that ended is never
  counted: the compaction may wait for ever, but does not begin too early.
  With SLEEP the hypothesis cannot be dropped. All compactions share one `compactando`
  (utils_scheduler.c:382 and :402), so the end of the first lets the planner dispatch while the
  second awaits its answers; a process that slept after its notice may then be on another CPU when
  its answer is read, and the search by pid marks that CPU. TLC, made to follow those steps with
  four CPUs, three processes, FIFO and two compactions, reaches the second compaction with a CPU
  still owing its answer. No run has those bounds, which are too many states to explore whole:
  `despacho_compacta` checks `AcksRecibidos` with SLEEP for a single compaction.
* `SticksEnOrden`: `ListaPrefijo`, with any CPUs, identifiers and sticks. `ListasCorrectas` is
  the inductive invariant: whatever is kept by a CPU, on its way to one, or in the hands of one of
  the two threads is a prefix of the list of Kernel Memory. Prefixes of one list are ordered by
  their length, so that completing one with the end of a longer one (`conectarme_nuevas_sticks`)
  gives the longer one (`PrefijoCompletado`), however old the lists that crossed are.

* `Suspension`, in this order. `TipoCorrecto`, the types, is inductive alone. `SuspensionExacta`
  (`MismaSuspension`) needs `CadaUnoEnSuLugar`: a process is in one list or in the hands of one
  thread, and it is in swap just while that list is one of the suspended ones. On top of it,
  `EsperaDondeLoBuscan` (`EsperaEnSuLista`): every request to a device is in one place, of a
  process in BLOCK or SUSP BLOCK (`Pedidos`). `SinPerderseSiempre` joins both with the account of each
  device, and gives `DispositivoContado` (`UnUsoPorDispositivo`). `TextoATiempo`
  (`TextoAntesDeSeguir`) follows the text of STDIN from the device to the memory of its process,
  for the processes that asked at an address they hold, and assumes `"corto" \notin TEXTOS`: with a
  line shorter than asked for it is false (`SuspensionTextoCorto`, section 5). The same of every
  process, `NadieSinTexto` (`NuncaSinTexto`), is proved when `DIRECCIONES_INVALIDAS` is 0 besides;
  with one invalid address it is false (`SuspensionSinTexto`, section 5). `NingunoOlvidado`
  (`NadieOlvidado`) is inductive given
  `CadaUnoEnSuLugar`: whatever frees memory is followed by a notice, or by a handler that will
  ask for one.
* `MutexUsuario`, with any number of processes, CPUs, mutexes and queues. `Siempre` is the
  inductive invariant `Inv`, from which the rest follow: `ExclusionSiempre`, `EsperaSiempre`,
  `HuerfanosNunca`, `DevuelveSiempre`, `LugarSiempre`. Its parts need each other. A mutex is
  handed over to the first of its queue, who must be blocked, where `buscar_y_sacar_de_block` looks
  (`Espera`); it is, unless another thread is waking it too (`Despiertos`); a process being
  woken is in the hands of one thread (`Sitios`) at a step of its call (`Hilos`); its new mutex
  must not be in the hands of the dead (`Repartidos`), nor in those of a program that thinks it
  still has it (`Tienen`); and a priority given back is of somebody who owns nothing (`Prestada`),
  which holds only because the loop of MUTEX_UNLOCK looks at every mutex with `mutex_lista_mutex`.
  Most steps leave the mutexes and the programs alone (`Sosiego`); the other six write one mutex in one of
  five ways (`Toma`, `Une`, `Entrega`, `Suelta`, `Agrega`), and each part has one lemma for each.
* `SonTurnos`: `MutexUsuario` implements `Turnos` (`ImplementaTurnos`). `Linea(n)` is the owner
  and the queue; the five ways are a turn taken at the end, the head leaving, or nothing, and
  `EXIT` and the planner change what programs have. Whoever comes back from MUTEX_LOCK is at the
  head, since who is dispatched is nowhere else and so waits for nothing.

Assumptions: sizes and sticks are positive, bounds are naturals (`TamaniosAssumption`,
`LimitesAssumption`); in `ListaHuecos` a size may be zero (`ListaAssumption`) and the
theorems exclude it (`SinCeros`); a `uint32_t` addresses the memory and holds the size of any segment
or access (`DatosAssumption`); `PIDS` and `CPUS` are finite where they are counted, NULL is neither a process
nor a CPU, and the algorithm and syscalls are those of the module (`SupuestosDespacho`,
`SuspensionAssumption`, `SupuestosMutex`). The theorems of `MutexProofs` have one hypothesis
more, `AvisosOportunos`: no notice names a process that `desuspender_proceso` resumes without
one (`SIN_MEMORIA` and `AVISADOS` are disjoint, as in every run of `MCMutexUsuario`). It
leaves out the double resumption of `SuspensionLiberado` (section 5, `utils_scheduler.c:822`), after
which a process is in two places; of the whole invariant, only `Despiertos` uses it, in the
step of a notice.

Only model-checked: `SigueAtendiendo` (ENABLED) and every liveness property (`SeAtiende`,
`SeReanuda`, `ConoceSticks`, `ObtieneMutex`), which are out of reach of the prover, as is
induction over data: where a loop is proved about, it is a recursive function and the proof goes
through its equation and a closed form.

## 5. What the code does not satisfy

Checked by a run that expects the violation:

* `compacta_trabada`: a compaction waits for the answer of a CPU whose handler waits for
  `mutex_socket_memory` in its own MEM_ALLOC. The compaction owns that mutex: nothing moves again.

Shown by configurations kept beside the runs (`tlc -config X.cfg MCDespacho`, and so on):

| Configuration | Violates | |
|---|---|---|
| `SegmentacionSwapLleno` | `LibreSiempreExacta` | a suspension that finds no swap block leaves with the memory of the earlier segments released and `en_swap` false; the next compaction packs those segments, and `memoria_libre_size` no longer is the sum of the holes (`swap_gestor.c:92`) |
| `DespachoCompactaFallas` | `NadieEjecutaAlCompactar` | the planner tests `compactando`, then takes a process and dispatches it; a compaction that starts in between does not see it, and Kernel Memory moves segments under a running process (`scheduler.c:900`) |
| `DespachoSalida` | `ControlPendiente` | EXIT frees the CPU before FIN_PROCESO is sent to it: the next process on that CPU gets `control_enviado` with no interruption pending, and its next syscall is not resumed (`scheduler.c:203`) |
| `DespachoTimer` | `SinNulos` | `iniciar_timer_quantum` reads `cpu->pcb->pid` after a handler set it to NULL (`utils_scheduler.c:277`) |
| `DespachoCompactaFallas` | `EjecutaElAsignado` | after a compaction the planner and the handler of MEM_ALLOC both send EJECUTAR_PROCESO (`scheduler.c:667`) |
| `DespachoCompactaFallas` | `TokensDeCpu` | the compaction takes the tokens of idle CPUs and gives back one per evicted process (`utils_scheduler.c:998`) |
| `DespachoEcoTardio` | `EjecutaElAsignado` | with RR the quantum expires while a SLEEP travels; `contexto.c:27` says that the idle CPU discards the late interruption, and it answers it: the answer preempts the process in its next dispatch while the CPU goes on executing it (`contexto.c:30`) |
| `MutexHerencia` | `HerenciaRespetada` | MUTEX_UNLOCK computes the priority to go back to, releases `mutex_lista_mutex` and writes it; a process that asks in between for another mutex of the same owner raises its priority, and the write takes it down (`scheduler.c:637`) |
| `DatosSwapLleno` | `CompactarConserva` | after the failed suspension above, a compaction moves segments of the process that already left the memory and writes over segments of others (`compactacion.c:52`) |
| `SuspensionRechazada` | `NuncaRechaza` | the memory a notice offered is taken before the notice is served; the resumption is refused, which "nunca se deberia" happen (`utils_scheduler.c:910`), and the process is in no list any more |
| `SuspensionLiberado` | `SinUsoTrasLiberar` | a suspension refused by a full swap frees the `t_pcb` and queues it (`utils_scheduler.c:784`); between `list_add_sorted` and `desuspender_proceso` `mutex_susp_ready` is free, and the listener resumes and frees a process that its handler goes on to read and to resume again (`utils_scheduler.c:822`) |
| `SuspensionTimer` | `SuspendeSuTimer` | between `list_add` and `tokenBloqueado++` the timer of an earlier blocking still has the right token and suspends the process at once (`utils_scheduler.c:191`) |
| `SuspensionSalida` | `LeeSuMemoria` | STDOUT blocks the process, arms its timer and then reads its bytes, which may be in swap by then (`scheduler.c:293`) |
| `SuspensionAbrazo` | `SinAbrazo` | two CPUs in STDOUT: one handler has `exec_mutex` and waits for `mutex_stdout_ocupado`, the other the other way round (`scheduler.c:279`) |
| `SuspensionSinTexto` | `NuncaSinTexto` | a process suspended in STDIN whose address is not in its segments goes to READY with its text written nowhere: DESUSPENDER_PROCESO ignores ESCRITURA_FALLIDA and answers DESUSPEND_OK (`memory.c:376-378`), where the same failure in BLOCK stops it (`scheduler.c:372-377`) |
| `SuspensionTextoCorto` | `TextoAntesDeSeguir` | a line shorter than asked for is written short when the process comes back from swap (`main.c:64` of io) |
| `AvisosFallas` | `TodaCpuConoce` | the notices connection of a CPU is accepted before the CPU is recorded, and later sticks are never announced to it (`memory.c:120`) |
| `AvisosFallas` | `ListasEnOrden` | the list for a new connection is copied, a stick is announced, and the older list follows: the CPU aborts (`memory.c:474`) |
| `AvisosFallas` | `CierraSoloCaidas` | a CPU started again is recorded in the entry of the dead one, whose clean-up then closes its notices |
| `SegmentacionDesuspensionParcial` | `EnSwapCompleto` | a desuspension that fails half-way leaves `en_swap` over segments in memory (`swap_gestor.c:175`) |
| `ListaHuecosCero` | `FusionaAdyacentes` | a freed segment of size zero leaves an empty hole that keeps its neighbours apart (`segmentacion.c:53`) |

`DespachoCompactaFallas` and `AvisosFallas` list three properties each, and TLC stops at the first
it finds violated (`TokensDeCpu`, `CierraSoloCaidas`): leave one at a time to see the others.

`TokensDeCpu` and `EjecutaElAsignado` are therefore stated for the runs without compaction,
`EjecutaElAsignado` and `SinNulos` for FIFO, and the properties of `Suspension` say what they
grant (`rechazados`, `roto`, `destino_invalido`).

One more configuration shows no violation and is kept for reference: `SegmentacionViva` (`PedidoTermina`:
with worst fit, swap blocks smaller than some segments and the thread of the requests fair, every
request is answered; it is what `SigueAtendiendo` becomes over time).

With CMN `mutex` also reaches `DesencolarNada`: an owner that inherits is out of every
queue for a while and its token is counted, so that the planner may pop nothing; the code then
reads a NULL process (`scheduler.c:1012`). `caida` stops the model there, and the properties
are about the states up to it. Because of the double resumption, the notices of `mutex`
(`AVISADOS`) name only processes with segments.

## 6. Plan

Done: `Huecos`, `ListaHuecos`, `BytesLibres`, `Segmentacion` and their proofs; `Despacho`,
`CicloDeVida`, the proofs of all their safety and of the refinement; `MutexUsuario`, `Turnos` and the proofs of all
their safety; `Mmu`, `Datos`, `MemoriaLogica` and the proofs of the translation and of the
refinement; `Suspension` and the proofs of all its safety;
`AvisosSticks` and the proof that its lists are prefixes. Next, in this order:

1. `CmnDesalojo`, the CMN branch of the planner: the most urgent ready process is dispatched, an
   eviction is ordered only for a less urgent one, and the posts of `sem_hay_proceso_ready` during a
   compaction.
2. `Contexto`: the context saved by one CPU and read by the next, and `atender_cpu`.
3. `Cerrojos`: the order in which handlers take `exec_mutex`, `mutex_lista_mutex`,
   `mutex_susp_block`, `mutex_socket_memory` and the device mutexes; early exits that keep one; the
   disconnection of a CPU.

## 7. Not modelled

Serialisation, sockets and configuration (formatting and I/O); the fetch, decoding and
register arithmetic of the CPU, which touch nothing but the CPU; sleeping, reading and printing in
the `io` program, and the file of `swap` beyond its bytes; the BSOD, which
aborts every program. CMN preemption, the saved contexts and the disconnection of CPUs and
devices are in the plan.
