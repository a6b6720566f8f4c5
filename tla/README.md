# Verification of game-of-codes

`game-of-codes` is a small distributed operating system: a **Kernel** schedules the
threads of assembled programs onto **CPU** processes, a memory server (**MSP**) gives
them segmented, paged and swapped memory, and a **Consola** per program sends the
program and does its input and output.  They talk over TCP with a common **Sockets**
library.  This directory holds TLA+ models of it, the TLC runs that check them, and
proofs that TLAPS checks.

Identifiers keep the Spanish names of the code.

## 1. Inventory

### MSP, the memory server (`src/MSP`)

*State.* `procesos` (each with its list of segments, each with its list of pages),
the frame lists `marcosVacios` and `marcosLlenos`, `paginasEnMemoria` (resident pages,
in the order in which they came in), the swap directory (one file per swapped page), the
counters `cantidadSwap`, `memoriaDisponible` and `contadorLRU`.

*Operations.* `crear_segmento`, `destruir_segmento`, `solicitar_memoria` (read) and
`escribir_memoria`, requested by the Kernel and the CPUs; a console that can request the
same and print the tables.  Reading and writing assign a frame to each page they touch
(`asignoMarcoAPagina`), which may bring the page back from swap (`swapInPagina`) and may
evict another one (`seleccionarMarcoVictima`, LRU or CLOCK; `swapOutPagina`).

*Concurrency.* One thread per connection (`interpretarOperacion`), one for the console.
`mutex_procesos` is held during a whole operation, with one exception: the admission test
of `crearSegmento`.  Five more semaphores protect the lists and the counters.

*What makes it correct.* A frame belongs to one page at most and is in one list; the
three structures that relate pages and frames agree; the counters agree with what they
count; no more memory is granted than the admission test, outside the lock, lets through; a
process reads what it wrote and only that; every error path releases the semaphores.

### Kernel (`src/Kernel`)

*State.* The queues of TCBs `ready`, `exec`, `block`, `SYS_CALL`, `e_exit`, `hilos_join`,
one queue per resource (`dic_bloqueados`); the TCB of the kernel thread, which executes
the system calls and is either in `block.prioridad_0` or running; the lists of connected
CPUs and consoles; the segments that programs have allocated (`mallocs`); the semaphores
`sem_procesoListo` (two tokens per ready thread or system call), `sem_CPU`,
`sem_kmDisponible`, `sem_READY`, `sem_exit`, `sem_lecturaEscritura` and
`mutex_entradaSalida`.

*Threads and operations.* `boot` accepts connections; `loader` serves consoles (a new
program, the answer to a request for input, a disconnection); `planificador` serves the
CPUs (end of quantum, end of execution, error, system call, new thread, join, block,
wake, input and output, allocation, disconnection); `dispatcher` gives a ready thread or
a system call to a free CPU.  The four share the lists without a lock of their own.

*What makes it correct.* A thread is in one queue only and is never lost; two CPUs never
run the same thread nor two system calls at once; a CPU marked free is free; tokens match
what they announce; a thread that waits for another one is woken when that one ends; the
last thread of a program releases its memory; no thread of the Kernel waits for ever.

### CPU (`src/CPU`)

*State.* The registers of the thread it runs, the quantum used, flags (`finalizarEjecucion`,
`aumentoPuntero`, `KMactual`, `noPIDkm`).  *Operations.* Fetch, decode and execute one
instruction at a time, asking the MSP for memory and the Kernel for services, until the
quantum ends, the program ends, an error aborts it or it makes a system call.
*What makes it correct.* Each turn ends, with one message that gives the thread back; a
thread computes what its program says, whatever the turns it is cut into and although its
system calls are executed by another thread, with another's memory and its registers.

### so-ensamblador (`src/so-ensamblador`)

*State.* The table of labels, each with its place or with the places that refer to it, the
position and the flag `isData`, the bytes written so far.  *Operations.* A pass over the
lines of each file for the labels, another to write, and the decompiler.  *What makes it
correct.* The program written is the one of the source, with each reference replaced by
the place of its label, before or after it, in the same file or in an earlier one; what
is decompiled is what was written.

### Consola, and the Kernel's input and output

*State.* In the console, the request it is answering; in the Kernel, `consola_list`, whose
entries are never removed, `entrada`, which is the only pending input, and
`mutex_entradaSalida`.  *Operations.* The console sends its program, prints, asks its user
for a number or a string and ends.  `loader` takes new programs, answers and goodbyes;
`planificador` forwards what the system calls print and ask.  *What makes it correct.* A
console deals with its own program only, a CPU gets the answer to its own request, and
while a user thinks only who has to wait waits.

### Sockets (`src/Sockets`)

*State.* Two locals of `enviar_datos`, `cantidad_total` and `offset`, and what is in the
connection.  *Operations.* `enviar_datos` repeats `send`, `recibir_datos` waits for a header
of two integers and then for the data.  *What makes it correct.* What is received is what
was sent, whatever pieces it goes in and although the other end may die at any moment.

### The rest

*Kernel/panel* and *logsObligatorios* format logs.  *commons* is a vendored library of
lists, queues and dictionaries.  *MSP_dummy* is a stub server.  `Kernel/tests.c` and
`CPU/testCPU.c` are unit tests.

### How they interact

Requests and replies over one TCP connection per pair: a CPU and the MSP, a CPU and the
Kernel, the Kernel and the MSP, a console and the Kernel.  TCP neither loses nor reorders
messages; what happens is disconnection.  The Kernel shares its MSP connection among its
threads under `sem_lecturaEscritura`.  The hazards of each part, with the line where each
bites, are in `PROJECT.json`.

## 2. Modules

| module | what it is |
|---|---|
| `MSP` | the memory server: one action per operation or per function it calls on a page |
| `MemoriaVirtual` | what the memory server promises: segments of bytes, without pages or swap |
| `MSPRefina` | the refinement mapping from `MSP` to `MemoriaVirtual` |
| `MCMSP` | constants for TLC |
| `MSP_proofs` | the proofs about `MSP`: its tables, lists and operations, then what it stores: swap, the bytes of each process, admission, memory accounting, LRU |
| `MSPRefina_proofs` | the proof that `MSP` implements `MemoriaVirtual` |
| `Kernel` | the threads of the Kernel over its queues and semaphores, with CPUs and consoles |
| `VidaHilos` | what the Kernel promises of a thread |
| `KernelRefina` | the refinement mapping from `Kernel` to `VidaHilos` |
| `Kernel_proofs` | the proofs about `Kernel`: CPUs and their orders, the kernel thread and its callers, the callers of the system calls |
| `KernelListo_proofs` | the proofs about `Kernel`: the tokens of `sem_procesoListo`, and what the dispatcher finds in its queues |
| `ESO` | the instruction set: sizes and what each instruction does to the registers |
| `CPU` | a CPU with what it asks of the Kernel and the MSP: one action per kind of instruction |
| `MaquinaESO` | what is promised to a program: a machine per thread, without turns or TCBs |
| `CPURefina` | the refinement mapping from `CPU` to `MaquinaESO` |
| `MCCPU` | programs for TLC, with the library of system calls |
| `Ensamblador` | so-ensamblador: its two passes, line by line, and the decompiler |
| `MCEnsamblador` | sources for TLC |
| `Ensamblador_proofs` | the proofs about `Ensamblador`: the program written, the decompiler, and what brings it down |
| `EntradaSalida` | consoles, `loader`, `planificador` and CPUs around input, output and the end of programs |
| `EntradaSalida_proofs` | the proofs about `EntradaSalida`: sessions and answers |
| `Sockets` | one direction of a connection: `enviar_datos` and `recibir_datos` |
| `MCSockets` | packets for TLC |
| `Sockets_proofs` | proofs: `enviar_datos` sends the packet, `recibir_datos` gives what was sent |
| `Lemas` | facts about sequences, division and sums over finite sets that several of the proofs use |

### MSP and its code

* The thread that holds `mutex_procesos` is the variable `enCurso`, with the operation, the
  page it has reached, what is left to copy and the next step.  Taking the semaphore is
  `enCurso = Nada` becoming a record; every return that posts it sets `enCurso` to `Nada`.
  The other threads wait in `recibir_datos` or on the semaphore, which comes to the same.
* `crearSegmento` is two actions, because the code is two critical sections:
  `AdmitirSegmento` (the test, under `mutex_MemoriaDisponible`) may run while another
  thread holds `mutex_procesos`; `AgregarSegmento` does the rest.
* `solicitarMemoria` and `escribirMemoria` differ in the direction of the copy: both are
  `Acceder` (the validation), then, for each page, `SwapIn`, `TomarMarcoVacio` or
  `Desalojar` when they are needed, then `CopiarPagina`.  The code's three copies of the
  loop body (first page, whole pages, last page) are one action with
  `Tramo` bytes.
* `Desalojar` is the whole eviction: the search, which may clear reference bits, the swap
  file, the removal from the lists and the new assignment.  `SwapOutFalla` is the branch
  in which `fopen` fails; `SinVictima` is the search that finds no frame in
  `marcosLlenos`, after which the code dereferences NULL.
* `destruirSegmento` destroys one page per `DestruirPag` and ends with `QuitarSegmento`.
* A page is named by `<<pid, sid, paginaID>>`; freeing it makes `pagina[k]` the value
  `Nada`.  An entry of `paginasEnMemoria` that still points to a freed page becomes `Nada`:
  reading it is undefined in C and takes the server down in the model.
* Addresses are triples (segment, page, displacement): `uint32ToDireccionLogica` is one to
  one as long as there are fewer than 4096 segments and pages.  The reply to
  `crear_segmento` carries the SID, which the code multiplies by 2^20.
* File names are what `obtenerFilePath` makes of the three numbers, as sequences of digits.

Left out: the semaphores of the lists (the holder of `mutex_procesos` is alone with them,
except for the console's `tablaMarcos`); the console; a page without any NUL, whose return
copies past the end of the buffer; the comparison of what has been read with the error
strings (`"error_memoria_llena"`), requests with a negative size, and more than 4096
segments.

### MemoriaVirtual

A segment is a string of bytes.  A read returns the bytes last written, a write stores its
bytes a piece at a time and answers with success only when all of them are stored, a
request may fail.  `PermiteOlvido` admits one weakness: inside one page, what follows the
first NUL may turn into NUL.  `MSP` implements the contract with it (`ImplementaMemoria`)
and not without it (`SwapInvisible`).

### Kernel and its code

* `disp` is `dispatcher`, with a program counter between any two calls on which another
  thread may act: each `sem_wait`, the choice of the queue, the choice of a CPU, the
  entry in `exec`, the copy of the TCB into the order.
* `planificador` and `loader` handle one message at a time.  The action that receives it
  (one per case of the `switch`, named as the handler) does what the handler does up to
  the first point where an interleaving matters, and leaves the rest in `hilo[h].pasos`:
  `sumar` is the load of `obtener_TID`, `encolar` and two `avisar` are `meter_en_ready`,
  `sacar` and `exit` are `sacar_de_ejecucion`, `finKM` and `postKM` are the end of a
  system call, `libre`, `exec` and `post` are `liberar_cpu`, and the steps of `loader`
  that count and kill are `matar_hijos`.
* The end of the first thread of a program sends `terminar_conexion` to its console
  (`SacarDeEjecucion`: the connection is `"avisada"`), which always closes then, at a moment
  of its own (`CerrarConsola`); `loader` hears of it, perhaps before `cantidad_hilos` has been
  decremented, and removes what the program has left in the queues (`RecibirDesconexion` and
  the steps it leaves).  `SeVa` are the programs whose console may close before that, because
  its user leaves.
* `CPU_list[c].pid` is `cpu->PID`, by which the console of a program is found, and which
  `liberar_cpu` clears after the bit (`LiberarPost`).
* `INNN` and `INNC` are the routine `entrada`: `planificador` asks the console of the program
  (`producir_entrada_estandar`), its user may type something or not (`IngresarDatos`), and
  `loader` gives it to the CPU that waits (`se_produjo_entrada`).
* `turno[c]` are the orders sent to a CPU, `mensajes[c]` what it has sent, `respuesta[c]`
  the replies to CREA.  A turn may end in all the ways a CPU ends one; a system call's
  routine makes at most one protected call and may fail.
* A TCB is its PID, TID, KM and, for the kernel thread, the call it executes.  `llamador`
  is `tcb_ejecutandoSysCall`; `bloq` keeps copies, as the code does.
* What dereferences NULL or calls `exit` sets `caida`, after which nothing happens.
* The code is modelled as its build is, 32 bits with gcc -O2: `es_TCB` in
  `sacar_de_ejecucion` takes a TCB by value but is called with a pointer, so it compares
  the pointer with a PID and finds nothing; `free` overwrites the first word of a block,
  the PID of a TCB (`LiberarDeExec`); the kernel's TCB in `block.prioridad_0` carries
  leftovers that are overwritten before they are read, so all are `tcbKM`.
* `fijarse_joins` makes nobody ready: the entry it looks at always finds itself among
  those that wait.

Left out: the loss of an idle CPU, `mallocs`, the requests to the MSP (which grants every
segment), a freed TCB that `malloc` gives out again, the race of `cantidad_hilos` being
counted by two threads at once, and the loop of `enviar_a_ejecucion` that waits again for
a CPU: `SiempreHayCPULibre` proves that it is never needed.  A released descriptor is not
given out again (`SinLiberar`, a bound: no console connects after the first release), and
`mutex_entradaSalida` is left out, as the run with input has one CPU: both are in
`EntradaSalida`, with output and the loss of a busy CPU.

### VidaHilos

A thread is absent, ready, running, calling, in its system call or ended; at most as many
run as there are CPUs and one is in its system call.  A ready thread may end, when its
program has.  A life changes when a CPU ends the
turn, not when the Kernel hears of it.

### CPU and its code

* An action is one iteration of the loop of `main`: the fetch, the instruction with its
  requests to the MSP and the Kernel, and what the loop does after it (the pointer, the
  quantum, the TCB that goes back).  A request and its reply are one step, since the CPU
  waits for it and nobody else touches the memory of its thread.
* `tcb_km`, `libre`, `mensajes` and `hilos` are what the Kernel keeps: the TCB of the kernel
  thread, whether it is free, and the threads.  The Kernel gives a CPU any ready thread or
  any pending call; the order and the races of its queues are in `Kernel`.
* Instructions, registers and operands are those of `instruccionesESO.c`, with the width of
  an integer as `BITS` (32 in the code).  `FREE` writes its test as `A =! base`: it assigns
  to A and never destroys the segment, and so does the model, which thus never reaches the
  reply that `destruirSegmento` would wait for.
* `SinMarco` are the addresses for which the MSP finds no room.  `LOAD` does not look at the
  reply for its number, and goes on with the bytes that `BasuraLoad` stands for.

Left out: M, P and X as operands and writes to S as a register, code that is read or
written as data, `PUSH`, `TAKE` and `SETM` of more than four bytes, `INTE` in kernel mode,
an MSP that refuses the stack of a new thread, a bad configuration and a broken
connection.  `JOIN`, `BLOK` and `WAKE` give the call back at once, as in `Kernel` a `JOIN`
does; the Kernel takes messages in order; `KERNEL_CrearNuevoHilo` reads a buffer it has
freed (`funcionesKernel.c:110`), which is assumed to be still as it was.

### MaquinaESO

Each thread executes its program instruction by instruction as if it were alone, and a
system call is a subroutine of process 0 that the thread itself executes, in the memory of
process 0 and with its own registers, of which A to E come back.  Where the code departs
from what `bytecodes.txt` says (`FREE`, `DIVR` by zero, `LOAD` without room, the cursor of
a new thread) the machine follows the code, and the comment of the operator says so: it is
the contract that holds, not the one that was meant.

### Ensamblador and its code

A line is a record of its kind and its parts; lexical analysis is not modelled.  The first
pass subscribes the labels, the second one writes: a reference to a label further on is
written as -1 and its place kept with the label (`getOrSubscribePos`), to be completed
when the label is reached.  `isData` and the position are static in the code and go on
from one file to the next.  `CABEN` is the number of pending places for which the table
has room: 6 in the code, as `realloc` is asked for bytes where integers are stored.  Past it
(`roto`) the memory of a neighbour is written over: the assembler may go on without harm, fall,
or go on with other labels' places replaced (`SeRompe`, estado `"pisado"`, of which nothing
more is said).
The memory of the decompiler has no types: at a datum it aborts or, when the bytes from there
on spell a code, prints them as instructions (estado `"datos"`).  Which data spell what, and
what is printed of them, is left open: `DecompilaFiel` says that this only happens to a
program with data that no XXXX comes before, and that its instructions have been printed by
then.
`SalidaFiel` compares the program with a definition that has no passes.

Left out: empty files, `-o` missing (which crashes, `runnable.c:85`), and the instructions
whose operands the code writes as it would those of another one: a `#label` of `INTE` that
is behind gives 0 (`SinSentido`).

### EntradaSalida and its code

* `fd` is the descriptor of each connection and `consola_list` the list of entries by
  process: the code looks entries up by descriptor, and `accept` gives the least free one.
* `planificador` that waits for `mutex_entradaSalida` is a record in `planificador`, the
  request being kept until the semaphore is posted; `loader` that waits for
  `sem_procesoListo` on behalf of a console that left is `loader.pc = "espera1"` and
  `"espera2"`.
* `evaluar_ingreso` reads the limit of a string one byte after the type, where the Kernel
  left padding: `Limite` has the bytes it gets, three of them rubbish.
* A console that ends with messages unread resets its connection, and its answer may be
  lost.  The second message to a console that has gone may end the Kernel with SIGPIPE.
  The loss of a busy CPU is `DesconectoCPU`.

Left out: `JOIN` and the resources, and the order of the queues, which are sets here.

### Sockets and its code

A packet is its bytes, each known by its packet and its place; the header's first byte is
the code and its last byte the size, which is as fine as the properties need.  `Send(s)` is
one call to `send`, which takes any number of bytes; `RecibirCabecera` and `RecibirDatos`
are the two `recv` with MSG_WAITALL, which give less only when the other end has died.
Left out: two threads that send at once on the same connection.

## 3. Runs

| run | shows | distinct states |
|---|---|---|
| `msp_lru` | two clients, two processes, LRU: the tables, lists and counters agree, and LRU does not evict the page just read; what is granted beyond the memory is bounded | 617,962 |
| `msp_clock` | CLOCK, a disk that may fail, one client: when the server may go down, isolation, the mutex released by every operation, and the refinement | 235,258 |
| `kernel_uno` | one program with two threads and all kinds of scheduling calls, up to its end: until `loader` releases it, the number of threads is right, ready threads run, system calls return | 73,566 |
| `kernel_dos` | two programs on two CPUs, up to the release of the first: tokens of the CPUs, one order per CPU, no thread twice, callers and calls agree | 1,329,815 |
| `kernel_cierre` | the console closes when the program ends or before, also while a CPU waits for input: kernel thread, tokens and CPUs stay accounted for, the refinement | 112,392 |
| `kernel_desconexion` | violation: dispatcher and loader block each other | |
| `cpu` | fifteen pairs of programs on one CPU: whatever the turns, each thread executes its program, and a turn ends | 69,017 |
| `cpu_crea` | violation: a new thread gets the cursor of its creator | |
| `ensamblador` | sources of up to five lines and pairs of files: the program written is the one of the source, the decompiler gives it back, and the assembler goes down for two reasons only | 63,835 |
| `entrada` | two consoles and two CPUs, one of each may go: who talks to whom, and every request is answered if its user answers | 518,562 |
| `consola_ajena` | violation: a program prints on another one's console | |
| `sockets` | three packets in any pieces from a sender that may die: complete, as they were sent or at least told apart | 211,970 |

Six more configurations each show a disagreement by its counterexample and are not among
the listed runs.  They are to be read with `tlc -config X.cfg M`:

| configuration | module | violated |
|---|---|---|
| `MSP_admision.cfg` | `MCMSP` | `MemoriaNoNegativa`: two creations pass the admission test before either takes its memory (`MSP.c:285`) |
| `MSP_olvido.cfg` | `MCMSP` | `SwapInvisible`: a page that returns from swap loses what follows its first NUL (`MSP.c:1380`) |
| `MSP_choque.cfg` | `MCMSP` | `Aislamiento`: different pages have the same swap file (`MSP.c:1454`) |
| `Kernel_join.cfg` | `Kernel` | `JoinBloquea`: JOIN does not block its caller (`auxiliares.c:556`) |
| `Kernel_orden.cfg` | `Kernel` | `OrdenIntacta`: a TCB is freed while `dispatcher` is sending it (`auxiliares.c:169`) |
| `Kernel_ocupada.cfg` | `Kernel` | `OcupadaConPID`: a CPU with a new order looks idle (`auxiliares.c:171`) |

*Bounds.* Two processes with at most two segments (one in `msp_clock`) of at most two or
three pages of two bytes, two frames and three pages of swap (two in `msp_lru`), of which the
code leaves one free: enough for a free frame, an eviction, a full swap space, two pages in swap at once,
a page that comes back and sends another out, an access that spans two pages and evicts
its own neighbour, a partial last page, and for a segment to be destroyed with a page in
memory, one in swap and one untouched.
`MaxContador` bounds the page copies (4): no access starts once `contadorLRU` has reached
it, and an access that has started ends.  Four one-byte writes put a page of each process
in swap, and a read then brings one back.
`CotaSID` keeps SIDs below `NumSID`.  `MSP_choque.cfg` needs page 10, hence eleven pages of
one byte.  Process 1 writes ones and process 2 twos, so that a foreign byte is recognised.
The two threads are symmetric; the run with symmetry checks only safety.
Deadlock is checked in `msp_lru`; not in `msp_clock`, where the server may crash.

For the Kernel: two threads and one CPU make a thread wait in ready while another one
runs, calls, creates, joins, blocks and wakes, and outlive its program; `CotaExec`
(2) lets `exec`, which the code does not always clean, hold one stale entry, and `CotaListas` one entry
in `hilos_join` and one blocked TCB.  `kernel_dos` adds the interleavings of two CPUs with two
programs, at the price of a single kind of system call, one without protected calls: each
program has one thread, so that `loader` finds nobody to remove when it ends.  There `CotaExec`
is 1: with two threads in `exec` neither is interrupted nor calls, but one may end or fail
while the message of the other, or of the kernel thread, waits; with 2 they may call too, and
the same properties hold in 2,683,569 states, which take longer than a run should.  `kernel_cierre`
has the calls that leave threads in the queues `loader` goes through, and input, which may
never come; a console may close at any time there, with the first thread or its child in any
queue.  It claims what survives `matar_hijos`: that all the threads of the program end does not
(`kernel_desconexion`), nor that the Kernel stays up, and `SoloUnKM` and `CPUVuelve` say so.  In
`kernel_uno` what is promised of a program's threads (`CuentaDeHilos`, `SeDespacha`,
`LlamadaVuelve`) is claimed until `loader` starts to release it, at its own end included: from
then on it may take the thread, its tokens or its caller away.  These three and the refinement
are claimed of one CPU only: with two, the freed TCB of `Kernel_orden.cfg` makes a thread
disappear.  Deadlock is not checked for the Kernel: programs end and the system stops.

For the CPU: registers of four digits of `BITS` = 4 bits, so that the arithmetic of the
programs overflows; a quantum of three instructions, so that every program is cut in many
turns and a turn may end inside a system call's library routine; two processes with the
routines of `systemCalls.txt`, whose addresses an assumption of `MCCPU` checks; memory that
has room for everything, or not for a number, or not for the beginning of a stack.  The
programs include threads that start threads, a loop without end, and each way in which an
instruction ends or stops its thread.

For the assembler: all sources of up to three lines out of nineteen kinds of lines, all of
five out of the five common ones, and pairs of files; `CABEN` is 2, so that the third
reference to one label overflows the table within five lines.  For input and output: two
descriptors, so that one is used again; two threads, one message pending per console; one
console and one CPU that may go, which is where a second one would not add a case.  For
`Sockets`: a packet of six bytes, one without data and one of five in a connection of four,
so that no packet but the empty one goes in one piece, and some in three or more.

Deadlock is not checked in any of the four: programs end, sources end, users leave.

*Fairness.* In `MSP`, `FairSpec` asks only that a thread inside a critical section goes on
(`WF_vars(Paso)`): pthreads on Linux schedules a runnable thread.  Nothing makes a client
send a request.  In `Kernel`, each of the three threads goes on when it can (weak
fairness), and so does a CPU whose turn does not wait for an answer: it ends, by its quantum or
because the compiled system calls do.  A turn in INNN or INNC goes on if the user types
something, and nothing makes a user type or a console close: `CPUVuelve` excepts a CPU that
waits for one.  Receiving from a CPU has strong fairness because `planificador` goes through
all the descriptors in each round of `select`, so a message that is there in every round
is read.  Connections and disconnections are not fair: `SeDespacha` supposes a CPU.  In
`CPU`, the processor goes on with the turn it has.  In `EntradaSalida`, `loader` and
`planificador` go on when they can, a CPU reads its answer and a console its messages;
nothing is asked of the users, who may never answer.

## 4. Proofs

`MSP_proofs` proves, for every number of threads, processes, segments, pages and frames,
for both algorithms and with or without a failing disk:

* `TypeOK`, `MarcosParticionados`, `MarcoYPagina`, `ListadasResidentes`,
  `PaginasDeSegmentos`, `OperacionEnCurso`, `SIDsCrecientes`.

None of them but `SIDsCrecientes` is inductive alone; their conjunction `IInv` is.  The
reasons they need each other: a copy or an assignment needs the page of the operation to
exist, which follows from `OperacionEnCurso` (it lies inside a segment) and
`PaginasDeSegmentos` (a segment's pages exist, except those a destruction has gone past);
`swapOutPagina` removes from `paginasEnMemoria` the first page without a frame, and that
this is the victim follows from `ListadasResidentes` (all the others have one); that the
victim has a frame in `marcosLlenos`, and that destroying a page frees its frame, is
`MarcoYPagina`; that a new segment's pages did not exist needs `SIDsCrecientes`.

The assumptions are `Constantes` (sizes are natural numbers, the swap space is a whole
number of pages, which MB * 2^20 is, a segment of the largest size fits in
`MaxPag` pages), `HayHilos` (there is a client, and finitely many) and `NadaEsOtro` (NULL is no
valid pointer); TLC evaluates the three.

The second half of `MSP_proofs` goes on from `IInv` to what is stored.  Its invariant `DInv` adds four
parts:

* `Disco`: a page has a file exactly when it is in swap.  `SwapIn` and `DestruirPag` delete
  the file of one page, and must not delete that of another one;
* `Cuenta`: `cantidadSwap` is the size of the swap space less that of the pages in swap.
  `swapOutPagina` and `swapInPagina` move one page and a page's size each; that the victim of
  a full memory always finds room follows from the count, because a page is brought in before
  another one goes out;
* `PaginasPropias` and `EscrituraPropia`: the bytes of a page, in its frame or in its file, and
  those that a write has still to store are those of the process.

From it follow `SwapConservado`, `UnArchivoPorPagina`, `Aislamiento` and the list of what may
end the server (`CaidasJustificadas`), hence `CaidaSoloPorDisco` when there is a frame at all
and the counter of LRU has not reached the 100000 from which its search starts.  All of them
suppose `RutasDistintas`, that no two pages have the same file name: `obtenerFilePath` writes
three decimal numbers one after the other, and where two pages share a name the properties
fail (`MSP_choque.cfg`).  `RutasDeUnaCifra` proves that the names are distinct while each
number has one digit, which is so in every other run.  
The admission test of `crearSegmento` and its subtraction are two critical sections, and with
two clients or more, as there always are, `memoriaDisponible` does become negative
(`MSP_admision.cfg`).  `ExcesoAcotado` says how far: one largest segment for each client but
one (`ExcesoSiempreAcotado`), as no more than `MaxSegmento` is granted at once and one of those
between the test and the subtraction must have found the memory there.  The invariant
(`Exceso`) counts what the clients in between can still take, and makes an exception for the
one that was admitted last.

`MemoriaConservada` is about a sum over all the segments there are (`MemoriaSiempreConservada`).
A segment adds its size to the sum and takes it from the free memory in one critical section,
`destruirSegmento` the reverse, and nothing else changes either.  `Lemas` proves what that
takes: that the fold of the community modules adds the elements in any order (`SumaSin`,
`SumaMas`), so that one element more or less changes it by its size.  There is no induction
over an operator in those lemmas; they look at a smallest finite set for which the fact fails
(`MinimoDeSubconjuntos`, from the theorem that strict inclusion of finite sets is well-founded).

`LRUNoDesalojaLaRecienLeida` is an action property of LRU (`LRUNuncaDesalojaLaRecienLeida`).
Its invariant says that the counters of the pages in use are distinct and below the counter
of accesses (`CuentasDistintas`), and that the page an unfinished read has copied last has the
last one given (`UltimaLeida`); a page between getting its frame and being copied still has an
old counter and counts as not in use.  The search then finds a smaller one, unless no other
page has a frame.  The theorem supposes that the counter of accesses does not go past
`TopeLRU`, the 100000 of `MSP.c:1486`: with all the counters there the search compares with
nothing and the frame it returns is arbitrary.

`MSPRefina_proofs` proves that `MSP` implements `MemoriaVirtual` (`MemoriaImplementada`), under
`RutasDistintas`, for every value of the constants.  Each action is shown to be a step of the
contract or a stutter: the copies are its reads and writes, a segment appears and goes as in
the contract, and `Desalojar`, `SwapIn` and `TomarMarcoVacio`, which move bytes about, leave the
content of the segments as it was, but for what follows the first NUL of a page that comes
back.  The invariant is `DInv` with `Leidos`: what an unfinished read has gathered is what the
segment still has at those places, because the pages it has gone past may leave memory but
stay behind what it copies.  `NadaNoEsDelContrato` says that the value that stands for no operation is
none of the contract's requests.

`Kernel_proofs` proves, for every number of CPUs, programs and threads and all the system
calls, the three threads interleaved between any two of their calls:

* `FichasCPU`: the tokens of `sem_CPU`, with the one that dispatcher holds and the one that
  planificador owes, are as many as the CPUs marked free;
* `UnTurnoPorCPU`: a CPU marked busy has one order, being sent, being executed or ended and
  not heard of yet, and a free one has none;
* that dispatcher always finds a CPU when it goes through the list (`HayCPULibre`).

They need each other.  `liberar_cpu` sets the bit to free without looking at it and posts a
token two calls later: the count is kept only if the bit was busy, which holds because the
CPU's final message was the end of its only order (`Turno`).  And dispatcher may mark a CPU
busy only if it was free, which holds because it has a token and, by the count, there is a
free CPU in the list.  The invariant `IInv` says both of every CPU, and of what planificador
still has to do (`PasosBien`): each `libre` is followed by its `post` and both come once.

The second part of `Kernel_proofs` follows the kernel thread, with the same generality:

* `SoloUnKM`, also when the consoles leave: the only TCB with `km` set is in its queue, with
  its token, or in one place on its way to a CPU, in it or back;
* `BloqueadosLlaman`, in every behaviour in which `loader` takes nobody out of
  `block.prioridad_1` (`[][~ MatarBloq]_vars`), whatever programs end and consoles leave: the
  list has exactly the callers of the calls that wait in `SYS_CALL` or that the kernel thread
  executes;
* `LlamadorEspera`, under the same condition: dispatcher and `finKM`, which do not look at
  what `obtener_tcb_bloqueado` returns, have a TCB to find.

`SoloUnKM` needs the types of all that carries a TCB (`DInv`: which lists and messages may hold
the kernel's, and in which order planificador makes the calls that end its turn), `IInv`, because
that a CPU has one order makes its TCB the only copy, and `UnoSolo`, which names the four
places.  `UnoSolo` breaks when the Kernel falls between taking the token and taking the TCB, and
`Caido` is what is left then.  From it every step does to the kernel thread one of seven things
(`PasoKM`), and each of them keeps the two lists in step (`Cuadra`).  The one exception is
`MatarBloq`, which is why the theorems suppose that it does not happen: it takes a caller out of
`block.prioridad_1` and leaves its call in `SYS_CALL` or in execution, which the code does when a
program ends, or its user leaves, with a child in a system call.

`KernelAssumption` is that the numbers of CPUs, of programs and of threads are natural.

`KernelListo_proofs` proves, for as many and whatever the consoles do:

* `FichasListo`: the tokens of `sem_procesoListo`, those that dispatcher has taken and those
  that planificador and loader have still to post are, at the beginning, two for each thread
  in `ready` and each system call that waits, and every step keeps the difference
  (`SaldoListo`) but two of `matar_hijos_en_lista`: a wait, and the removal of a thread from
  `ready`;
* that dispatcher, which pops a queue without looking, finds it empty only with tokens left
  over (`HayQueDespachar \/ SaldoListo > 0`), and never before `loader` has removed a thread
  from `ready`, however many tokens it has taken (`HayQueDespacharHastaMatar`).

The invariant says what lists of calls a handler may leave (`PasosBien`): a thread still to
be queued is followed by its two announcements, one that is queued owes those that are left,
and nothing else announces.  Each call then moves the equation's terms by the same amount
(the lemmas from `MismoSaldo` to `SeSaca`), the waits of `loader` by one down and its removals
by two up: `matar_hijos_en_lista` waits twice however many threads it removes.

`Sockets_proofs` proves `EnvioJusto` for packets of any size and however `send` cuts them:
the invariant of the loop is that `cantidad_total - offset` is what is left, although
neither of the two is what its name says.

It also proves `PaquetesFieles` and `EnFase`, for packets of any size, a connection of any
capacity, and whatever `send` takes of each call and wherever the sender dies.  The invariant
`RInv` says what is in the connection, as long as the receiver is where it thinks it is
(`EnCurso`: the first two pieces of every packet so far carried its header):

* `Corriente`: there is a mark for each packet from the next one on, each a packet's length
  after the one before (`Marca`); the marks and what `enviar_datos` still has to send account
  for the length of the connection (`Largo`); and each byte between two marks is of that packet,
  the one of its place unless a third piece misplaced it (`Flujo`);
* `Piezas`: `offset` is the place of the next byte during the first two pieces, and what is sent
  from the third on lies after those two;
* `Buenos`: the packets received so far are good, but for the last one when the connection ended
  with nothing left to read.

The marks are what makes it an argument for every size: reading a header or data moves them all
by what was read (`Avanza`), sending moves none, and a packet that is begun adds one
(`PasoEnviar`).  The header that `recv` gives is the next packet's because its last byte lies
before the next mark (`DelSiguiente`), so that its size is right and the next `recv` ends at
that mark, even when the bytes in between are wrong ones.  `SocketsAssumption` says that the
sizes are natural numbers and that an `int` holds an integer.

`EntradaSalida_proofs` proves `SesionPropia` and `RespuestaPropia`, for every number of programs,
descriptors, threads and CPUs.  What the two say of whose console it is holds until a descriptor
is used again (`SinRepetir`; `consola_ajena` shows what happens then).  The invariant says who
may be waiting for what:

* `Conectadas`: the entry of a console is the one of its place and has its descriptor, which no
  other connection has;
* `Hilos`: a thread's process is its program, and a CPU knows its thread and its process;
* `Mensajes`: what a console has to read and what it asks its user come from its own program;
* `Pedido`: there is one request for input on its way at most, in the connection to a console,
  before its user or answered in the connection back, while `entrada` is there; it is the
  request of the CPU that `entrada` names, in the console of its program; and
  `mutex_entradaSalida` is what that leaves of its only token;
* `RespuestaPropia` itself.

That an answer is for the CPU that asked needs `Pedido`, as `loader` looks at nothing but
`entrada` when it arrives; that there is only one request needs the semaphore, posted after the
answer has left the connection; and that the console is the right one needs `Hilos`, and
`Conectadas` to go from a descriptor back to it.  `EntradaSalidaAssumption` says that consoles
are numbered from 1 on in the order in which they connect, and that descriptors are positive.

`Ensamblador_proofs` proves `SalidaFiel`, `DecompilaFiel` and `CaidaJustificada`, for any
number of files, of lines in each, of labels and of references to them, and any `CABEN`.  What
is written and decompiled is only promised while no `obs` has overflowed (`roto`).  The invariant `EInv` (`EnsambladorInvariante`) compares, after each line, what the two passes keep
with what the lines read so far (`Leidas`) say:

* `Avance`: the position is the sum of the sizes of those lines, `isData` is whether one of them
  is DATA, each of them can be translated, and no label was read twice in a file;
* `Tabla`: in the table of labels of the current file a label that has been read has its address
  and nobody waiting, and one that has not has -1, as many places as references were read, and
  those places (`Cumple`).  A label whose line carries a comment has the comment in its text, so
  that no reference finds it (`Texto`);
* `Escritura`: each line read is written at the sum of the sizes before it, and a parameter says
  what it should, unless it waits for a label still to be read (`Vale`);
* `Caidas`: what `roto` and a fall mean for the source;
* `Listado`: the decompiler is at the sum of the sizes of the instructions it has printed, which
  are the first ones of the source, none after an XXXX; what it goes on to, if the bytes
  of a datum let it, comes before any XXXX (`DecompilaDatos`).

`SalidaFiel` says nothing before the second pass ends, and its end is right only because of
`Tabla`: a label completes the places in `obs`, which must be all those where a reference was
left open and no other (`EtiquetaEscribe`), so that references have to be told apart by their
places: no two lines share an address, and each place is that of one parameter (`SinSolape`,
`HuecoEs`).  `roto` needs the number of those places, not only
their set: `Esperan` counts references in the source, and `obsSize` what the table got.  The
addresses are sums over the lines before one, of one file or of the ones before, which
`Lemas` handles as it does the sizes of segments; the decompiler's next address is that of the
first instruction not printed yet (`DondeSigue`).

`FuentesAssumption` is that the sources are sequences of nonempty files made of the lines that
the module's comment lists, and that `CABEN` is natural.

Only model-checked:

* of the Kernel, its types within the bound `MaxTID` (the proofs have wider ones in `DInv`), that
  no thread is in two places (`SinDuplicar`), and the number of threads of a program
  (`CuentaDeHilos`), which is false with two CPUs (`Kernel_orden.cfg`);
* `CPU`, whose `TypeOK` bounds registers by `2 ^ BITS`, of which the provers know nothing;
* the refinements of `VidaHilos` and `MaquinaESO`;
* liveness, which is beyond the prover.

`HayCPULibre`, `HayQueDespachar` and `LlamadorEspera` are proved and not properties of a run: they
are what `FichasCPU`, `FichasListo` and `BloqueadosLlaman` are for.

## 5. What was found

Shown by a run:

* `Kernel.c:669`: a disconnection can block `loader` and `dispatcher` (`kernel_desconexion`).
* `Kernel.c:473`: `CREA` gives the new thread the cursor of its creator (`cpu_crea`).
* `auxiliares.c:456`: a console is looked up by a descriptor that may be another one's by
  now (`consola_ajena`).

Shown by the other configurations (section 3): `MSP.c:285`, `MSP.c:1380`, `MSP.c:1454`,
`auxiliares.c:556`, `auxiliares.c:169`, `auxiliares.c:171`.

Modelled as the code is, and thus part of what the runs show: `FREE` frees nothing
(`instruccionesESO.c:290`), `DIVR` by zero goes on without a thread (`instruccionesESO.c:90`),
`LOAD` goes on without its number (`CPU.c:488`), the seventh reference to a label overflows
its table (`labels.c:39`), the static flag of `DATA` spoils the next files
(`assemble.c:58`), the decompiler takes data without an XXXX before them for code
(`assemble.c:11`), the limit of a string is not the one asked for (`Consola.c:135`), and a
packet that goes in three pieces arrives changed (`sockets.c:112`).

## 6. Not modelled

* The console of the MSP and its tables, and with them the order in which `tablaMarcos`,
  `asignoMarcoAPagina` and `destruirPag` take the semaphores of the frame lists.
* The Kernel's requests to the MSP, `mallocs`, and the loss of an idle CPU.
* `Kernel/panel`, `logsObligatorios`, `MSP_dummy`, the unit tests and `commons`: formatting,
  a stub, tests and a vendored library whose lists and queues are sequences here.

## 7. Plan

1. **MSPLocks**: the semaphores of the frame lists, and the console of the MSP.
2. **Kernel** with memory requests under `sem_lecturaEscritura`, `mallocs`, and the loss of
   an idle CPU.
3. More proofs: that a thread is in one place (`SinDuplicar`), the number of threads of a program
   (`CuentaDeHilos`, for one CPU) and that `Kernel` implements `VidaHilos`; the types of `CPU`.
