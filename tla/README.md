# Verification of *The Last of C*

TLA+ modules, TLC configurations and TLAPS proofs for the four-process operating
system simulator of this repository (`kernel`, `cpu`, `memoria`, `filesystem` and the
shared library `utils`). Definitions keep the names of the C code, in Spanish where the
code is.

## 1. The system

| Component | State it keeps | Operations | Talks to |
|---|---|---|---|
| kernel: processes and threads (`utils.c`, `syscalls.c`) | `procesos_en_sistema`, per PCB its `threads` and `mutex`, per TCB `estado`, `tid_bloqueador`, `motivo_bloqueo`; the queues `cola_new`, `cola_ready`, `cola_blocked`, `hilo_en_exec` and their semaphores | one handler per system call, `liberar_pcb`, `liberar_hilo`, detached handlers of IO and DUMP_MEMORY | memoria, one connection per request |
| kernel: short-term scheduler (`planificador_corto_plazo.c`, `algoritmos_planificacion.c`) | `flag_desalojar`, `flag_ejecutando_en_cpu`, the quantum thread | select, dispatch, run the system call, preempt | cpu, two sockets |
| kernel: long-term scheduler (`planificador_largo_plazo.c`) | `largo_plazo` | admit, postpone or reject the head of `cola_new` | memoria |
| cpu (`servidor_cpu.c`, `ciclo_instruccion.c`, ...) | registers, `flag_interrupt`, `flag_desalojo`, `motivo_desalojo` | fetch, decode, execute; dispatch and interrupt servers | kernel, memoria |
| memoria (`administrativo.c`, `operaciones_kernel.c`, `operaciones_cpu.c`) | user memory, `tablaParticiones`, `tablaPCBs` | create and end processes and threads, dump, contexts, instructions, READ/WRITE_MEM | filesystem |
| filesystem (`archivo_dump.c`, `inicializar_estructuras.c`) | `bitmap.dat`, `bloques.dat`, metadata files | one: write a dump | memoria |
| utils (`comunications.c`, ...) | none | packets, handshakes, sockets, logs, configuration | all |

What makes it hard:

- **Threads without locks.** The kernel's schedulers, the quantum thread and one handler
  per blocked thread share queues, TCBs and PCBs. Each queue operation takes a mutex, but
  what is read before a request to memoria, a sleep, or the next iteration of a loop may
  be freed by then. memoria has no mutex at all: every connection has a thread.
- **Order.** Semaphores and lists are updated one after the other; a wake-up may come
  before the flag that asks for it; the end of a quantum races with the system call.
- **Failure.** A file that cannot be opened, a memory that is full, a dump that is
  refused, a process that is cancelled while something else acts for it, a filesystem
  killed between two writes.
- **Shared flags.** The two threads of the CPU communicate through four flags with no
  lock, while the kernel tells the end of a quantum both to the CPU and to itself. The
  context of a thread has a copy in memoria and one in the CPU.
- **Streams.** Requests follow handshakes on the same byte stream, and `recv` may return
  less than was asked for.
- **Loops that modify what they iterate over** (`liberar_pcb`, `liberar_hilo`), and
  searches that return the last element when they find nothing.

Properties that make each component correct: the queues hold each TCB once and match its
`estado`; semaphores cover the queues, so no wake-up is lost; a mutex excludes and is
handed to a thread that waits for it; joins wait for threads that exist; no thread is
dropped; processes end (kernel). Ranges of processes are disjoint occupied partitions,
partitions tile the memory and are not leaked (memoria). A confirmed dump is whole and
in the files, no block has two owners, every dump is answered (filesystem). Each thread runs its
instructions once and in order however often it is preempted, on memory of its own
process, and an answer belongs to the thread that was sent (cpu). Both ends of a
connection split its bytes alike, and every request is answered with its own result
(utils).

## 2. Modules

| Module | What it is | Code |
|---|---|---|
| `Kernel` | all of the kernel but shutdown; the actors are its threads | `kernel/src` |
| `KernelProps` | its type invariant, its properties, what they ask of a program (`EnOrden`), the inductive invariant `IInv` | |
| `MCKernel` | instances: the test scripts cut down, and programs of our own | `pruebas/scripts` |
| `ListasLemas` | lemmas on lists, and recursion on the naturals, used by the other proofs | |
| `KernelProofs` | the proofs about types and semaphores | |
| `KernelColas` | the proofs that a thread is in one place, and about the partitions they take | |
| `KernelVivos` | the proofs that no thread is lost, that what is READY can be run, and of how mutexes are handed over | |
| `Particiones` | pure operators on the partition table | `administrativo.c`, `algoritmos_*.c` |
| `Memoria` | memoria as a server of parallel requests, over `Particiones` | `operaciones_kernel.c` |
| `Asignador` | abstract specification: what an allocator of ranges promises | |
| `MemoriaProps`, `MCMemoria` | properties, refinement mapping to `Asignador`, instances | |
| `MemoriaProofs` | with requests in parallel: the protocol of the requests, and under FIJAS the ranges and the refinement; what a split and a merge do to a table | |
| `Filesystem` | one thread per dump over bitmap, blocks and metadata, with kills | `filesystem/src` |
| `FilesystemProps`, `MCFilesystem` | properties, inductive invariant, instances | |
| `FilesystemProofs` | proofs of its safety properties | |
| `Instrucciones` | pure operators: the instructions, the MMU, READ_MEM and WRITE_MEM | `instrucciones.c`, `ciclo_instruccion.c`, cpu's `utils.c`, memoria's `operaciones_cpu.c` |
| `Cpu` | the threads of both ports of the CPU, with the scheduler, the quantum and the contexts in memoria around them | `servidor_cpu.c`, `ciclo_instruccion.c`, `operaciones_memoria.c`, `planificador_corto_plazo.c` |
| `Computo` | abstract specification: threads that run alone | |
| `CpuProps`, `MCCpu` | properties, refinement mapping to `Computo`, instances | `pruebas/scripts` |
| `CpuProofs` | the invariants and the refinement, proved | |
| `Comunicaciones` | handshakes and packets on streams of bytes, with the servers and clients that use them | `utils/src/utils`, `servidor_memoria.c`, `filesystemServer.c` |
| `Llamadas` | abstract specification: requests that are carried out once and answered | |
| `ComProps`, `MCCom` | properties, refinement mapping to `Llamadas`, instances | |
| `ComProofs` | the framing and the refinement, proved for packets that arrive whole | |

How they compose. `Kernel` takes the CPU and memoria for what they answer; `Memoria` and
`Filesystem` take a request for delivered. `Cpu` composes the CPU with the scheduler and
with the part of memoria it uses, and its refinement of `Computo` is what lets `Kernel`
say that a thread goes on where it was. `Comunicaciones` composes the kernel's threads,
the CPU, memoria and filesystem as far as their connections go, and its refinement of
`Llamadas` is what lets the others leave the packets out.

Definitions marked *Mutant* are never used by a specification: each is a plausible bug
that one of the runs detects when it replaces the definition that follows it.

### Kernel

An actor is a C thread: `CP` and `LP` (the two schedulers), one handler per TCB blocked
in IO or DUMP_MEMORY, and the quantum thread, whose state is `rr`. `pc[a]` says where the
actor is and `loc[a]` holds the C locals that survive a step. The grain of a step is what
another thread can observe: an action ends at each request to memoria, at each semaphore
and mutex it may block on, and at each iteration of a loop over a shared list.
`desencolar_estado_actual` followed by `encolar_en_*` is one step, because the critical
sections touch different queues and nothing in between looks at both.

Two windows of the scheduler deserve a word. `sem_wait`, the look at the size of
`cola_ready` (`HayReady`) and the removal (`Planificar`) are three steps, as mutex_ready
is released between them: another thread may dequeue the only one there is, and the
scheduler goes on with a NULL (`Toca`). In `encolar_en_ready` the post follows the append,
and `EncolarEnReady` makes both at once. That loses no behaviour: nobody reads the
semaphore but the scheduler that waits on it, so a step of another thread that falls
between the append and the post may as well come after both, and leaves the same state;
what can go wrong is that the numbers of posts and of threads differ, which is what
`SemReadyCubre` looks at. The walk of `algoritmo_prioridades` over the queue, which takes
no lock, is one step.

The CPU is reduced to its answer. A pseudocode file is, for each program counter, the set
of system calls it may ask for there (`Programa`), and `ctx` is the program counter kept
in memoria. FIN_DE_CLOCK (`fin_de_clock`) is honoured with the reason INTERRUPCION or
ignored, as `cpu_interrupt` may do either. memoria is reduced to which contexts it holds
(`mem`), the number of occupied partitions, and its answers.

Undefined behaviour. `Toca(a)` is the set of pointers the next step of `a` dereferences.
If one is NULL, or a TCB or PCB that another actor freed, the step sets `fallo` and the
model stops. `SinFallo` forbids it in the runs whose programs must not reach it; in
`kernel_caos`, whose programs may, the other properties hold up to that point. A pid is
never used again, so a freed TCB is told apart for ever.

### Memoria

Every request runs as a thread on tables that no lock protects. A step is one walk over a
table or one group of updates between two of them. The clients are the kernel's threads
that send requests: `LP`, `CP` and `DUMP`, at most one request of each at a time, as the
kernel does. A partition is identified by its `inicio`, which never changes while the
partition exists; a C pointer to one is its `inicio` (`Posicion` finds it, or tells that
it was freed). `liberar_proceso` keeps the index it had before the merge, so `Fundida`
takes both that index and the partition.

`Asignador` is the promise to the rest of the system: a process that is admitted gets a
range of its own, large enough, that does not move. The refinement mapping takes the
context of thread 0 of each process whose FIN_PROCESO has not released it yet.

### Filesystem

A thread per dump. `Cuenta` (the free blocks, one bit per critical section), `Verifica`,
`Busca` and `Marca` (the test of a bit and its set are two critical sections), `Metadata`,
`Indices`, `Escribe`. `bitmap`, `bloques` and `archivos` are the disk; `Reinicio` kills
the process at any point and keeps them, since both mappings are shared and the bitmap is
only reset when its file does not exist. `loc` keeps what a killed thread had reserved, as
a record of what the blocks belong to.

A dump is admitted when N blocks are free and reserves N + 1, and several dumps may be
admitted on the same blocks, so `Busca` comes to the end of the disk. `reservar_bitmap`
does not stop there: its loop ends when it has its blocks. Both files are mapped by whole
pages, so what follows is the padding of the last byte of `bitmap.dat`, which is in the
file, and then the tail of its page, which is not (`ColaBits`); the blocks they stand for
are past the end of `bloques.dat`, in the tail of its last page (`ColaBloques`) or past
the mapping. A tail is read and written like the rest, so the dump goes on and is answered
SUCCESS, but the tail is in no file: the system clears it when it writes the page back
(`DescargaBitmap`, `DescargaBloques`), which may happen at any time or never. An access
past the mapping is undefined: `fallo`, where the model stops. `Previos` says how many
blocks earlier executions may have taken: the first ones, as a reservation takes the first
that is free and nothing frees them.

### Cpu

Two threads share `flag_ejecutando`, `flag_desalojo`, `flag_interrupt`,
`flag_fin_programa` and `motivo`. `Dispatch` is the loop of `comenzar_servidor_dispatch`,
cut wherever a flag the other thread touches is read or written, and at each request to
memoria: `RecibirHilo`, `MarcarEjecutando`, `ObtenerContexto`, then `Fetch`, `Execute`
and `Bucle` (the condition of the loop of `ejecutar_hilo`) for each instruction,
`FijarMotivo`, `ActualizarContexto`, `EnviarMotivo`, and the flags being cleared one
group at a time. `Interrupt` reads `FIN_DE_CLOCK`, tests `flag_ejecutando`, and sets
`flag_interrupt` in a later step, so the interruption of one turn may fall in the next.
The quantum may end at any moment (`Vence`), before the thread was sent and after its
answer was read included.

`Execute` is decode and execute, which touch nothing the interrupt thread does but
`flag_interrupt`, once for each instruction. An instruction is a function of a record (the
context, the memory, the flags and the reason), so `Instrucciones` can be used by
`Computo` too. Arithmetic is modulo `Valores` to the `Octetos`, as `uint32_t`; memoria reads the
address as `int` and adds `sizeof` in 64 bits without a sign (`FueraDeRango`), so that
the -1 of a failed translation, which does not keep READ_MEM and WRITE_MEM from being
asked for, is refused or not as there. An instruction that memoria does not find is a
NULL that decode dereferences: `fallo`.

The scheduler chooses any READY thread, sends it, and reads whatever answer comes as if
it were `hilo_en_exec`'s. Its system calls are reduced to what they do to the turn: they
block the thread (`Bloquea`), go on with it (`Continua`), remove the context of a thread
(`TerminaHilo`, `Cancela`) or of a process (`TerminaProceso`). Which of several they do
is a choice here; it is `Kernel` that knows. Dumps succeed: one that fails ends a process
whose other thread may be on the CPU, which then stops at `actualizar_contexto`; `Kernel`
has that step, `Cpu` does not.

`Computo` has no flags and no copies: each thread has one context, `Instruccion` runs its
next instruction, `Atender` carries out a system call. The mapping (`Actual`, `Estado` in
`CpuProps`) takes the context of a thread from the CPU between `fetch` and
`actualizar_contexto` and from memoria otherwise, and tells from the flags, the reason or
the answer in the socket what the kernel will do with it. `Perdonar` is there because the
code does it: the reason of a wrong register is overwritten by `check_desalojo`, and a
`FIN_DE_CLOCK` before the answer turns the end of the process into a preemption.

### Comunicaciones

A connection is a record: what is on its way to each side (`ent`), who closed it, where
each side is, and what each is receiving (`rx`). A byte is the value it belongs to and its
place in it, so a value that is put together from the wrong bytes is told apart
(`BASURA`). `recv` with MSG_WAITALL waits for all the bytes or for the peer to close
(`Completo`); without it, it returns some of those that have arrived, any number of them
(`Llegan`): the cut falls at any byte, between two fields or inside one, of a packet of
any size. With `Cortes` FALSE the network delivers what was sent together all at once. The
result of `recv` is ignored, as in the code: what was not read stays in the stream for the
next one.

The servers are the accept threads (`Aceptar`, `Saludar`, `Confirmar`: memoria and
filesystem do the handshake before they accept again) and one thread for each
connection. memoria serves one request of a kernel connection and closes it, serves the
CPU until an unknown code comes, and for MEMORY_DUMP opens a connection to filesystem and
passes on the code of its answer. Payloads are opaque values with a length; a dump is its
size, a name and its contents. What the request does inside memoria is a choice of
answers (`Respuestas`): it is in `Memoria` and `Cpu`.

## 3. Runs

All runs have `CHECK_DEADLOCK FALSE`: programs end and requests run out, and the model
stops at undefined behaviour.

| Run | Instance | Shows |
|---|---|---|
| `kernel_caos` | FIFO; 2 processes, 3 threads; any one to three system calls, one unreadable file, one partition, dumps may fail | `TypeOK`, `SemReadyCubre`, `SemNewCuenta`, `UnSoloLugar` |
| `kernel_mutex` | CMN; the test RECURSOS_MUTEX, three threads that lock and unlock twice each, preemption at any point | `EnOrden`, `FinLimpio`, `SinReentrada`, `ExclusionMutua`, `MutexCoherente`, `NingunHiloPerdido`, `ReadyTieneContexto`, `SinFallo` |
| `kernel_plani` | PRIORIDADES; the tests PLANI and MEM_FIJA_BASE together: a process that joins the last of its threads and starts others, which do IO or DUMP_MEMORY; two partitions, four processes, one too large; fair | `JoinEsperaVivo`, `ParticionesConDueno`, `SinFallo`, `Termina`, `SinInanicion` |
| `mem_dinamicas` | DINAMICAS, BEST; six processes in 8 bytes, one larger than the memory, one request at a time | `TypeOK`, `Teselado`, `SinFuga`, `RangoEsParticion`, `CumplePromesa` |
| `mem_fijas` | FIJAS, WORST; three processes, requests in parallel, an unreadable file, thread 0 cancelled, dumps that end the process | `RangoEsParticion`, `HilosComparten`, `CumplePromesa` |
| `cpu_quantum` | three threads of two processes whose scripts end in an exit (`ProgramasCerrados`), any READY thread next, the quantum ending at any moment; fair | `TypeOK`, `Correspondencia`, `CpuSigue`, `CumpleComputo`, `TodosTerminan` |
| `com_dumps` | two threads of the kernel, the CPU, memoria and filesystem; a dump, a refused process; packets arrive whole; fair | `TypeOK`, `Encuadre`, `CumpleLlamadas`, `TodoPedidoSeContesta` |
| `fs_dumps` | two dumps of three and two blocks and an index, on 8 blocks of which any number is taken at first; the ninth is in the tail of `bloques.dat` and of `bitmap.dat`, the tenth past the mapping; pages written back, one kill; fair | `TypeOK`, `ConfirmadoIntegro`, `ReservadosMarcados`, `RechazoSinRastro`, `TodoDumpSeContesta` |

Disagreements between the code and what its comments and the assignment (*The Last of C
v1.2.pdf*) say, each a short counterexample:

| Run | Violated | Why |
|---|---|---|
| `fs_lleno` | `ConfirmadoGuardado` | verifies that N blocks are free and reserves N + 1: a dump on a disk of exactly its size puts its last block past the end of `bloques.dat` and is answered SUCCESS |
| `fs_doble` | `SinDobleReserva` | test and set of a bit in two critical sections |
| `cpu_limite` | `Aislamiento` | `limite` is the last address of the partition, and the MMU compares an offset with it ("Límite: Indica el tamaño de la partición del proceso", p. 16) |
| `com_partido` | `DumpIntegro` | the payload of a packet is read with one `recv` whose result is ignored; the processes may be on several machines (p. 6) |

More are in the models without a run of their own. Each shows when the named property
is checked on the instance given:

- THREAD_CANCEL leaves its caller in no queue (`Kernel`, `Cpu`; `NingunHiloPerdido` with
  a script that cancels), although "el hilo que la invocó continuará su ejecución"
  (p. 12).
- Of two threads that wait in THREAD_JOIN for the same one, the second is skipped by the
  loop that wakes them (`Kernel`; `JoinEsperaVivo` with two joiners), although the
  kernel "deberá mover al estado READY a todos los hilos que se encontraban bloqueados
  por ese TID" (p. 11).
- The heir of a mutex whose owner dies is woken up but stays in the wait list of the
  resource (`utils.c:114`). When the handler of a failed dump ends a process like that
  while the scheduler is between taking the heir from `cola_ready` and running it, the
  heir is queued a second time (`Kernel`; `UnSoloLugar` with a program that creates a
  mutex, two threads that lock it, and a dump that fails, one process and three threads
  under FIFO). The programs of `kernel_caos` are too short for it.
- A thread that has ended keeps `estado` EXEC. When the handler of a failed dump has
  already removed its process from memoria, nobody frees it, and when `liberar_pcb`
  comes to it (`utils.c:59`), `desencolar_estado_actual` sets `hilo_en_exec` to NULL
  (`utils.c:237`), whichever process runs by then: that thread is in no queue any more
  (`Kernel`; `FinLimpio`, then `NingunHiloPerdido`, with two processes, one of which has
  a thread that exits while another one asks for a dump that fails).
- `largo_plazo = false` may be written after the process that held the memory ended, and
  nobody sets it again (`Kernel`; `Termina` without its second disjunct, which leaves those
  processes out: `kernel_plani` gets to it).
- Under DINAMICAS with requests in parallel, a partition may be assigned to a process
  between its release and the merge that follows (`administrativo.c:243`), which then takes
  it (`Memoria`; `RangoEsParticion`, `mem_dinamicas` with FIRST and `EnParalelo` TRUE, in 23
  steps).
- The first partition of the table is never merged when it is freed (`Fundida`), so a
  memory that is all free may refuse a process that fits in it.
- PATH_ERROR leaves the partition it had occupied (`SinFuga` is checked where every file
  can be read).
- A script that runs off its end crashes the CPU (`Fetch`; `CpuSigue` is checked on
  scripts that end).

**Bounds.** `MaxPid` and `MaxTid` cap the counters of the kernel: two processes, or three
threads of one, are what every race found so far needs, and the lists reach the lengths
(three) at which removing while iterating matters. Eight bytes of memory give tables of
up to four partitions, so a freed partition has both neighbours. For
filesystem, the part of the disk that is taken at first says which of two dumps fit: both,
one after the other, so that one is written beside another that was confirmed; one of them,
so that the other is refused, or goes past the end of the disk and of the mapping when both
were admitted; none. The kill leaves blocks reserved by nobody.
`Pagina` is nine blocks instead of 4096 bytes: the files end inside a page, as the 200
blocks of 32 bytes of the repository do. The
quantum has no length: it may end at any point. Priorities are those of the scripts.
The CPU has four registers, words of four bits in two bytes and a memory of eight
(`Registros`, `Octetos`, `Valores`, `TamMemoria`): sums and differences wrap, an access
may span two partitions, and -1 is an address. Three threads give each a rival of its own
process and one of another. `MaxRelojes` is one: the scheduler joins `rr_handler` before
the next turn, and a second `FIN_DE_CLOCK` behind an unread one would set the same flag.
The scripts make every instruction, a loop, a system call that blocks, both ways to end
and to cancel, a wrong register and a fault happen. For the connections, two clients for
each accept thread and a packet of up to three fields are enough for the handshakes to
overlap and for lengths to be taken for data.

**Fairness.** `FairSpec` of `Kernel` has weak fairness of each actor: they are POSIX
threads, none runs on behalf of another, and each of their waits ends when its condition
holds (`sem_wait`, `mutex_io`, an answer). It is not assumed that a handler gets
`mutex_io` before another, nor that a quantum is longer than an instruction. `FairSpec`
of `Filesystem` has it of each thread that serves a dump; a kill is never forced. `Cpu`
has it of the scheduler, the timer, both threads of the CPU, and each blocked thread (what
it waits for ends, which is a matter of `Kernel`). Its one assumption on time is the
premise of `TodosTerminan`, not a guard: from some moment on the quantum does not end
before the thread was sent nor after its answer was read. Nothing in the code ensures it
but the length of the quantum, at least one millisecond, and without it there is a run in
which every turn is lost before its first instruction (the interruption that arrives then
hits the thread that is sent next, and so on). The safety properties and the refinement do
not have it. In `Comunicaciones` weak fairness of `Next` is
enough: no thread loops without reading a stream.

## 4. Proofs

`KernelProofs` proves, for every program, algorithm, number of processes and threads,
and every way the requests to memoria may be answered:

- `KernelIInv`: `Spec => []IInv`, the inductive invariant;
- `KernelTypeOK`, `KernelSemReadyCubre`, `KernelSemNewCuenta`: its parts that the runs check.

`IInv` is `TypeOK /\ SemReadyCubre /\ SemNewCuenta /\ LPTieneCabeza`. The counts are not
inductive without types (semaphores are naturals, queues are sequences), nor is
`SemNewCuenta` without `LPTieneCabeza`: LP removes `loc[LP].proceso` from `cola_new`
after the answer of memoria, and only if that is an element of it does the length go
down by one. `CP` and `LP` are queued and dequeued by other actors meanwhile; what they
may do to `cola_new` is to append (`NuevosPaso`), which keeps its head.

The proof has one lemma per action of `Kernel`. Most reduce to the same three facts:
`ColasPaso` (a move keeps the types of the queues and posts as often as it appends),
`NuevosPaso`, and `PasoDe(a)` (the actor goes from one label that is not special to
another); `CuentasSeMantienen` derives the counts from them once. `ListasLemas` holds what
is used of lists: removing a position or the first occurrence of an element shortens a
list by one and keeps its type. The pointer lemmas (`PunteroTCB`, `PunteroExec`,
`PunteroPCB`) show that an actor past `EnPaso` holds a TCB, not NULL.

`KernelColas` proves, for the same, two more invariants of the runs:

- `KernelUnSoloLugar`: `Spec /\ []EnOrden => []UnSoloLugar`;
- `KernelParticionesConDueno`: `Spec /\ []EnOrden => []ParticionesConDueno`, for programs
  without THREAD_CANCEL whose files memoria can open.

`EnOrden` is what they ask of a program, and cannot be dropped: `ProcesoVive` says that
the thread which runs is of a process that is still listed (`liberar_pcb` skips every
other thread, and one that was skipped may run again and make `buscar_proceso` answer
with somebody else's process), and `SinHerederos` that nobody dies owning a mutex that
others wait for (section 3 says what happens then). It is about the state, so it is a
premise on behaviours; `kernel_mutex` checks it on the test RECURSOS_MUTEX, and the tests
PLANI and MEM_FIJA_BASE keep it as well. Without the other two hypotheses a partition
stays taken with nobody to free it, by a thread 0 that is cancelled or a file that memoria
cannot open (section 3).

A thread that is queued for the first time is not dequeued first, and one that is woken
up is looked for where its `estado` says. So the argument needs, for each step that
queues a thread, that it was nowhere. `Lugares` adds to `UnSoloLugar` that whoever is in
a queue, in a wait list or in a handler has been *seen*: created, its process admitted,
its context in memoria (`Visto`); a thread that LP or THREAD_CREATE queues has not been.
`Seguro` is about those that somebody will wake up: a thread that waits for a mutex or
has a handler at work is BLOCKED, and not by a join; it waits in one list, once
(`Atados`); and nobody queues the thread that the scheduler has just taken
(`NadieLoEncola`). Both are inductive only together, over `IInv`. TLC finds `Lugares` and
`Seguro` true in the runs of the kernel before the proof makes them so for every
program. `Duenos` adds to `ParticionesConDueno` that memoria knows no process that has
yet to be admitted (`Admitidos`), but for the one whose answer LP has not read, and that
FIN_HILO names no thread 0 (`FinDeOtro`).

`KernelVivos` proves, for programs without THREAD_CANCEL:

- `KernelReadyDeVivos`: `Spec /\ []EnOrden` implies that every thread of `cola_ready` has
  its context in memoria or is of a process that is being freed (`Rezagado`);
- `KernelReadyTieneContexto`: `Spec /\ []EnOrden /\ []FinLimpio => []ReadyTieneContexto`;
- `KernelNingunHiloPerdido`: `Spec /\ []EnOrden /\ []FinLimpio => []NingunHiloPerdido`;
- `KernelMutexCoherente`: `Spec /\ []EnOrden /\ []FinLimpio /\ []SinReentrada =>
  []MutexCoherente`.

`FinLimpio` says two things of how processes end, and neither follows from `EnOrden`. A
process leaves no thread in `cola_ready` after its FIN_PROCESO: one that exits without
joining its threads does, until `liberar_pcb` dequeues them, and `ReadyTieneContexto` is
false meanwhile (the first theorem says that this is the only way). And the thread that
`liberar_pcb` finds in EXEC is the one in `hilo_en_exec`: section 3 says how a stale
`estado` drops a thread of another process. THREAD_CANCEL drops its caller.
`kernel_mutex` checks both premises, and TLC finds both conclusions violated on programs
that break them. So the theorems say how a thread can be lost, and that the rest
(creation, admission, preemption, IO, dumps, joins, mutexes, ends) loses none.

Nearly all of the steps of the kernel only move threads between queues. `Quieto` is what
such a step has in common (processes, threads and contexts stay, nobody that was not
queued, running or held gets to be, and nobody leaves but threads of a process that is
ending); `Cambia` lists the others (`NextQuietoOCambia`). So each invariant is proved once
for `Quieto` and once for each action of `Cambia`. There are three, over `IInv`, `Lugares`
and `Seguro`. `Vida` is about contexts: memoria has those of an admitted process until the
FIN_PROCESO of somebody (`ConContexto`), and of anyone who is queued, running or held
(`ActivosConContexto`), which is not inductive unless whoever is being freed is held by
nobody else (`SalientesFuera`, `SueltoFuera`) and is taken from the process it is of
(`SalientesSuyos`), since `liberar_hilo` works on pointers it has kept across requests to
memoria. `ExecDe` says that `hilo_en_exec` is NULL unless CP is about to run it or is
running it, so what CP writes there overwrites nobody. `Ubicados` is `NingunHiloPerdido`
with the hands of each actor spelt out.

`KernelMutexCoherente` asks besides that no thread locks a mutex it owns
(`SinReentrada`): `mutex_lock` would queue it behind itself, and `MutexCoherente` is false
then. A mutex stores the tid of its owner and the TCBs of those that wait, and three
functions write it with the process found by `buscar_proceso`, so the proof is about what
these still name after threads and processes have ended. `Propios` says that whoever is
queued, running, held or being created is in the list of its process, unless the process
is being freed; with `Visto` that is what makes the owner `MUTEX_LOCK` stores a thread of
the process. `Cerrojos` says of each mutex what `MutexCoherente` does, at every step of
the hand-over: the owner is a thread of the process or the one CP has just taken out of it
and whose mutexes, from number `j` on, it has yet to hand over (`Suelto`), and a process
that has not run has none (`SinMutex`). It holds as well after an error. That the waiters
are in `cola_blocked` is not part of it: `Ubicados` puts each of them somewhere, and
`Atados`, by which they are BLOCKED, leaves only that queue. The last lemma
(`FalloQuieto`) is that the step on which the model stops moves nothing.

`FilesystemProofs` proves, for every set of dumps, every size, block size, block count,
size of a page and earlier use of the disk, any number of kills and whenever pages are
written back:

- `FilesystemIInv`: `Spec => []IInv`;
- `FilesystemTypeOK`, `FilesystemReservadosMarcados`, `FilesystemRechazoSinRastro`,
  `FilesystemConfirmadoIntegro`: the four invariants of the runs.

`IInv` says, for each place a thread may be at (`Fase`), what it has on disk by then. The
part that carries the argument is in `Escribiendo`: while its blocks are its own and in
the file (`Seguro`), the metadata, the index block and the first `k - 1` data blocks are
written (`Escrito`). A dump writes only to blocks of its own list, so it cannot undo that
for another dump it shares none with, which is `OtrosDumps`; its own next write does not
undo the earlier ones because its blocks are distinct (`SinRepetir`), and they are because
it takes them in increasing order (`Reservando`); a page that is written back loses only
what is past the file. Lists only grow, so a dump that is `Seguro` after a step was
`Seguro` before it. `ConfirmadoIntegro` follows from `Escrito` of all the blocks. Neither
part of its premise can be dropped: `fs_doble` reaches a double reservation and `fs_lleno`
a block past the end of `bloques.dat`, and the theorem says that nothing else loses a
confirmed dump. `TypeOK` bounds bits and blocks by the mapping, not by BLOCK_COUNT, which
the code goes past.

`CpuProofs` proves, for every set of threads and processes, every script whose jumps are
to naturals, every width of words, and every point at which the quantum may end:

- `CpuTypeOK`: `Spec => []TypeOK`;
- `CorrespondenciaSiempre`: the invariant of `cpu_quantum` that makes it right for the
  scheduler to ignore the pid and tid of an answer;
- `NuncaAborta`: `flag_fin_programa` is never set, that is, memoria knows every thread
  the CPU asks about (no dump fails in `Cpu`);
- `CpuSigueSiempre`: `Spec => []CpuSigue` when the scripts are closed
  (`ProgramasCerrados`), that is, no instruction is ever missing;
- `CpuCumpleComputo`: `Spec => CumpleComputo`, that is, `Cpu` implements `Computo`.

`TypeOK` says that registers are words and that the memory holds bytes, so it depends on
what every instruction computes. Sums, differences and READ_MEM stay below `Modulo`
because a word is `Octetos` digits in base `Valores` (`LeidoPalabra`); WRITE_MEM writes
such digits (`OctetoByte`), in addresses of the memory because those which
`FueraDeRango` lets through are (`DireccionDePedido`): the base and the limit of a
context lie inside it. The powers are a recursive function (`Potencia`); that there is
one (`Recursion`) and induction on it (`MinimoExiste`, the least counterexample) are in
`ListasLemas`.

`Correspondencia` is not inductive: it does not say that a thread which is about to be
sent has a context, nor that no queue holds one that is gone. `Invariante` adds `Colas`
(queues are disjoint and hold threads with a context) and `Turno` (so does `hilo_en_exec`
until its turn is over).

`CpuSigue` is `NuncaAborta` and that the program counter does not leave its script. Of
the latter, a script that runs off its end is a counterexample, and the code has no
defence; all the scripts of the tests end with an exit, and `ProgramasCerrados` says so:
the last line never goes on to the next one, and jumps stay inside. The invariant is
`EnScript`, on the program counters of memoria (`pcb`) and of the CPU (`contexto`);
`SoloSalta` says that an instruction leaves the counter as it was, to be incremented by
`Execute`, or jumps.

The refinement needs one invariant more, `Coherente`, on the flags: before an instruction
`flag_desalojo` is down and the reason is CONTINUE, after one the reason is CONTINUE
unless it is up, and a turn that ends has one of both flags up. Its first part (`Forma`
and the lemmas on it) shows that every instruction leaves such a record;
`MismasInstrucciones`, that `Computo` runs the same ones. Then `NextComputo` has one step
for each action of `Cpu`: most change nothing the mapping reads (`MapaIgual`), `Execute`
is `Instruccion`, `FijarMotivo` may be `Perdonar`, and the answers are `Atender`,
`Salir`, `Matar` or `Cancelar` (`Reposo` says that after one everybody is at rest).

`MemoriaProofs` proves, with all the clients in parallel, for every search algorithm, set
of processes, sizes of at least one byte, size of memory, and whichever files and threads
fail:

- `MemoriaProtocolo` and `MemoriaHilos`, under either scheme: which client may be where
  and what it still knows of its process (`Protocolo`), and `HilosComparten`;
- `MemoriaIInv`, `MemoriaTypeOK`, `MemoriaRango`, under FIJAS: `IInv`, `TypeOK` and
  `RangoEsParticion`;
- `MemoriaCumplePromesa`, under FIJAS: `Spec => CumplePromesa`, memoria implements
  `Asignador`;
- `MemoriaDivide` and `MemoriaFunde`, of the operators: in a table that tiles the memory
  a split, and a merge whose index is still right, leave a table that tiles the memory,
  and every other occupied row as it was.

FIJAS is a hypothesis because under DINAMICAS `RangoEsParticion` is false when requests
overlap: section 3 has the counterexample. For that scheme there is no theorem about
behaviours; `mem_dinamicas` checks its algorithms on one request at a time, and the two
operator theorems say for every table that the row operations are right as long as nobody
else moves the table meanwhile. `ConstantesFijas` is what FIJAS asks of the configuration:
that PARTICIONES fit in TAM_MEMORIA, and that the first is of more than one byte.

`RangoEsParticion` is not inductive: that nobody is given an occupied partition needs what
the walk of the table found to hold when the row is marked and published, two steps later,
while a FIN_PROCESO of the scheduler and another of a failed dump release rows. The argument
is on who may change what. Under FIJAS the rows never move (`Fija`), so a position is good
for ever and only `ocupada` changes (`FijaQuieta`). Only LP marks a row, and it has one
request at a time, so a row that was free when found is still free (`FijaMarca`); a row is
released only by whoever ends its process, and the row that the two ends of one process
release is the same one (`FijaLibera`, `FijaDevuelve`). `Separadas` shows that the rows of
the initial table, which are sums of `Tamanios`, do not overlap. The `Paso` and `Fija`
lemmas prove, one per action, that the invariant is kept and that the mapping changes by
nothing, by the process that is admitted or by the one that leaves, so that the refinement
has only to name `Otorgar` or `Devolver`.

`ComProofs` proves, under `SinPartir` and for every number of clients, every script of
each, every size of an integer and of a field:

- `ComTypeOK` and `ComEncuadre`: `Spec => []TypeOK` and `Spec => []Encuadre`;
- `ComCumpleLlamadas`: `Spec => CumpleLlamadas`, `Comunicaciones` implements `Llamadas`.

`SinPartir` is a hypothesis on the network alone, that what was sent together arrives
together (`Cortes` is FALSE): it puts no bound on a packet, and the code does nothing to
ensure it. `com_dumps` is an instance; in `com_partido` a packet may be cut anywhere, and
`DumpIntegro` fails. So the theorems say that the two ends agree on the format and on whose
turn it is, not that the code reads a stream correctly, which it does not.

The argument has three parts. First, the round trip of a packet through its bytes
(`IdaYVuelta`): `Deserealizado(Campos(cs)) = cs`. Both are defined by recursion on the
data, and induction is again on the least counterexample: `CamposBien` gives the places
where each field begins, with its length and its value in the bytes from there, and the
function `Deserealizado` is shown to be `cs` from each of those places on, the last first.
Second, what `recv` returns: of what was written together all of it (`LlegaEntero`), so
a side that is reading (`Recibiendo`) has the rest of the packet, and only that, on its
stream. Third, the invariant `Inv`. `Fase` lists what a connection may be going through
(`PorAbrir`, `Saludandose`, `Libre`, `Pidiendo`, `Delegando`, `Respondiendo`,
`Terminada`), each with the bytes on both streams; `Saludandose` includes the request
that follows the handshake before the server has read it. `Encuadre` alone is not
inductive: it says nothing of a stream until the packet was read. `Enlace` ties a
MEMORY_DUMP to the connection that serves it: that one is opened once, and only while the
request waits, so that what filesystem does counts as the `Hacer` of the kernel's
thread. There is one lemma for each action on a record (`Paso...`), and one on the system
(`Inv...`) that also names its step of `Llamadas`: `Pedir`, `Contestar` (`Leer`), `Hacer`
(the request that memoria or filesystem processes), or none. `PasoConfirmar` shows on the
way that no handshake fails and `InvNext` that filesystem never exits.

Assumptions: `ConstantesKernel`, `ConstantesFilesystem`, `ConstantesInstrucciones`,
`ConstantesCpu`, `ConstantesParticiones`, `ConstantesMemoria`, `ConstantesComunicaciones`
and `GuionesComunicaciones` (who asks for what, and that a kernel connection makes one
request), evaluated by TLC on every run of the kernel, of the filesystem, of the CPU, of
memoria and of the connections.

Only model-checked:

- the other invariants of the kernel. They are about what the programs do, and not true
  of all of them: `JoinEsperaVivo` fails with two joiners, `SinFallo` in `kernel_caos`;
  `ExclusionMutua` is about two lines of one script; `EnOrden`, `FinLimpio` and
  `SinReentrada` are what the theorems ask of a program;
- memoria under DINAMICAS, one request at a time (`mem_dinamicas`), with `Teselado` and
  `SinFuga`;
- the connections when a packet is cut (`com_partido`);
- liveness (fairness and ENABLED are out of the prover's reach).

## 5. Not modelled

- Shutdown of the four processes (SIGINT, `finalizar_*`), configuration files, logs; the
  errors of starting up (a port in use, memoria not there yet), and the stubs of
  `server.c` and `client.c`.
- The text of instructions: an instruction is its operation and operands. Missing
  operands are out.
- In `Cpu`, a dump that fails while another thread of its process runs (see section 2).
- In `Comunicaciones`, a process that dies, and filesystem being unreachable, after which
  memoria closes the kernel's connection without an answer. Handshakes never fail
  between these clients and servers, though their two halves are modelled in full.
- A configuration of FIJAS in which a process fits in the memory and in no
  partition (it is postponed for ever by construction), and processes of size 0.
- The depth of the recursion of `ejecutar_hilo`, one level for each system call that
  does not block: a loop in `Kernel` and in `Cpu`.
- Contents of the blocks below the granularity of a block; the kill of the machine as
  opposed to the process, and `msync`, whose addresses are not aligned to a page, so that
  it does nothing. What an access past a mapping does: the model stops there.
- A `sem_post` apart from its append, and the walk of `algoritmo_prioridades` row by row
  (section 2 says why).

## 6. Plan

Done: `Kernel` and `Filesystem` with their proofs; `Particiones`, `Memoria` and
`Asignador` with the proof of the refinement under FIJAS; `Cpu` and `Computo` with the
proof of theirs; `Comunicaciones` and `Llamadas`, proved for packets that arrive whole.

1. Proofs: what of memoria under DINAMICAS survives requests in parallel (the table tiles
   the memory).
2. Abstract specifications: the life cycle of a thread (READY, EXEC, BLOCKED, EXIT) and
   a mutex with a queue, implemented by `Kernel`.
3. A process that dies, in `Comunicaciones`; failed dumps in `Cpu`; shutdown.
