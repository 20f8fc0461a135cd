------------------------------- MODULE Kernel -------------------------------
(***************************************************************************)
(* The kernel module (kernel/src): the long-term scheduler, the short-term *)
(* scheduler, the system calls a running thread asks for, and the detached *)
(* handler threads of IO and DUMP_MEMORY.  The C threads are the actors:   *)
(* CP (planificador_corto_plazo.c), LP (planificador_largo_plazo.c), the   *)
(* round-robin timer (rr) and one handler per blocked TCB.  They share the *)
(* queues, the TCBs and the PCBs, mostly without locks, so a step of an    *)
(* actor reaches at most the next request to memoria or the next iteration *)
(* of a loop over a shared list.                                           *)
(*                                                                         *)
(* Using NULL or a freed TCB or PCB is undefined behaviour: the            *)
(* actor's step then records it in fallo and the model stops there.        *)
(***************************************************************************)
EXTENDS Integers, Sequences, FiniteSets, SequencesExt

CONSTANTS
    CP, LP, NULO,       \* the two schedulers, and the NULL pointer
    MaxPid, MaxTid,     \* bounds of pid_counter and of each tid_contador
    Algoritmo,          \* ALGORITMO_PLANIFICACION of kernel.config
    Archivos, Recursos, \* pseudocode files and mutex names the scripts use
    Programa,           \* per file, the system calls it may ask for at each pc
    ArchivosIniciales,  \* command line of the kernel, main.c:30-36
    Existe,             \* the files memoria can open
    Exceden,            \* the files launched with a size above TAM_MEMORIA
    Cupo,               \* number of partitions (scheme FIJAS, all of one size)
    DumpPuedeFallar     \* whether filesystem may refuse a dump

Pids  == 0..(MaxPid - 1)
Tids  == 0..(MaxTid - 1)
Hilos == Pids \X Tids
Nadie == -1             \* owner of a free mutex, tid_bloqueador of a new TCB

Syscalls ==
    [op : {"DUMP_MEMORY", "IO", "THREAD_EXIT", "PROCESS_EXIT"}]
        \cup [op : {"PROCESS_CREATE", "THREAD_CREATE"},
              archivo : Archivos, prioridad : Nat]
        \cup [op : {"THREAD_JOIN", "THREAD_CANCEL"}, tid : Tids]
        \cup [op : {"MUTEX_CREATE", "MUTEX_LOCK", "MUTEX_UNLOCK"},
              recurso : Recursos]

ASSUME ConstantesKernel ==
    /\ MaxPid \in Nat \ {0} /\ MaxTid \in Nat \ {0} /\ Cupo \in Nat
    /\ Algoritmo \in {"FIFO", "PRIORIDADES", "CMN"}
    /\ Programa \in [Archivos -> Seq(SUBSET Syscalls)]
    /\ ArchivosIniciales \in Seq(Archivos) /\ Len(ArchivosIniciales) \in 1..MaxPid
    /\ Existe \subseteq Archivos /\ Exceden \subseteq Archivos
    /\ DumpPuedeFallar \in BOOLEAN
    /\ CP # LP /\ {CP, LP} \cap Hilos = {}
    /\ NULO \notin Hilos /\ NULO \notin Pids

VARIABLES
    procesos_en_sistema, pid_counter,        \* the PCBs
    threads, mutex, tid_contador,            \* fields of a PCB, by pid
    estado, prioridad, archivo,              \* fields of a TCB, by <<pid, tid>>
    tid_bloqueador, motivo_bloqueo,
    liberados,                               \* TCBs already freed
    cola_new, cola_ready, cola_blocked, hilo_en_exec,
    sem_new, sem_ready,                      \* hay_pcbs_en_new, hay_pcbs_en_ready
    largo_plazo,
    rr, flag_desalojar, fin_de_clock,        \* round-robin timer, CPU interrupt
    mem, ocupadas, respuesta,                \* memoria: contexts, partitions, reply
    ctx,                                     \* program counter kept in memoria
    pc, loc,                                 \* where each actor is, its locals
    fallo

colas    == <<cola_ready, cola_blocked, hilo_en_exec, sem_ready, estado>>
bloqueo  == <<tid_bloqueador, motivo_bloqueo>>
creados  == <<pid_counter, tid_contador, prioridad, archivo>>
procesos == <<procesos_en_sistema, threads, mutex>>
nuevos   == <<cola_new, sem_new>>
quantum  == <<rr, flag_desalojar, fin_de_clock>>
memoria  == <<mem, ocupadas>>
vars == <<colas, bloqueo, creados, procesos, liberados, nuevos, largo_plazo, quantum,
          memoria, respuesta, ctx, pc, loc, fallo>>

Actores == {CP, LP} \cup Hilos
Fallos  == {"ninguno", "puntero_nulo", "uso_tras_liberar",
            "cpu_sin_contexto", "memoria_sin_pcb"}

-----------------------------------------------------------------------------
(* Searches of utils.c: when nothing matches they return the last element. *)

Ultimo(s) == IF s = <<>> THEN NULO ELSE s[Len(s)]

BuscarProceso(p) ==
    IF p \in ToSet(procesos_en_sistema) THEN p ELSE Ultimo(procesos_en_sistema)

BuscarHilo(p, t) ==
    IF <<p, t>> \in ToSet(threads[p]) THEN <<p, t>> ELSE Ultimo(threads[p])

\* Index of the mutex, 0 when the process has none.
BuscarRecurso(p, n) ==
    LET ks == {k \in DOMAIN mutex[p] : mutex[p][k].nombre = n}
    IN  IF ks = {} THEN Len(mutex[p])
        ELSE CHOOSE k \in ks : \A m \in ks : k <= m

-----------------------------------------------------------------------------
(* Moves between queues.                                                   *)

ReadySin(h)   == IF estado[h] = "READY" THEN RemoveFirst(cola_ready, h)
                 ELSE cola_ready
BlockedSin(h) == IF estado[h] = "BLOCKED" THEN RemoveFirst(cola_blocked, h)
                 ELSE cola_blocked
ExecSin(h)    == IF estado[h] = "EXEC" THEN NULO ELSE hilo_en_exec

Desencolar(h) ==
    /\ cola_ready' = ReadySin(h)
    /\ cola_blocked' = BlockedSin(h)
    /\ hilo_en_exec' = ExecSin(h)
    /\ UNCHANGED <<sem_ready, estado>>

\* Mutant: desencolar_estado_actual is not called before encolar_en_ready.
PasarAReadySinSacar(h) ==
    /\ cola_ready' = Append(cola_ready, h)
    /\ sem_ready' = sem_ready + 1
    /\ estado' = [estado EXCEPT ![h] = "READY"]
    /\ UNCHANGED <<cola_blocked, hilo_en_exec>>

\* desencolar_estado_actual(h); encolar_en_ready(h)
PasarAReady(h) ==
    /\ cola_ready' = Append(ReadySin(h), h)
    /\ cola_blocked' = BlockedSin(h)
    /\ hilo_en_exec' = ExecSin(h)
    /\ sem_ready' = sem_ready + 1
    /\ estado' = [estado EXCEPT ![h] = "READY"]

\* desencolar_estado_actual(h); encolar_en_blocked(h, m)
PasarABlocked(h, m) ==
    /\ cola_ready' = ReadySin(h)
    /\ cola_blocked' = Append(BlockedSin(h), h)
    /\ hilo_en_exec' = ExecSin(h)
    /\ estado' = [estado EXCEPT ![h] = "BLOCKED"]
    /\ motivo_bloqueo' = [motivo_bloqueo EXCEPT ![h] = m]
    /\ UNCHANGED sem_ready

\* Mutant: sem_post only when the list was empty.
EncolarEnReadySinPost(h) ==
    /\ cola_ready' = Append(cola_ready, h)
    /\ sem_ready' = IF cola_ready = <<>> THEN sem_ready + 1 ELSE sem_ready
    /\ estado' = [estado EXCEPT ![h] = "READY"]
    /\ UNCHANGED <<cola_blocked, hilo_en_exec>>

\* encolar_en_ready(h).  The post, which in the code follows the append outside
\* mutex_ready, is made with it: nobody reads the semaphore but the scheduler that
\* waits on it, so whatever comes in between can as well come after both.
EncolarEnReady(h) ==
    /\ cola_ready' = Append(cola_ready, h)
    /\ sem_ready' = sem_ready + 1
    /\ estado' = [estado EXCEPT ![h] = "READY"]
    /\ UNCHANGED <<cola_blocked, hilo_en_exec>>

Va(a, etiqueta) == pc' = [pc EXCEPT ![a] = etiqueta]

\* A fresh TCB of process p.
TcbNuevo(p, a, pri) ==
    LET h == <<p, tid_contador[p]>>
    IN  /\ tid_contador[p] < MaxTid     \* bound
        /\ threads' = [threads EXCEPT ![p] = Append(@, h)]
        /\ tid_contador' = [tid_contador EXCEPT ![p] = @ + 1]
        /\ prioridad' = [prioridad EXCEPT ![h] = pri]
        /\ archivo' = [archivo EXCEPT ![h] = a]

-----------------------------------------------------------------------------
(* Pointers the next step of an actor dereferences.                        *)

EnLista(s, k) == IF k \in DOMAIN s THEN {s[k]} ELSE {}

\* Heads of the wait list of mutex number k when its owner is being freed.
Herederos(p, k, h) ==
    IF /\ p # NULO /\ k \in DOMAIN mutex[p]
       /\ mutex[p][k].owner = h[2] /\ mutex[p][k].hilos # <<>>
    THEN {mutex[p][k].hilos[1]} ELSE {}

Nulo(x) == {x} \cap {NULO}

\* A system call starts by looking its process up: NULL if there is none left.
\* If the queue was emptied since list_size, the thread to run is NULL and so is
\* hilo_en_exec, which is then made to exit.
Toca(a) ==
    LET l == loc[a] IN
    CASE pc[a] = "planifica" ->
            IF cola_ready = <<>> THEN {NULO}
            ELSE IF Algoritmo # "FIFO" /\ Len(cola_ready) > 1
            THEN ToSet(cola_ready) ELSE {}
      [] pc[a] = "cambio" -> {hilo_en_exec}
      [] pc[a] = "cpu" -> {hilo_en_exec} \cup Nulo(Ultimo(procesos_en_sistema))
      [] pc[a] \in {"saca", "crear_hilo", "fin_hilo", "cancela", "libera_hilo",
                   "crear_proceso", "responde", "io_sale", "dump"} -> {l.hilo}
      [] pc[a] \in {"fin_proceso", "libera"} -> Nulo(l.proceso)
      [] pc[a] = "desencola" ->
            Nulo(l.proceso) \cup EnLista(threads[l.proceso], l.j)
      [] pc[a] = "joins" -> {l.hilo} \cup EnLista(cola_blocked, l.j)
      [] pc[a] = "mutex" -> {l.hilo} \cup Herederos(l.dueno, l.j, l.hilo)
      [] OTHER -> {}

\* A PCB found before a request or a loop, and freed since by another actor.
PcbLiberado(a) ==
    \/ /\ pc[a] \in {"fin_proceso", "desencola", "libera", "responde"}
       /\ loc[a].proceso \in Pids \ ToSet(procesos_en_sistema)
    \/ /\ pc[a] = "mutex"
       /\ loc[a].dueno \in Pids \ ToSet(procesos_en_sistema)

EnPaso(a, etiqueta) ==
    /\ fallo = "ninguno"
    /\ pc[a] = etiqueta
    /\ Toca(a) \cap (liberados \cup {NULO}) = {}
    /\ ~PcbLiberado(a)

\* fallo is set instead of performing the step.
Falla(a) ==
    /\ fallo = "ninguno"
    /\ \/ NULO \in Toca(a) /\ fallo' = "puntero_nulo"
       \/ (Toca(a) \cap liberados # {} \/ PcbLiberado(a)) /\ fallo' = "uso_tras_liberar"
       \/ /\ pc[a] = "cpu" /\ hilo_en_exec # NULO /\ loc[a].hilo \notin mem
          /\ fallo' = "cpu_sin_contexto"
       \/ pc[a] = "dump" /\ a \notin mem /\ fallo' = "memoria_sin_pcb"
    /\ UNCHANGED <<colas, bloqueo, creados, procesos, liberados, nuevos, largo_plazo,
                   quantum, memoria, respuesta, ctx, pc, loc>>

-----------------------------------------------------------------------------
(* Short-term scheduler: ejecutar_planificador_corto_plazo.                *)

\* Mutant: the scheduler does not wait for the semaphore.
EsperaReadySinEsperar ==
    /\ EnPaso(CP, "sem_ready")
    /\ sem_ready' = sem_ready - 1
    /\ Va(CP, "hay_ready")
    /\ UNCHANGED <<cola_ready, cola_blocked, hilo_en_exec, estado, quantum, loc>>

EsperaReady ==
    /\ EnPaso(CP, "sem_ready")
    /\ sem_ready > 0
    /\ sem_ready' = sem_ready - 1
    /\ Va(CP, "hay_ready")
    /\ UNCHANGED <<cola_ready, cola_blocked, hilo_en_exec, estado, quantum, loc>>

\* list_size, which is not under mutex_ready
HayReady ==
    /\ EnPaso(CP, "hay_ready")
    /\ Va(CP, IF cola_ready = <<>> THEN "sem_ready" ELSE "planifica")
    /\ UNCHANGED <<colas, quantum, loc>>

\* Lower number first; among equals the one that has waited longest, which is
\* the first queued: encolar_en_ready restarts temporal as it appends.
MayorPrioridad ==
    CHOOSE k \in DOMAIN cola_ready : \A m \in DOMAIN cola_ready :
        \/ prioridad[cola_ready[k]] < prioridad[cola_ready[m]]
        \/ prioridad[cola_ready[k]] = prioridad[cola_ready[m]] /\ k <= m

Planificar ==
    /\ EnPaso(CP, "planifica")
    /\ LET k == IF Algoritmo = "FIFO" THEN 1 ELSE MayorPrioridad
       IN  /\ loc' = [loc EXCEPT ![CP].hilo = cola_ready[k]]
           /\ cola_ready' = RemoveAt(cola_ready, k)
    /\ Va(CP, "saca")
    /\ UNCHANGED <<cola_blocked, hilo_en_exec, sem_ready, estado, quantum>>

PonerEnExec ==
    /\ EnPaso(CP, "saca")
    /\ LET h == loc[CP].hilo
       IN  estado' = [estado EXCEPT ![h] = "EXEC"] /\ hilo_en_exec' = h
    /\ rr' = IF Algoritmo = "CMN" THEN "duerme" ELSE "no"
    /\ Va(CP, "cambio")
    /\ UNCHANGED <<cola_ready, cola_blocked, sem_ready, flag_desalojar, fin_de_clock,
                   loc>>

\* manejar_cambio_estado and enviar_hilo_a_cpu, on entry to ejecutar_hilo
EjecutarHilo ==
    /\ EnPaso(CP, "cambio")
    /\ flag_desalojar' = FALSE
    /\ IF flag_desalojar
       THEN PasarAReady(hilo_en_exec) /\ Va(CP, "fin") /\ UNCHANGED loc
       ELSE /\ loc' = [loc EXCEPT ![CP].hilo = hilo_en_exec]
            /\ Va(CP, "cpu")
            /\ UNCHANGED colas
    /\ UNCHANGED <<rr, fin_de_clock>>

FinEjecucion ==
    /\ EnPaso(CP, "fin")
    /\ hilo_en_exec' = NULO
    /\ flag_desalojar' = FALSE
    /\ Va(CP, "join_rr")
    /\ UNCHANGED <<cola_ready, cola_blocked, sem_ready, estado, rr, fin_de_clock,
                   loc>>

\* pthread_join(hilo_quantum) under CMN; rr is "no" under the other two
EsperarQuantum ==
    /\ EnPaso(CP, "join_rr")
    /\ rr = "no"
    /\ Va(CP, "sem_ready")
    /\ UNCHANGED <<colas, quantum, loc>>

-----------------------------------------------------------------------------
(* Round-robin timer and the CPU's interrupt line.                         *)

\* The thread it compares with is the one it was created for, since CP joins
\* it before dispatching another.
RRVence ==
    /\ rr = "duerme"
    /\ rr' = IF hilo_en_exec # NULO THEN "desaloja" ELSE "no"
    /\ UNCHANGED <<flag_desalojar, fin_de_clock>>

RRDesaloja ==
    /\ rr = "desaloja"
    /\ rr' = "no" /\ flag_desalojar' = TRUE /\ fin_de_clock' = TRUE

\* FIN_DE_CLOCK read by the CPU while it runs nothing, or too late in a burst
\* that ends with a system call
FinDeClockIgnorado ==
    /\ fin_de_clock
    /\ fin_de_clock' = FALSE
    /\ UNCHANGED <<rr, flag_desalojar>>

-----------------------------------------------------------------------------
(* What the CPU answers: an interruption or a system call.                 *)

CPUContesta == EnPaso(CP, "cpu") /\ loc[CP].hilo \in mem

\* Mutant: the preempted thread is not queued again.
InterrupcionPierde ==
    /\ CPUContesta
    /\ fin_de_clock
    /\ fin_de_clock' = FALSE
    /\ Desencolar(hilo_en_exec)
    /\ Va(CP, "fin")
    /\ UNCHANGED <<rr, flag_desalojar, loc>>

Interrupcion ==
    /\ CPUContesta
    /\ fin_de_clock
    /\ fin_de_clock' = FALSE
    /\ PasarAReady(hilo_en_exec)
    /\ Va(CP, "fin")
    /\ UNCHANGED <<rr, flag_desalojar, loc>>

\* The handler of each system call s, run by CP for the thread in hilo_en_exec.

DumpMemory(s) ==
    LET h == hilo_en_exec IN
    /\ s.op = "DUMP_MEMORY"
    /\ PasarABlocked(h, "MUTEX")   \* M_DUMP_MEMORY and MUTEX are both 1
    /\ pc' = [pc EXCEPT ![CP] = "fin", ![h] = "dump"]
    /\ loc' = [loc EXCEPT ![h].hilo = h]
    /\ UNCHANGED <<tid_bloqueador, creados, procesos, nuevos, fallo>>

PeticionIO(s) ==
    LET h == hilo_en_exec IN
    /\ s.op = "IO"
    /\ PasarABlocked(h, "IO")
    /\ pc' = [pc EXCEPT ![CP] = "fin", ![h] = "io_espera"]
    /\ loc' = [loc EXCEPT ![h].hilo = h]
    /\ UNCHANGED <<tid_bloqueador, creados, procesos, nuevos, fallo>>

\* crear_pcb and encolar_en_new
IniciarProceso(s) ==
    LET p == pid_counter IN
    /\ s.op = "PROCESS_CREATE"
    /\ p < MaxPid                       \* bound
    /\ pid_counter' = p + 1
    /\ procesos_en_sistema' = Append(procesos_en_sistema, p)
    /\ TcbNuevo(p, s.archivo, s.prioridad)
    /\ cola_new' = Append(cola_new, p)
    /\ sem_new' = sem_new + 1
    /\ Va(CP, "cambio")
    /\ UNCHANGED <<colas, bloqueo, mutex, loc, fallo>>

ThreadCreate(s) ==
    LET p == BuscarProceso(hilo_en_exec[1]) IN
    /\ s.op = "THREAD_CREATE"
    /\ TcbNuevo(p, s.archivo, s.prioridad)
    /\ loc' = [loc EXCEPT ![CP].hilo = <<p, tid_contador[p]>>]
    /\ Va(CP, "crear_hilo")
    /\ UNCHANGED <<colas, bloqueo, pid_counter, procesos_en_sistema, mutex, nuevos,
                   fallo>>

ThreadJoin(s) ==
    LET h == hilo_en_exec
        b == BuscarHilo(BuscarProceso(h[1]), s.tid)
    IN
    /\ s.op = "THREAD_JOIN"
    /\ IF b # NULO /\ b[2] = s.tid
       THEN /\ PasarABlocked(h, "THREAD_JOIN")
            /\ tid_bloqueador' = [tid_bloqueador EXCEPT ![h] = s.tid]
            /\ Va(CP, "fin")
       ELSE Va(CP, "cambio") /\ UNCHANGED <<colas, bloqueo>>
    /\ UNCHANGED <<creados, procesos, nuevos, loc, fallo>>

ThreadCancel(s) ==
    LET c == BuscarHilo(BuscarProceso(hilo_en_exec[1]), s.tid) IN
    /\ s.op = "THREAD_CANCEL"
    /\ IF c # NULO
       THEN /\ Desencolar(c)
            /\ loc' = [loc EXCEPT ![CP].hilo = c]
            /\ Va(CP, "cancela")
       ELSE Va(CP, "fin") /\ UNCHANGED <<colas, loc>>
    /\ UNCHANGED <<bloqueo, creados, procesos, nuevos, fallo>>

MutexCreate(s) ==
    LET p == BuscarProceso(hilo_en_exec[1]) IN
    /\ s.op = "MUTEX_CREATE"
    /\ mutex' = [mutex EXCEPT ![p] =
            Append(@, [nombre |-> s.recurso, owner |-> Nadie, hilos |-> <<>>])]
    /\ Va(CP, "cambio")
    /\ UNCHANGED <<colas, bloqueo, creados, procesos_en_sistema, threads, nuevos,
                   loc, fallo>>

LibreSiNadieEspera(r) == r.owner = Nadie \/ r.hilos = <<>>   \* Mutant
Libre(r) == r.owner = Nadie

MutexLock(s) ==
    LET h == hilo_en_exec
        p == BuscarProceso(h[1])
        k == BuscarRecurso(p, s.recurso)
    IN
    /\ s.op = "MUTEX_LOCK"
    /\ \/ /\ k = 0
          /\ Va(CP, "cambio")
          /\ UNCHANGED <<colas, motivo_bloqueo, mutex>>
       \/ /\ k # 0 /\ Libre(mutex[p][k])
          /\ mutex' = [mutex EXCEPT ![p][k].owner = h[2]]
          /\ Va(CP, "cambio")
          /\ UNCHANGED <<colas, motivo_bloqueo>>
       \/ /\ k # 0 /\ ~Libre(mutex[p][k])
          /\ PasarABlocked(h, "MUTEX")
          /\ mutex' = [mutex EXCEPT ![p][k].hilos = Append(@, h)]
          /\ Va(CP, "fin")
    /\ UNCHANGED <<tid_bloqueador, creados, procesos_en_sistema, threads, nuevos,
                   loc, fallo>>

EntregadoSinSacar(r) == [r EXCEPT !.owner = r.hilos[1][2]]   \* Mutant
EntregadoSinDueno(r) == [r EXCEPT !.hilos = Tail(@)]         \* Mutant
Entregado(r) == [r EXCEPT !.owner = r.hilos[1][2], !.hilos = Tail(@)]

MutexUnlock(s) ==
    LET h == hilo_en_exec
        p == BuscarProceso(h[1])
        k == BuscarRecurso(p, s.recurso)
        n == mutex[p][k].hilos[1]
    IN
    /\ s.op = "MUTEX_UNLOCK"
    /\ Va(CP, "cambio")
    /\ \/ /\ ~(k # 0 /\ mutex[p][k].owner = h[2])
          /\ UNCHANGED <<colas, mutex, fallo>>
       \/ /\ k # 0 /\ mutex[p][k].owner = h[2] /\ mutex[p][k].hilos = <<>>
          /\ mutex' = [mutex EXCEPT ![p][k].owner = Nadie]
          /\ UNCHANGED <<colas, fallo>>
       \/ /\ k # 0 /\ mutex[p][k].owner = h[2] /\ mutex[p][k].hilos # <<>>
          /\ IF n \in liberados
             THEN fallo' = "uso_tras_liberar" /\ UNCHANGED <<colas, mutex>>
             ELSE /\ mutex' = [mutex EXCEPT ![p][k] = Entregado(@)]
                  /\ PasarAReady(n)
                  /\ UNCHANGED fallo
    /\ UNCHANGED <<bloqueo, creados, procesos_en_sistema, threads, nuevos,
                   loc>>

\* process_exit_thread(h) up to its request; it goes on at etiqueta sigue
SalirProceso(a, h, sigue) ==
    /\ Desencolar(h)
    /\ loc' = [loc EXCEPT ![a].hilo = h, ![a].sigue = sigue,
                          ![a].proceso = BuscarProceso(h[1])]
    /\ Va(a, "fin_proceso")

\* The main thread's exit calls process_exit after hilo_en_exec became NULL.
ThreadExit(s) ==
    LET h == hilo_en_exec IN
    /\ s.op = "THREAD_EXIT"
    /\ Desencolar(h)
    /\ IF h[2] = 0
       THEN fallo' = "puntero_nulo" /\ UNCHANGED <<pc, loc>>
       ELSE /\ loc' = [loc EXCEPT ![CP].hilo = h]
            /\ Va(CP, "fin_hilo")
            /\ UNCHANGED fallo
    /\ UNCHANGED <<bloqueo, creados, procesos, nuevos>>

\* Also what SEGFAULT and an unknown reason lead to.
ProcessExit(s) ==
    /\ s.op = "PROCESS_EXIT"
    /\ SalirProceso(CP, hilo_en_exec, "fin")
    /\ UNCHANGED <<bloqueo, creados, procesos, nuevos, fallo>>

Syscall ==
    LET script == Programa[archivo[loc[CP].hilo]]
        linea  == ctx[loc[CP].hilo]
    IN
    /\ CPUContesta
    /\ linea \in DOMAIN script
    /\ \E s \in script[linea] :
        \/ DumpMemory(s) \/ PeticionIO(s) \/ IniciarProceso(s) \/ ThreadCreate(s)
        \/ ThreadJoin(s) \/ ThreadCancel(s) \/ MutexCreate(s) \/ MutexLock(s)
        \/ MutexUnlock(s) \/ ThreadExit(s) \/ ProcessExit(s)
    /\ ctx' = [ctx EXCEPT ![loc[CP].hilo] = @ + 1]
    /\ UNCHANGED <<liberados, largo_plazo, quantum, memoria, respuesta>>

-----------------------------------------------------------------------------
(* Requests to memoria.  Each runs whole in a thread of memoria, between   *)
(* two steps of the actor that waits for the answer.                       *)

\* Mutant: the thread is queued before memoria has its context.
CrearHiloSinContexto ==
    /\ EnPaso(CP, "crear_hilo")
    /\ EncolarEnReady(loc[CP].hilo)
    /\ Va(CP, "cambio")
    /\ UNCHANGED <<mem, ocupadas, loc>>

CrearHilo ==
    LET h == loc[CP].hilo IN
    /\ EnPaso(CP, "crear_hilo")
    /\ IF archivo[h] \in Existe
       THEN /\ mem' = mem \cup {h}
            /\ EncolarEnReady(h)
            /\ Va(CP, "cambio")
            /\ UNCHANGED loc
       ELSE /\ SalirProceso(CP, h, "cambio")
            /\ UNCHANGED mem
    /\ UNCHANGED ocupadas

FinHilo ==
    LET h == loc[CP].hilo IN
    /\ \/ EnPaso(CP, "cancela") /\ Va(CP, "libera_hilo")
       \/ EnPaso(CP, "fin_hilo") /\ Va(CP, IF h \in mem THEN "libera_hilo" ELSE "fin")
    /\ mem' = mem \ {h}
    /\ loc' = [loc EXCEPT ![CP].proceso = NULO, ![CP].sigue = "fin"]
    /\ UNCHANGED <<colas, ocupadas>>

ParticionesTrasNada(suyos) == ocupadas      \* Mutant
\* Only the first context of a process, its thread 0, holds its partition.
ParticionesTras(suyos) ==
    IF \E h \in suyos : h[2] = 0 THEN ocupadas - 1 ELSE ocupadas

\* FIN_PROCESO: unknown to memoria unless some context of it is left.
FinProceso(a) ==
    LET p == loc[a].proceso
        suyos == {h \in mem : h[1] = p}
    IN
    /\ EnPaso(a, "fin_proceso")
    /\ mem' = mem \ suyos
    /\ ocupadas' = ParticionesTras(suyos)
    /\ loc' = [loc EXCEPT ![a].i = 1, ![a].j = 1]
    /\ Va(a, IF suyos = {} THEN loc[a].sigue ELSE "desencola")
    /\ UNCHANGED <<colas, bloqueo, procesos, liberados, largo_plazo>>

-----------------------------------------------------------------------------
(* liberar_pcb and liberar_hilo, one iteration of their loops at a time.   *)

\* First loop of liberar_pcb.
DesencolarTodos(a) ==
    LET l == loc[a] IN
    /\ EnPaso(a, "desencola")
    /\ IF l.j <= Len(threads[l.proceso])
       THEN /\ Desencolar(threads[l.proceso][l.j])
            /\ loc' = [loc EXCEPT ![a].j = @ + 1]
            /\ UNCHANGED pc
       ELSE Va(a, "libera") /\ UNCHANGED <<colas, loc>>
    /\ UNCHANGED <<bloqueo, procesos, liberados, largo_plazo, memoria>>

\* Second loop: i advances although the element at i has just been removed.
\* What follows it frees the PCB and, in process_exit_thread, wakes LP.
LiberarPcb(a) ==
    LET l == loc[a]
        p == l.proceso
    IN
    /\ EnPaso(a, "libera")
    /\ IF l.i <= Len(threads[p])
       THEN /\ loc' = [loc EXCEPT ![a].hilo = threads[p][l.i], ![a].i = @ + 1]
            /\ threads' = [threads EXCEPT ![p] = RemoveFirst(@, @[l.i])]
            /\ Va(a, "libera_hilo")
            /\ UNCHANGED <<procesos_en_sistema, largo_plazo>>
       ELSE /\ procesos_en_sistema' = RemoveFirst(procesos_en_sistema, p)
            /\ largo_plazo' = (largo_plazo \/ a # LP)
            /\ Va(a, l.sigue)
            /\ UNCHANGED <<threads, loc>>
    /\ UNCHANGED <<colas, bloqueo, mutex, liberados, memoria>>

LiberarHilo(a) ==
    LET l == loc[a]
        p == BuscarProceso(l.hilo[1])
    IN
    /\ EnPaso(a, "libera_hilo")
    /\ threads' = IF p = NULO THEN threads
                  ELSE [threads EXCEPT ![p] = RemoveFirst(@, l.hilo)]
    /\ loc' = [loc EXCEPT ![a].dueno = p, ![a].j = 1]
    /\ Va(a, "joins")
    /\ UNCHANGED <<colas, bloqueo, procesos_en_sistema, mutex, liberados,
                   largo_plazo, memoria>>

\* Mutant: the thread waited for is compared with the pid.
EsperaAlProceso(b, h) ==
    /\ b[1] = h[1] /\ tid_bloqueador[b] = h[1] /\ motivo_bloqueo[b] = "THREAD_JOIN"

\* Mutant: whoever waits for a thread of the process is woken up.
EsperaACualquiera(b, h) == b[1] = h[1] /\ motivo_bloqueo[b] = "THREAD_JOIN"

EsperaA(b, h) ==
    /\ b[1] = h[1] /\ tid_bloqueador[b] = h[2] /\ motivo_bloqueo[b] = "THREAD_JOIN"

\* Scan of cola_blocked: j advances although a woken thread leaves the list.
DespertarJoins(a) ==
    LET l == loc[a]
        b == cola_blocked[l.j]
    IN
    /\ EnPaso(a, "joins")
    /\ IF l.j <= Len(cola_blocked)
       THEN /\ loc' = [loc EXCEPT ![a].j = @ + 1]
            /\ UNCHANGED pc
            /\ IF EsperaA(b, l.hilo)
               THEN /\ tid_bloqueador' = [tid_bloqueador EXCEPT ![b] = Nadie]
                    /\ motivo_bloqueo' = [motivo_bloqueo EXCEPT ![b] = "NONE"]
                    /\ PasarAReady(b)
               ELSE UNCHANGED <<colas, bloqueo>>
       ELSE /\ loc' = [loc EXCEPT ![a].j = 1]
            /\ Va(a, "mutex")
            /\ UNCHANGED <<colas, bloqueo>>
    /\ UNCHANGED <<procesos, liberados, largo_plazo, memoria>>

\* Hand-over of the dead thread's mutexes; the heir stays in the wait list.
HeredarMutex(a) ==
    LET l == loc[a]
        p == l.dueno
        r == mutex[p][l.j]
    IN
    /\ EnPaso(a, "mutex")
    /\ IF p # NULO /\ l.j <= Len(mutex[p])
       THEN /\ loc' = [loc EXCEPT ![a].j = @ + 1]
            /\ \/ /\ r.owner # l.hilo[2]
                  /\ UNCHANGED <<colas, mutex>>
               \/ /\ r.owner = l.hilo[2] /\ r.hilos = <<>>
                  /\ mutex' = [mutex EXCEPT ![p][l.j].owner = Nadie]
                  /\ UNCHANGED colas
               \/ /\ r.owner = l.hilo[2] /\ r.hilos # <<>>
                  /\ mutex' = [mutex EXCEPT ![p][l.j].owner = r.hilos[1][2]]
                  /\ PasarAReady(r.hilos[1])
            /\ UNCHANGED <<liberados, pc>>
       ELSE /\ liberados' = liberados \cup {l.hilo}
            /\ Va(a, IF l.proceso = NULO THEN l.sigue ELSE "libera")
            /\ UNCHANGED <<colas, mutex, loc>>
    /\ UNCHANGED <<bloqueo, procesos_en_sistema, threads, largo_plazo, memoria>>

Liberacion(a) ==
    /\ \/ FinProceso(a) \/ DesencolarTodos(a) \/ LiberarPcb(a)
       \/ LiberarHilo(a) \/ DespertarJoins(a) \/ HeredarMutex(a)
    /\ UNCHANGED <<creados, nuevos, quantum, respuesta, ctx, fallo>>

-----------------------------------------------------------------------------
(* Long-term scheduler: ejecutar_planificador_largo_plazo.                 *)

ConsultarLargoPlazo ==
    /\ EnPaso(LP, "inicio")
    /\ largo_plazo                      \* otherwise it sleeps and looks again
    /\ Va(LP, "sem_new")
    /\ UNCHANGED <<colas, nuevos, largo_plazo, memoria, respuesta, loc>>

TomarNuevo ==
    LET p == cola_new[1] IN
    /\ EnPaso(LP, "sem_new")
    /\ sem_new > 0
    /\ sem_new' = sem_new - 1
    /\ loc' = [loc EXCEPT ![LP].proceso = p,
            ![LP].hilo = IF threads[p] = <<>> THEN NULO ELSE threads[p][1]]
    /\ Va(LP, "crear_proceso")
    /\ UNCHANGED <<colas, cola_new, largo_plazo, respuesta, memoria>>

\* CREAR_PROCESO: an unreadable file leaves its partition taken.
CrearProceso ==
    LET h == loc[LP].hilo
        entra == archivo[h] \notin Exceden /\ ocupadas < Cupo
    IN
    /\ EnPaso(LP, "crear_proceso")
    /\ respuesta' = CASE archivo[h] \in Exceden -> "MAX_SIZE_ERROR"
                      [] archivo[h] \notin Exceden /\ ~entra -> "SIZE_ERROR"
                      [] entra /\ archivo[h] \notin Existe -> "PATH_ERROR"
                      [] OTHER -> "SUCCESS"
    /\ ocupadas' = IF entra THEN ocupadas + 1 ELSE ocupadas
    /\ mem' = IF entra /\ archivo[h] \in Existe THEN mem \cup {h} ELSE mem
    /\ Va(LP, "responde")
    /\ UNCHANGED <<colas, nuevos, largo_plazo, loc>>

Admitir ==
    /\ respuesta = "SUCCESS"
    /\ cola_new' = RemoveFirst(cola_new, loc[LP].proceso)
    /\ EncolarEnReady(loc[LP].hilo)
    /\ Va(LP, "inicio")
    /\ UNCHANGED <<sem_new, largo_plazo, loc>>

\* Mutant: the process it could not admit is not counted again.
PostergarSinPost ==
    /\ respuesta = "SIZE_ERROR"
    /\ largo_plazo' = FALSE
    /\ Va(LP, "inicio")
    /\ UNCHANGED <<colas, nuevos, loc>>

Postergar ==
    /\ respuesta = "SIZE_ERROR"
    /\ largo_plazo' = FALSE
    /\ sem_new' = sem_new + 1
    /\ Va(LP, "inicio")
    /\ UNCHANGED <<colas, cola_new, loc>>

\* Mutant: the process is freed and left in cola_new.
RechazarSinSacar ==
    /\ respuesta \in {"MAX_SIZE_ERROR", "PATH_ERROR"}
    /\ loc' = [loc EXCEPT ![LP].i = 1, ![LP].j = 1, ![LP].sigue = "inicio"]
    /\ Va(LP, "desencola")
    /\ UNCHANGED <<colas, nuevos, largo_plazo>>

Rechazar ==
    /\ respuesta \in {"MAX_SIZE_ERROR", "PATH_ERROR"}
    /\ cola_new' = RemoveFirst(cola_new, loc[LP].proceso)
    /\ loc' = [loc EXCEPT ![LP].i = 1, ![LP].j = 1, ![LP].sigue = "inicio"]
    /\ Va(LP, "desencola")
    /\ UNCHANGED <<colas, sem_new, largo_plazo>>

AtenderRespuesta ==
    /\ EnPaso(LP, "responde")
    /\ Admitir \/ Postergar \/ Rechazar
    /\ UNCHANGED <<respuesta, memoria>>

-----------------------------------------------------------------------------
(* Detached handlers: io_handler and dump_memory_handler of thread h.      *)

TomarMutexIO(h) ==
    /\ EnPaso(h, "io_espera")
    /\ \A g \in Hilos : pc[g] # "io_duerme"
    /\ Va(h, "io_duerme")
    /\ UNCHANGED <<colas, loc>>

SoltarMutexIO(h) ==
    /\ EnPaso(h, "io_duerme")
    /\ Va(h, "io_sale")
    /\ UNCHANGED <<colas, loc>>

FinIO(h) ==
    /\ EnPaso(h, "io_sale")
    /\ PasarAReady(h)
    /\ Va(h, "no")
    /\ UNCHANGED loc

FinDump(h) ==
    /\ EnPaso(h, "dump")
    /\ h \in mem
    /\ \/ PasarAReady(h) /\ Va(h, "no") /\ UNCHANGED loc
       \/ DumpPuedeFallar /\ SalirProceso(h, h, "no")

-----------------------------------------------------------------------------
(* main: one iniciar_proceso per argument, then both schedulers start.     *)

N0 == Len(ArchivosIniciales)

Init ==
    /\ procesos_en_sistema = [k \in 1..N0 |-> k - 1]
    /\ cola_new = [k \in 1..N0 |-> k - 1] /\ sem_new = N0 /\ pid_counter = N0
    /\ threads = [p \in Pids |-> IF p < N0 THEN <<<<p, 0>>>> ELSE <<>>]
    /\ tid_contador = [p \in Pids |-> IF p < N0 THEN 1 ELSE 0]
    /\ mutex = [p \in Pids |-> <<>>]
    /\ archivo = [h \in Hilos |-> ArchivosIniciales[IF h[1] < N0 THEN h[1] + 1 ELSE 1]]
    /\ prioridad = [h \in Hilos |-> 0]
    /\ estado = [h \in Hilos |-> "READY"]
    /\ tid_bloqueador = [h \in Hilos |-> Nadie]
    /\ motivo_bloqueo = [h \in Hilos |-> "NONE"]
    /\ liberados = {} /\ cola_ready = <<>> /\ cola_blocked = <<>>
    /\ hilo_en_exec = NULO /\ sem_ready = 0 /\ largo_plazo = TRUE
    /\ rr = "no"
    /\ flag_desalojar = FALSE /\ fin_de_clock = FALSE
    /\ mem = {} /\ ocupadas = 0 /\ respuesta = "SUCCESS"
    /\ ctx = [h \in Hilos |-> 1]
    /\ pc = [a \in Actores |-> CASE a = CP -> "sem_ready" [] a = LP -> "inicio"
                                [] OTHER -> "no"]
    /\ loc = [a \in Actores |-> [hilo |-> NULO, proceso |-> NULO, dueno |-> NULO,
                                 i |-> 1, j |-> 1, sigue |-> "fin"]]
    /\ fallo = "ninguno"

PasoCP ==
    \/ /\ \/ EsperaReady \/ HayReady \/ Planificar \/ PonerEnExec \/ EjecutarHilo
          \/ FinEjecucion \/ EsperarQuantum \/ Interrupcion
       /\ UNCHANGED <<bloqueo, creados, procesos, liberados, nuevos, largo_plazo,
                      memoria, respuesta, ctx, fallo>>
    \/ Syscall
    \/ /\ CrearHilo \/ FinHilo
       /\ UNCHANGED <<bloqueo, creados, procesos, liberados, nuevos, largo_plazo,
                      quantum, respuesta, ctx, fallo>>
    \/ Liberacion(CP)
    \/ Falla(CP)

PasoLP ==
    \/ /\ \/ ConsultarLargoPlazo \/ TomarNuevo \/ CrearProceso \/ AtenderRespuesta
       /\ UNCHANGED <<bloqueo, creados, procesos, liberados, quantum, ctx, fallo>>
    \/ Liberacion(LP)
    \/ Falla(LP)

PasoHandler(h) ==
    \/ /\ \/ TomarMutexIO(h) \/ SoltarMutexIO(h) \/ FinIO(h) \/ FinDump(h)
       /\ UNCHANGED <<bloqueo, creados, procesos, liberados, nuevos, largo_plazo,
                      quantum, memoria, respuesta, ctx, fallo>>
    \/ Liberacion(h)
    \/ Falla(h)

PasoQuantum ==
    /\ fallo = "ninguno"
    /\ RRVence \/ RRDesaloja \/ FinDeClockIgnorado
    /\ UNCHANGED <<colas, bloqueo, creados, procesos, liberados, nuevos, largo_plazo,
                   memoria, respuesta, ctx, pc, loc, fallo>>

Next ==
    \/ PasoCP \/ PasoLP \/ PasoQuantum
    \/ \E h \in Hilos : PasoHandler(h)

Spec == Init /\ [][Next]_vars

\* The operating system runs every thread; the CPU and memoria answer.
Fairness ==
    /\ WF_vars(PasoCP) /\ WF_vars(PasoLP) /\ WF_vars(PasoQuantum)
    /\ \A h \in Hilos : WF_vars(PasoHandler(h))

FairSpec == Spec /\ Fairness
=============================================================================
