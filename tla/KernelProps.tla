---------------------------- MODULE KernelProps ----------------------------
(***************************************************************************)
(* What the kernel's queues, semaphores, mutexes and joins must satisfy.   *)
(***************************************************************************)
EXTENDS Kernel

Etiquetas == {"sem_ready", "hay_ready", "planifica", "saca", "cambio", "cpu", "crear_hilo",
    "fin_hilo", "cancela", "fin_proceso", "desencola", "libera", "libera_hilo",
    "joins", "mutex", "fin", "join_rr", "inicio", "sem_new", "crear_proceso",
    "responde", "no", "io_espera", "io_duerme", "io_sale", "dump"}

Mutexes == [nombre : Recursos, owner : Tids \cup {Nadie}, hilos : Seq(Hilos)]

Locales == [hilo : Hilos \cup {NULO}, proceso : Pids \cup {NULO},
            dueno : Pids \cup {NULO}, i : Nat \ {0}, j : Nat \ {0},
            sigue : {"fin", "cambio", "inicio", "no"}]

TipoColas ==
    /\ cola_ready \in Seq(Hilos) /\ cola_blocked \in Seq(Hilos)
    /\ hilo_en_exec \in Hilos \cup {NULO} /\ sem_ready \in Nat
    /\ estado \in [Hilos -> {"READY", "EXEC", "BLOCKED"}]

TipoBloqueo ==
    /\ tid_bloqueador \in [Hilos -> Tids \cup {Nadie}]
    /\ motivo_bloqueo \in [Hilos -> {"NONE", "THREAD_JOIN", "MUTEX", "IO"}]

TipoCreados ==
    /\ pid_counter \in 0..MaxPid /\ tid_contador \in [Pids -> 0..MaxTid]
    /\ prioridad \in [Hilos -> Nat] /\ archivo \in [Hilos -> Archivos]

TipoProcesos ==
    /\ procesos_en_sistema \in Seq(Pids)
    /\ threads \in [Pids -> Seq(Hilos)] /\ mutex \in [Pids -> Seq(Mutexes)]

TipoNuevos == cola_new \in Seq(Pids) /\ sem_new \in Nat

TipoQuantum ==
    /\ rr \in {"no", "duerme", "desaloja"}
    /\ flag_desalojar \in BOOLEAN /\ fin_de_clock \in BOOLEAN

TipoMemoria == mem \subseteq Hilos /\ ocupadas \in Int

TipoActores == pc \in [Actores -> Etiquetas] /\ loc \in [Actores -> Locales]

TipoResto ==
    /\ liberados \subseteq Hilos /\ largo_plazo \in BOOLEAN
    /\ respuesta \in {"SUCCESS", "SIZE_ERROR", "MAX_SIZE_ERROR", "PATH_ERROR"}
    /\ ctx \in [Hilos -> Nat] /\ fallo \in Fallos

(* Every queue, table and counter of the kernel holds values of its C type *)
(* that are within the bounds of the model.                                *)
TypeOK ==
    /\ TipoColas /\ TipoBloqueo /\ TipoCreados /\ TipoProcesos /\ TipoNuevos
    /\ TipoQuantum /\ TipoMemoria /\ TipoActores /\ TipoResto

(* No thread is ever READY while both the semaphore is at zero and the     *)
(* short-term scheduler is asleep on it; spurious posts are allowed        *)
(* (planificador_corto_plazo.c:28 skips them).                             *)
SemReadyCubre ==
    Len(cola_ready) <=
        sem_ready + (IF pc[CP] \in {"hay_ready", "planifica"} THEN 1 ELSE 0)

(* hay_pcbs_en_new counts exactly the processes of cola_new the long-term  *)
(* scheduler has not taken, so list_get(cola_new, 0) never returns NULL.   *)
SemNewCuenta ==
    Len(cola_new) =
        sem_new + (IF pc[LP] \in {"crear_proceso", "responde"} THEN 1 ELSE 0)

\* The process LP is admitting is the head of cola_new until it is removed.
LPTieneCabeza ==
    pc[LP] \in {"crear_proceso", "responde"} => loc[LP].proceso = cola_new[1]

(* The inductive strengthening of SemReadyCubre and SemNewCuenta.          *)
IInv == TypeOK /\ SemReadyCubre /\ SemNewCuenta /\ LPTieneCabeza

(* A TCB is in one queue at most, once at most, and its estado says which: *)
(* desencolar_estado_actual relies on it to find the TCB.                  *)
UnSoloLugar ==
    /\ \A k, m \in DOMAIN cola_ready : k # m => cola_ready[k] # cola_ready[m]
    /\ \A k, m \in DOMAIN cola_blocked : k # m => cola_blocked[k] # cola_blocked[m]
    /\ \A h \in ToSet(cola_ready) : estado[h] = "READY"
    /\ \A h \in ToSet(cola_blocked) : estado[h] = "BLOCKED"
    /\ hilo_en_exec # NULO => estado[hilo_en_exec] = "EXEC"

(* The running thread belongs to a process that exists, so buscar_proceso   *)
(* (utils.c:143) does not fall back on another one.  liberar_pcb, which     *)
(* skips threads (utils.c:59-66), breaks it when a skipped one runs again.  *)
ProcesoVive ==
    pc[CP] = "cpu" /\ hilo_en_exec # NULO =>
        hilo_en_exec[1] \in ToSet(procesos_en_sistema)

(* No thread dies while others wait for a mutex it owns: the heir is woken  *)
(* up but stays in the wait list (utils.c:114), and the next owner wakes it *)
(* again wherever it is by then.                                           *)
SinHerederos ==
    \A a \in Actores :
        pc[a] = "mutex" => Herederos(loc[a].dueno, loc[a].j, loc[a].hilo) = {}

(* The two things UnSoloLugar needs of a program.                          *)
EnOrden == ProcesoVive /\ SinHerederos

(* No thread locks a mutex it owns: it would wait for itself.              *)
SinReentrada ==
    pc[CP] = "cpu" /\ hilo_en_exec # NULO =>
        LET h == hilo_en_exec
            p == BuscarProceso(h[1])
            script == Programa[archivo[loc[CP].hilo]]
        IN  \A s \in UNION EnLista(script, ctx[loc[CP].hilo]) :
                s.op = "MUTEX_LOCK" =>
                    LET k == BuscarRecurso(p, s.recurso)
                    IN  k # 0 => mutex[p][k].owner # h[2]

EnSalida(a) == pc[a] \in {"fin_proceso", "desencola", "libera", "libera_hilo",
                          "joins", "mutex"}

\* In the hands of an actor that is about to queue it or to free it.
EnTransito(h) ==
    \E a \in Actores :
        \/ loc[a].hilo = h
           /\ (EnSalida(a) \/ pc[a] \in {"saca", "crear_hilo", "fin_hilo", "cancela"})
        \/ EnSalida(a) /\ loc[a].proceso = h[1]

(* Every thread of an admitted process is queued, running, or in the hands *)
(* of an actor: none is dropped (planificador_corto_plazo.c:44).           *)
NingunHiloPerdido ==
    fallo = "ninguno" =>
        \A p \in ToSet(procesos_en_sistema) \ ToSet(cola_new) :
            \A h \in ToSet(threads[p]) :
                \/ h \in ToSet(cola_ready) \cup ToSet(cola_blocked)
                \/ hilo_en_exec = h
                \/ EnTransito(h)

(* The code never dereferences NULL or a freed TCB, and never asks the CPU *)
(* or memoria for a thread they do not know.                               *)
SinFallo == fallo = "ninguno"

(* A mutex with waiters has an owner; its owner is an existing thread that *)
(* does not wait for it; its waiters are blocked.                          *)
MutexCoherente ==
    \A p \in ToSet(procesos_en_sistema) :
        (\A a \in Actores : ~(EnSalida(a) /\ p \in {loc[a].proceso, loc[a].dueno})) =>
            \A k \in DOMAIN mutex[p] : LET r == mutex[p][k] IN
                /\ r.hilos # <<>> => r.owner # Nadie
                /\ r.owner # Nadie => /\ <<p, r.owner>> \in ToSet(threads[p])
                                      /\ <<p, r.owner>> \notin ToSet(r.hilos)
                /\ \A h \in ToSet(r.hilos) : h \in ToSet(cola_blocked)

(* A thread blocked in THREAD_JOIN waits for a thread that still exists or *)
(* whose liberar_hilo has yet to reach it (utils.c:94-105).                *)
JoinEsperaVivo ==
    \A n \in DOMAIN cola_blocked :
        LET h == cola_blocked[n]
            b == <<h[1], tid_bloqueador[h]>>
        IN  motivo_bloqueo[h] = "THREAD_JOIN" =>
                \/ b \in ToSet(threads[h[1]])
                \/ \E a \in Actores :
                      /\ loc[a].hilo = b
                      /\ pc[a] = "libera_hilo" \/ (pc[a] = "joins" /\ loc[a].j <= n)

(* Whatever is queued READY can be run: memoria still holds its context.   *)
ReadyTieneContexto == \A h \in ToSet(cola_ready) : h \in mem

\* A thread of a process that has ended, or whose contexts memoria has dropped
\* (FIN_PROCESO) while liberar_pcb still empties the queues.
Rezagado(h) ==
    \/ h[1] \notin ToSet(procesos_en_sistema)
    \/ \E a \in Actores :
          EnSalida(a) /\ pc[a] # "fin_proceso" /\ loc[a].proceso = h[1]

\* The thread that liberar_pcb dequeues (utils.c:59) and whose estado is EXEC
\* is the one in hilo_en_exec, so no other one is taken from there.
ExecEsSuyo ==
    \A a \in Actores : pc[a] = "desencola" =>
        \A h \in EnLista(threads[loc[a].proceso], loc[a].j) :
            estado[h] = "EXEC" => hilo_en_exec \in {h, NULO}

(* A process ends alone: it leaves no thread of its own in cola_ready once *)
(* memoria has forgotten it, and liberar_pcb takes nobody else's thread    *)
(* from hilo_en_exec (utils.c:55-66 and 237).                              *)
FinLimpio ==
    /\ \A h \in ToSet(cola_ready) : ~Rezagado(h)
    /\ fallo = "ninguno" => ExecEsSuyo

(* Each occupied partition belongs to a process memoria knows.             *)
ParticionesConDueno == ocupadas = Cardinality({h \in mem : h[2] = 0})

(* Every process ends and is removed from the system, but for those whose  *)
(* admission memoria postponed (planificador_largo_plazo.c:74) after the   *)
(* last end that would have it tried again.                                *)
Termina ==
    <>(procesos_en_sistema = <<>>
       \/ (~largo_plazo /\ ToSet(procesos_en_sistema) = ToSet(cola_new)))

(* A READY thread is eventually dispatched.                                *)
SinInanicion ==
    \A h \in Hilos : (h \in ToSet(cola_ready)) ~> (h \notin ToSet(cola_ready))
=============================================================================
