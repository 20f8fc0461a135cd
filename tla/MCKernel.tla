------------------------------ MODULE MCKernel ------------------------------
(***************************************************************************)
(* Instances of Kernel: the scripts of pruebas/scripts cut down to their   *)
(* system calls and to fewer threads, and small programs of our own.       *)
(***************************************************************************)
EXTENDS KernelProps

CONSTANTS PROC, HILO, OTRO, M   \* file names and a mutex name

Crear(a, p)   == {[op |-> "THREAD_CREATE", archivo |-> a, prioridad |-> p]}
Proceso(a, p) == {[op |-> "PROCESS_CREATE", archivo |-> a, prioridad |-> p]}
Join(t)       == {[op |-> "THREAD_JOIN", tid |-> t]}
Cancel(t)     == {[op |-> "THREAD_CANCEL", tid |-> t]}
Mutex(o)      == {[op |-> o, recurso |-> M]}
Solo(o)       == {[op |-> o]}

Archivos3 == {PROC, HILO, OTRO}
Recursos1 == {M}
UnProceso == <<PROC>>
DosProcesos == <<PROC, PROC>>
Nada == {}

\* RECURSOS_MUTEX_PROC and RECURSOS_MUTEX_THREAD (three threads, and two rounds of
\* the loop of each, in which it locks again what it has unlocked)
MutexProc ==
    (PROC :> <<Mutex("MUTEX_CREATE"), Crear(HILO, 6), Crear(HILO, 6), Crear(HILO, 6),
               Join(1), Join(2), Join(3), Solo("PROCESS_EXIT")>>)
    @@ (HILO :> <<Mutex("MUTEX_LOCK"), Mutex("MUTEX_UNLOCK"), Mutex("MUTEX_LOCK"),
                  Mutex("MUTEX_UNLOCK"), Solo("THREAD_EXIT")>>)
    @@ (OTRO :> <<>>)

\* MEM_FIJA_BASE and PLANI_PROC: a process that starts others, which do IO or dump
\* their memory, and threads of which it joins the last; OTRO is too large for a
\* process, and is the file of the threads
Plani ==
    (PROC :> <<Proceso(HILO, 0), Proceso(OTRO, 0), Proceso(HILO, 0), Crear(OTRO, 5),
               Crear(OTRO, 6), Join(2), Solo("PROCESS_EXIT")>>)
    @@ (HILO :> <<Solo("IO") \cup Solo("DUMP_MEMORY"), Solo("PROCESS_EXIT")>>)
    @@ (OTRO :> <<Solo("THREAD_EXIT")>>)
SoloOtro == {OTRO}

\* Any system call, one to three in a row, then an exit
Cualquiera ==
    Crear(HILO, 1) \cup Crear(OTRO, 1) \cup Proceso(OTRO, 0) \cup Proceso(HILO, 0)
        \cup Join(1) \cup Cancel(1) \cup Mutex("MUTEX_CREATE") \cup Mutex("MUTEX_LOCK") \cup Mutex("MUTEX_UNLOCK")
        \cup Solo("IO") \cup Solo("DUMP_MEMORY")
Salidas == Solo("THREAD_EXIT") \cup Solo("PROCESS_EXIT")
Caos ==
    (PROC :> <<Cualquiera, Cualquiera, Cualquiera \cup Salidas, Salidas>>)
    @@ (HILO :> <<Mutex("MUTEX_LOCK") \cup Solo("IO") \cup Solo("DUMP_MEMORY")
                  \cup Salidas, Salidas>>) @@ (OTRO :> <<Salidas>>)
SinOtro == {PROC, HILO}

\* A thread of MutexProc past its MUTEX_LOCK and before its MUTEX_UNLOCK
EnSeccion(h) ==
    /\ archivo[h] = HILO /\ ctx[h] \in {2, 4}
    /\ \A k \in DOMAIN mutex[h[1]] : h \notin ToSet(mutex[h[1]][k].hilos)

(* MUTEX_LOCK and MUTEX_UNLOCK (syscalls.c:151-212) keep two threads from  *)
(* being between them at the same time, and the one that is there owns it. *)
ExclusionMutua ==
    \A g, h \in Hilos :
        EnSeccion(h) => /\ mutex[h[1]][1].owner = h[2]
                        /\ EnSeccion(g) => g = h
=============================================================================
