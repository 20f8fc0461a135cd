---------------------------- MODULE KernelProofs ----------------------------
(***************************************************************************)
(* IInv is an invariant of Kernel for every value of the constants: the    *)
(* types of all the state, and what ties hay_pcbs_en_ready and             *)
(* hay_pcbs_en_new to the lists they count.                                *)
(*                                                                         *)
(* First, lemmas about the operators Kernel is built from: the searches,   *)
(* the moves between queues, the changes of one field and the pointers a   *)
(* step dereferences.  Then the invariant.  Only five steps enter or leave *)
(* a label the counting invariants mention; each has its own lemma.  Every *)
(* other step satisfies ColasPaso, NuevosPaso and PasoDe, and              *)
(* CuentasSeMantienen does the rest.                                       *)
(***************************************************************************)
EXTENDS KernelProps, ListasLemas

LEMMA Pares ==
    /\ \A h \in Hilos : h[1] \in Pids /\ h[2] \in Tids /\ h = <<h[1], h[2]>>
    /\ \A p \in Pids, t \in Tids : <<p, t>> \in Hilos
    /\ Pids \subseteq Nat /\ Tids \subseteq Nat
  BY ConstantesKernel DEF Hilos, Pids, Tids

LEMMA ActoresDistintos ==
    /\ CP \in Actores /\ LP \in Actores /\ CP # LP /\ Hilos \subseteq Actores
    /\ \A h \in Hilos : h # CP /\ h # LP
    /\ NULO \notin Hilos /\ NULO \notin Pids
  BY ConstantesKernel DEF Actores

-----------------------------------------------------------------------------
(* Searches.                                                               *)

(* list_get(l, size - 1): an element, or NULL when the list is empty.      *)
LEMMA UltimoTipo ==
    ASSUME NEW S, NEW s \in Seq(S), NULO \notin S
    PROVE  Ultimo(s) \in S \cup {NULO} /\ (Ultimo(s) = NULO <=> s = <<>>)
  BY ElementosDeLista DEF Ultimo

LEMMA BuscarProcesoTipo ==
    ASSUME TipoProcesos, NEW p
    PROVE  /\ BuscarProceso(p) \in Pids \cup {NULO}
           /\ Ultimo(procesos_en_sistema) # NULO => BuscarProceso(p) \in Pids
<1>1. ToSet(procesos_en_sistema) \subseteq Pids
  BY ElementosDeLista DEF TipoProcesos
<1>2. Ultimo(procesos_en_sistema) \in Pids \cup {NULO}
  BY UltimoTipo, ActoresDistintos DEF TipoProcesos
<1> QED
  BY <1>1, <1>2 DEF BuscarProceso

LEMMA BuscarHiloTipo ==
    ASSUME TipoProcesos, NEW p \in Pids, NEW t
    PROVE  BuscarHilo(p, t) \in Hilos \cup {NULO}
<1>1. threads[p] \in Seq(Hilos)
  BY DEF TipoProcesos
<1>2. ToSet(threads[p]) \subseteq Hilos
  BY <1>1, ElementosDeLista
<1>3. Ultimo(threads[p]) \in Hilos \cup {NULO}
  BY <1>1, UltimoTipo, ActoresDistintos
<1> QED
  BY <1>2, <1>3 DEF BuscarHilo

LEMMA BuscarRecursoTipo ==
    ASSUME TipoProcesos, NEW p \in Pids, NEW n, BuscarRecurso(p, n) # 0
    PROVE  /\ BuscarRecurso(p, n) \in DOMAIN mutex[p]
           /\ BuscarRecurso(p, n) \in 1..Len(mutex[p])
<1> DEFINE ks == {k \in DOMAIN mutex[p] : mutex[p][k].nombre = n}
<1>1. mutex[p] \in Seq(Mutexes)
  BY DEF TipoProcesos
<1>2. DOMAIN mutex[p] = 1..Len(mutex[p]) /\ Len(mutex[p]) \in Nat
  BY <1>1, LenProperties
<1>3. CASE ks = {}
  <2>1. BuscarRecurso(p, n) = Len(mutex[p])
    BY <1>3, Zenon DEF BuscarRecurso
  <2> QED
    BY <2>1, <1>2
<1>4. CASE ks # {}
  <2>1. ks \in SUBSET Nat
    BY <1>2
  <2>2. \E k \in ks : \A m \in ks : k <= m
    BY <2>1, <1>4, MinimoExiste
  <2>3. BuscarRecurso(p, n) = CHOOSE k \in ks : \A m \in ks : k <= m
    BY <1>4, Zenon DEF BuscarRecurso
  <2>4. BuscarRecurso(p, n) \in ks
    BY <2>2, <2>3
  <2> QED
    BY <2>4, <1>2
<1> QED
  BY <1>3, <1>4

-----------------------------------------------------------------------------
(* Moves between queues.  ColasPaso is what they have in common: the types *)
(* are kept and cola_ready grows by no more than the semaphore does.       *)

ColasPaso ==
    TipoColas' /\ Len(cola_ready') <= Len(cola_ready) + (sem_ready' - sem_ready)

LEMMA SinTipo ==
    ASSUME TipoColas, NEW h
    PROVE  /\ ReadySin(h) \in Seq(Hilos) /\ Len(ReadySin(h)) <= Len(cola_ready)
           /\ BlockedSin(h) \in Seq(Hilos)
           /\ ExecSin(h) \in Hilos \cup {NULO}
           /\ Len(cola_ready) \in Nat /\ Len(ReadySin(h)) \in Nat
<1>1. cola_ready \in Seq(Hilos) /\ cola_blocked \in Seq(Hilos)
  BY DEF TipoColas
<1>2. /\ RemoveFirst(cola_ready, h) \in Seq(Hilos)
      /\ Len(RemoveFirst(cola_ready, h)) <= Len(cola_ready)
      /\ RemoveFirst(cola_blocked, h) \in Seq(Hilos)
  BY <1>1, QuitarElemento, Zenon
<1>3. Len(cola_ready) \in Nat /\ Len(cola_ready) <= Len(cola_ready)
  BY <1>1, LenProperties
<1>4. ReadySin(h) \in Seq(Hilos) /\ Len(ReadySin(h)) <= Len(cola_ready)
  BY <1>1, <1>2, <1>3, Zenon DEF ReadySin
<1>5. BlockedSin(h) \in Seq(Hilos)
  BY <1>1, <1>2, Zenon DEF BlockedSin
<1>6. ExecSin(h) \in Hilos \cup {NULO}
  BY Zenon DEF ExecSin, TipoColas
<1>7. Len(ReadySin(h)) \in Nat
  BY <1>4, LenProperties
<1> QED
  BY <1>3, <1>4, <1>5, <1>6, <1>7, Zenon

LEMMA ColasIguales ==
    ASSUME TipoColas, UNCHANGED colas
    PROVE  ColasPaso
<1>1. Len(cola_ready) \in Nat /\ sem_ready \in Nat
  BY LenProperties DEF TipoColas
<1> QED
  BY <1>1 DEF ColasPaso, TipoColas, colas

LEMMA DesencolarPaso ==
    ASSUME TipoColas, NEW h, Desencolar(h)
    PROVE  ColasPaso
<1>1. sem_ready \in Nat
  BY DEF TipoColas
<1>2. TipoColas'
  BY SinTipo, Zenon DEF TipoColas, Desencolar
<1>3. cola_ready' = ReadySin(h) /\ sem_ready' = sem_ready
  BY DEF Desencolar
<1> QED
  BY <1>1, <1>2, <1>3, SinTipo DEF ColasPaso

LEMMA PasarAReadyPaso ==
    ASSUME TipoColas, NEW h \in Hilos, PasarAReady(h)
    PROVE  ColasPaso
<1>1. sem_ready \in Nat /\ sem_ready' = sem_ready + 1
  BY DEF TipoColas, PasarAReady
<1>2. /\ cola_ready' \in Seq(Hilos)
      /\ Len(cola_ready') = Len(ReadySin(h)) + 1
  BY SinTipo, AppendProperties, Zenon DEF PasarAReady
<1>3. cola_blocked' \in Seq(Hilos) /\ hilo_en_exec' \in Hilos \cup {NULO}
  BY SinTipo, Zenon DEF PasarAReady
<1>4. estado' \in [Hilos -> {"READY", "EXEC", "BLOCKED"}]
  BY DEF TipoColas, PasarAReady
<1> QED
  BY <1>1, <1>2, <1>3, <1>4, SinTipo DEF ColasPaso, TipoColas

LEMMA PasarABlockedPaso ==
    ASSUME TipoColas, NEW h \in Hilos, NEW m, PasarABlocked(h, m)
    PROVE  ColasPaso
<1>1. sem_ready \in Nat /\ sem_ready' = sem_ready
  BY DEF TipoColas, PasarABlocked
<1>2. cola_ready' = ReadySin(h)
  BY DEF PasarABlocked
<1>3. cola_blocked' \in Seq(Hilos) /\ hilo_en_exec' \in Hilos \cup {NULO}
  BY SinTipo, AppendProperties, Zenon DEF PasarABlocked
<1>4. estado' \in [Hilos -> {"READY", "EXEC", "BLOCKED"}]
  BY DEF TipoColas, PasarABlocked
<1> QED
  BY <1>1, <1>2, <1>3, <1>4, SinTipo DEF ColasPaso, TipoColas

LEMMA EncolarEnReadyPaso ==
    ASSUME TipoColas, NEW h \in Hilos, EncolarEnReady(h)
    PROVE  ColasPaso
<1>1. sem_ready \in Nat /\ sem_ready' = sem_ready + 1 /\ Len(cola_ready) \in Nat
  BY LenProperties DEF TipoColas, EncolarEnReady
<1>2. cola_ready' \in Seq(Hilos) /\ Len(cola_ready') = Len(cola_ready) + 1
  BY AppendProperties, Zenon DEF EncolarEnReady, TipoColas
<1>3. cola_blocked' \in Seq(Hilos) /\ hilo_en_exec' \in Hilos \cup {NULO}
  BY DEF EncolarEnReady, TipoColas
<1>4. estado' \in [Hilos -> {"READY", "EXEC", "BLOCKED"}]
  BY DEF TipoColas, EncolarEnReady
<1> QED
  BY <1>1, <1>2, <1>3, <1>4 DEF ColasPaso, TipoColas

(* The reason an actor blocks a thread for is one of the enum.             *)
LEMMA MotivoTipo ==
    ASSUME TipoBloqueo, NEW h \in Hilos, NEW m \in {"THREAD_JOIN", "MUTEX", "IO"},
           PasarABlocked(h, m)
    PROVE  motivo_bloqueo' \in [Hilos -> {"NONE", "THREAD_JOIN", "MUTEX", "IO"}]
  BY DEF TipoBloqueo, PasarABlocked

-----------------------------------------------------------------------------
(* Changes of one mutex, one thread list, one TCB.                         *)

LEMMA CambiarMutex ==
    ASSUME TipoProcesos, NEW p \in Pids, NEW k \in DOMAIN mutex[p],
           NEW r \in Mutexes
    PROVE  [mutex EXCEPT ![p] = [@ EXCEPT ![k] = r]] \in [Pids -> Seq(Mutexes)]
<1>1. mutex[p] \in Seq(Mutexes) /\ mutex \in [Pids -> Seq(Mutexes)]
  BY DEF TipoProcesos
<1>2. k \in 1..Len(mutex[p])
  BY <1>1, LenProperties
<1>3. [mutex[p] EXCEPT ![k] = r] \in Seq(Mutexes)
  BY <1>1, <1>2, ExceptSeq
<1> QED
  BY <1>1, <1>3

LEMMA MutexTipo ==
    ASSUME TipoProcesos, NEW p \in Pids, NEW k \in DOMAIN mutex[p]
    PROVE  /\ mutex[p][k] \in Mutexes
           /\ mutex[p][k].hilos \in Seq(Hilos)
           /\ mutex[p][k].owner \in Tids \cup {Nadie}
           /\ mutex[p][k].hilos # <<>> => mutex[p][k].hilos[1] \in Hilos
<1>1. mutex[p] \in Seq(Mutexes)
  BY DEF TipoProcesos
<1>2. mutex[p][k] \in Mutexes
  BY <1>1, ElementosDeLista
<1>3. mutex[p][k].hilos \in Seq(Hilos) /\ mutex[p][k].owner \in Tids \cup {Nadie}
  BY <1>2 DEF Mutexes
<1> QED
  BY <1>2, <1>3, ElementosDeLista

LEMMA TcbNuevoTipo ==
    ASSUME TipoProcesos, TipoCreados, NEW p \in Pids, NEW a \in Archivos,
           NEW pri \in Nat, TcbNuevo(p, a, pri)
    PROVE  /\ <<p, tid_contador[p]>> \in Hilos
           /\ threads' \in [Pids -> Seq(Hilos)]
           /\ tid_contador' \in [Pids -> 0..MaxTid]
           /\ prioridad' \in [Hilos -> Nat] /\ archivo' \in [Hilos -> Archivos]
<1>1. MaxTid \in Nat /\ tid_contador[p] \in 0..MaxTid /\ tid_contador[p] < MaxTid
  BY ConstantesKernel DEF TcbNuevo, TipoCreados
<1>2. <<p, tid_contador[p]>> \in Hilos
  BY <1>1 DEF Hilos, Tids
<1>3. threads[p] \in Seq(Hilos)
  BY DEF TipoProcesos
<1>4. Append(threads[p], <<p, tid_contador[p]>>) \in Seq(Hilos)
  BY <1>2, <1>3, AppendProperties
<1>5. threads' \in [Pids -> Seq(Hilos)]
  BY <1>4, Zenon DEF TcbNuevo, TipoProcesos
<1>6. tid_contador' \in [Pids -> 0..MaxTid]
  BY <1>1 DEF TcbNuevo, TipoCreados
<1>7. prioridad' \in [Hilos -> Nat] /\ archivo' \in [Hilos -> Archivos]
  BY <1>2 DEF TcbNuevo, TipoCreados
<1> QED
  BY <1>2, <1>5, <1>6, <1>7

-----------------------------------------------------------------------------
(* Control: the label of an actor and its locals.                          *)

LEMMA VaTipo ==
    ASSUME TipoActores, NEW a \in Actores, NEW e \in Etiquetas, Va(a, e)
    PROVE  pc' \in [Actores -> Etiquetas] /\ pc'[a] = e
           /\ \A b \in Actores : b # a => pc'[b] = pc[b]
  BY DEF TipoActores, Va

LEMMA LocTipo ==
    ASSUME TipoActores, NEW a \in Actores
    PROVE  /\ loc[a] \in Locales
           /\ loc[a].hilo \in Hilos \cup {NULO}
           /\ loc[a].proceso \in Pids \cup {NULO}
           /\ loc[a].dueno \in Pids \cup {NULO}
           /\ loc[a].i \in Nat \ {0} /\ loc[a].j \in Nat \ {0}
           /\ loc[a].sigue \in {"fin", "cambio", "inicio", "no"}
  BY DEF TipoActores, Locales

LEMMA LocalesCambia ==
    \A l \in Locales : \A h \in Hilos \cup {NULO}, p \in Pids \cup {NULO} :
        \A i \in Nat \ {0}, j \in Nat \ {0} :
            /\ [l EXCEPT !.i = i, !.j = j] \in Locales
            /\ [l EXCEPT !.dueno = p, !.j = j] \in Locales
            /\ [l EXCEPT !.hilo = h, !.i = i] \in Locales
            /\ [l EXCEPT !.i = i, !.j = j, !.sigue = "inicio"] \in Locales
<1> SUFFICES ASSUME NEW l \in Locales, NEW h \in Hilos \cup {NULO},
                    NEW p \in Pids \cup {NULO}, NEW i \in Nat \ {0}, NEW j \in Nat \ {0}
             PROVE  /\ [l EXCEPT !.i = i, !.j = j] \in Locales
                    /\ [l EXCEPT !.dueno = p, !.j = j] \in Locales
                    /\ [l EXCEPT !.hilo = h, !.i = i] \in Locales
                    /\ [l EXCEPT !.i = i, !.j = j, !.sigue = "inicio"] \in Locales
  OBVIOUS
<1>1. [l EXCEPT !.i = i, !.j = j] \in Locales
  BY DEF Locales
<1>2. [l EXCEPT !.dueno = p, !.j = j] \in Locales
  BY DEF Locales
<1>3. [l EXCEPT !.hilo = h, !.i = i] \in Locales
  BY DEF Locales
<1>4. [l EXCEPT !.i = i, !.j = j, !.sigue = "inicio"] \in Locales
  BY DEF Locales
<1> QED
  BY <1>1, <1>2, <1>3, <1>4

(* What EnPaso guarantees of the pointers the step is about to use.        *)
LEMMA PunteroTCB ==
    ASSUME TypeOK, NEW a \in Actores,
           NEW e \in {"saca", "crear_hilo", "fin_hilo", "cancela", "libera_hilo",
                      "crear_proceso", "responde", "io_sale", "dump",
                      "joins", "mutex"},
           EnPaso(a, e)
    PROVE  loc[a].hilo \in Hilos
<1>1. loc[a].hilo \in Hilos \cup {NULO}
  BY LocTipo DEF TypeOK
<1>2. pc[a] = e /\ NULO \notin Toca(a)
  BY DEF EnPaso
<1>3. loc[a].hilo \in Toca(a)
  BY <1>2 DEF Toca
<1> QED
  BY <1>1, <1>2, <1>3

LEMMA PunteroExec ==
    ASSUME TypeOK, NEW e \in {"cambio", "cpu"}, EnPaso(CP, e)
    PROVE  /\ hilo_en_exec \in Hilos
           /\ e = "cpu" => \A p : BuscarProceso(p) \in Pids
<1>1. pc[CP] = e /\ NULO \notin Toca(CP)
  BY DEF EnPaso
<1>2. hilo_en_exec \in Toca(CP)
  BY <1>1 DEF Toca
<1>3. hilo_en_exec \in Hilos
  BY <1>1, <1>2 DEF TypeOK, TipoColas
<1>4. ASSUME e = "cpu" PROVE Ultimo(procesos_en_sistema) # NULO
  BY <1>1, <1>4 DEF Toca, Nulo
<1> QED
  BY <1>3, <1>4, BuscarProcesoTipo DEF TypeOK

LEMMA PunteroPCB ==
    ASSUME TypeOK, NEW a \in Actores,
           NEW e \in {"fin_proceso", "desencola", "libera"}, EnPaso(a, e)
    PROVE  loc[a].proceso \in Pids
<1>1. pc[a] = e /\ NULO \notin Toca(a)
  BY DEF EnPaso
<1>2. Nulo(loc[a].proceso) \subseteq Toca(a)
  BY <1>1 DEF Toca
<1>3. loc[a].proceso # NULO
  BY <1>1, <1>2 DEF Nulo
<1> QED
  BY <1>3, LocTipo DEF TypeOK

-----------------------------------------------------------------------------
(* The invariant.                                                          *)

Especiales == {"hay_ready", "planifica", "crear_proceso", "responde"}

\* Actor a moves, the schedulers other than a stay, far from those labels.
PasoDe(a) ==
    /\ TipoActores'
    /\ pc[a] \notin Especiales /\ pc'[a] \notin Especiales
    /\ \A b \in {CP, LP} \ {a} : pc'[b] = pc[b] /\ loc'[b] = loc[b]

NuevosPaso ==
    /\ TipoNuevos'
    /\ \E d \in {0, 1} : /\ Len(cola_new') = Len(cola_new) + d
                         /\ sem_new' = sem_new + d
    /\ cola_new # <<>> => cola_new'[1] = cola_new[1]

Cuentas == SemReadyCubre /\ SemNewCuenta /\ LPTieneCabeza

LEMMA NuevosIguales ==
    ASSUME IInv, UNCHANGED nuevos
    PROVE  NuevosPaso
<1>1. Len(cola_new) \in Nat /\ sem_new \in Nat
  BY LenProperties DEF IInv, TypeOK, TipoNuevos
<1> QED
  BY <1>1 DEF NuevosPaso, nuevos, IInv, TypeOK, TipoNuevos

LEMMA CuentasSeMantienen ==
    ASSUME IInv, ColasPaso, NuevosPaso, NEW a \in Actores, PasoDe(a)
    PROVE  Cuentas'
<1>1. /\ pc'[CP] \in {"hay_ready", "planifica"} <=> pc[CP] \in {"hay_ready", "planifica"}
      /\ pc'[LP] \in {"crear_proceso", "responde"}
            <=> pc[LP] \in {"crear_proceso", "responde"}
      /\ pc'[LP] \in {"crear_proceso", "responde"} => loc'[LP] = loc[LP]
  BY ActoresDistintos DEF PasoDe, Especiales
<1>2. /\ Len(cola_ready) \in Nat /\ Len(cola_ready') \in Nat
      /\ Len(cola_new) \in Nat /\ Len(cola_new') \in Nat
      /\ sem_ready \in Nat /\ sem_ready' \in Nat /\ sem_new \in Nat /\ sem_new' \in Nat
      /\ cola_new = <<>> => Len(cola_new) = 0
  BY LenProperties, EmptySeq
  DEF IInv, TypeOK, TipoColas, TipoNuevos, ColasPaso, NuevosPaso
<1>3. SemReadyCubre'
  BY <1>1, <1>2 DEF IInv, SemReadyCubre, ColasPaso
<1>4. SemNewCuenta'
  <2> DEFINE n == IF pc[LP] \in {"crear_proceso", "responde"} THEN 1 ELSE 0
             m == IF pc'[LP] \in {"crear_proceso", "responde"} THEN 1 ELSE 0
  <2>1. n = m /\ n \in Int /\ m \in Int
    BY <1>1
  <2>2. Len(cola_new) = sem_new + n
    BY Zenon DEF IInv, SemNewCuenta
  <2>3. PICK d \in {0, 1} : Len(cola_new') = Len(cola_new) + d /\ sem_new' = sem_new + d
    BY DEF NuevosPaso
  <2> HIDE DEF n, m
  <2>4. Len(cola_new') = sem_new' + n
    BY <2>1, <2>2, <2>3, <1>2
  <2> QED
    BY <2>1, <2>4, Zenon DEF SemNewCuenta, m
<1>5. LPTieneCabeza'
  <2> SUFFICES ASSUME pc'[LP] \in {"crear_proceso", "responde"}
               PROVE  loc'[LP].proceso = cola_new'[1]
    BY DEF LPTieneCabeza
  <2>1. pc[LP] \in {"crear_proceso", "responde"} /\ loc'[LP] = loc[LP]
    BY <1>1
  <2>2. cola_new # <<>>
    BY <2>1, <1>2 DEF IInv, SemNewCuenta
  <2> QED
    BY <2>1, <2>2 DEF IInv, LPTieneCabeza, NuevosPaso
<1> QED
  BY <1>3, <1>4, <1>5 DEF Cuentas

(* A step of a that sets its label to e and touches no local.              *)
LEMMA PasoVa ==
    ASSUME IInv, NEW a \in Actores, NEW e \in Etiquetas \ Especiales,
           pc[a] \notin Especiales, Va(a, e), UNCHANGED loc
    PROVE  PasoDe(a)
  BY VaTipo DEF PasoDe, IInv, TypeOK, TipoActores, ActoresDistintos, Actores

(* A step of a that sets its label to e and its locals to l.               *)
LEMMA PasoVaLoc ==
    ASSUME IInv, NEW a \in Actores, NEW e \in Etiquetas \ Especiales,
           pc[a] \notin Especiales, Va(a, e),
           NEW l \in Locales, loc' = [loc EXCEPT ![a] = l]
    PROVE  PasoDe(a)
  BY VaTipo DEF PasoDe, IInv, TypeOK, TipoActores, Actores

(* A step of a that only changes its locals.                               *)
LEMMA PasoLoc ==
    ASSUME IInv, NEW a \in Actores, pc[a] \notin Especiales, UNCHANGED pc,
           NEW l \in Locales, loc' = [loc EXCEPT ![a] = l]
    PROVE  PasoDe(a)
  BY DEF PasoDe, IInv, TypeOK, TipoActores, Actores

-----------------------------------------------------------------------------
(* Short-term scheduler.                                                   *)

PasoCorto ==
    /\ ColasPaso /\ TipoQuantum' /\ PasoDe(CP)

LEMMA EsperaReadyInv ==
    ASSUME IInv, EsperaReady, UNCHANGED nuevos
    PROVE  TipoColas' /\ TipoQuantum' /\ TipoActores' /\ Cuentas'
<1>1. pc' \in [Actores -> Etiquetas] /\ pc'[CP] = "hay_ready" /\ pc'[LP] = pc[LP]
  BY VaTipo, ActoresDistintos DEF IInv, TypeOK, EsperaReady, Etiquetas
<1>2. pc[CP] = "sem_ready" /\ sem_ready \in Nat /\ sem_ready > 0
      /\ Len(cola_ready) \in Nat /\ sem_ready' = sem_ready - 1
  BY LenProperties DEF IInv, TypeOK, TipoColas, EsperaReady, EnPaso
<1>3. TipoColas' /\ TipoQuantum' /\ TipoActores'
  BY <1>1, <1>2
  DEF IInv, TypeOK, EsperaReady, TipoColas, TipoQuantum, quantum, TipoActores
<1>4. SemReadyCubre'
  BY <1>1, <1>2 DEF IInv, SemReadyCubre, EsperaReady
<1>5. SemNewCuenta' /\ LPTieneCabeza'
  BY <1>1 DEF IInv, SemNewCuenta, LPTieneCabeza, nuevos, EsperaReady
<1> QED
  BY <1>3, <1>4, <1>5 DEF Cuentas

LEMMA HayReadyInv ==
    ASSUME IInv, HayReady, UNCHANGED nuevos
    PROVE  TipoColas' /\ TipoQuantum' /\ TipoActores' /\ Cuentas'
<1> DEFINE e == IF cola_ready = <<>> THEN "sem_ready" ELSE "planifica"
<1>1. e \in Etiquetas /\ Va(CP, e) /\ pc[CP] = "hay_ready" /\ UNCHANGED <<colas, quantum, loc>>
  BY DEF HayReady, EnPaso, Etiquetas
<1>2. cola_ready = <<>> => Len(cola_ready) = 0
  BY EmptySeq
<1>3. e \in {"sem_ready", "planifica"} /\ (cola_ready # <<>> => e = "planifica")
  OBVIOUS
<1> HIDE DEF e
<1>4. pc' \in [Actores -> Etiquetas] /\ pc'[CP] = e /\ pc'[LP] = pc[LP]
  BY <1>1, VaTipo, ActoresDistintos DEF IInv, TypeOK
<1>5. TipoColas' /\ TipoQuantum' /\ TipoActores'
  BY <1>1, <1>4
  DEF IInv, TypeOK, TipoColas, TipoQuantum, colas, quantum, TipoActores
<1>6. SemReadyCubre'
  BY <1>1, <1>2, <1>3, <1>4
  DEF IInv, TypeOK, TipoColas, SemReadyCubre, colas
<1>7. SemNewCuenta' /\ LPTieneCabeza'
  BY <1>1, <1>4 DEF IInv, SemNewCuenta, LPTieneCabeza, nuevos
<1> QED
  BY <1>5, <1>6, <1>7 DEF Cuentas

LEMMA MayorPrioridadTipo ==
    ASSUME IInv, cola_ready # <<>>
    PROVE  MayorPrioridad \in 1..Len(cola_ready)
<1> DEFINE Antes(k, m) ==
        \/ prioridad[cola_ready[k]] < prioridad[cola_ready[m]]
        \/ prioridad[cola_ready[k]] = prioridad[cola_ready[m]] /\ k <= m
    D == 1..Len(cola_ready)
    I == {prioridad[cola_ready[k]] : k \in D}
<1>1. /\ cola_ready \in Seq(Hilos) /\ DOMAIN cola_ready = D
      /\ Len(cola_ready) \in Nat \ {0}
      /\ \A k \in D : prioridad[cola_ready[k]] \in Nat
  <2>1. cola_ready \in Seq(Hilos) /\ prioridad \in [Hilos -> Nat]
    BY DEF IInv, TypeOK, TipoColas, TipoCreados
  <2> QED
    BY <2>1, LenProperties, EmptySeq, ElementOfSeq
<1>2. I \in SUBSET Nat /\ I # {}
  BY <1>1
<1>3. Min(I) \in I /\ \A y \in I : Min(I) <= y
  BY <1>2, MinimoExiste
<1> DEFINE K == {k \in D : prioridad[cola_ready[k]] = Min(I)}
<1>4. K \in SUBSET Nat /\ K # {}
  <2>1. PICK k \in D : prioridad[cola_ready[k]] = Min(I)
    BY <1>3, Zenon
  <2>2. k \in K
    BY <2>1, Zenon
  <2>3. D \subseteq Nat
    OBVIOUS
  <2> QED
    BY <2>2, <2>3, Zenon
<1>5. Min(K) \in K /\ \A y \in K : Min(K) <= y
  BY <1>4, MinimoExiste
<1> HIDE DEF I, K
<1>6. \A m \in D : prioridad[cola_ready[m]] \in I /\ (m \in K <=> prioridad[cola_ready[m]] = Min(I))
  BY DEF I, K
<1>7. Min(K) \in D /\ Min(K) \in Nat /\ prioridad[cola_ready[Min(K)]] = Min(I)
  BY <1>5 DEF K
<1>8. \A m \in D : Antes(Min(K), m)
  BY <1>1, <1>3, <1>5, <1>6, <1>7
<1>9. \E k \in D : \A m \in D : Antes(k, m)
  BY <1>7, <1>8
<1> QED
  BY <1>1, <1>9, Zenon DEF MayorPrioridad

LEMMA HayQuien ==
    ASSUME Planificar
    PROVE  cola_ready # <<>>
<1>1. NULO \notin Toca(CP) /\ pc[CP] = "planifica"
  BY DEF Planificar, EnPaso
<1> QED
  BY <1>1 DEF Toca

LEMMA PlanificarInv ==
    ASSUME IInv, Planificar, UNCHANGED nuevos
    PROVE  TipoColas' /\ TipoQuantum' /\ TipoActores' /\ Cuentas'
<1> DEFINE k == IF Algoritmo = "FIFO" THEN 1 ELSE MayorPrioridad
<1>1. /\ pc[CP] = "planifica" /\ sem_ready \in Nat /\ sem_ready' = sem_ready
      /\ cola_ready \in Seq(Hilos) /\ Len(cola_ready) \in Nat
      /\ Len(cola_ready) <= sem_ready + 1
  BY LenProperties
  DEF IInv, TypeOK, TipoColas, Planificar, EnPaso, SemReadyCubre
<1>2. cola_ready # <<>>
  BY HayQuien
<1>3. pc' \in [Actores -> Etiquetas] /\ pc'[LP] = pc[LP] /\ pc'[CP] = "saca"
  BY VaTipo, ActoresDistintos DEF IInv, TypeOK, Planificar, Etiquetas
<1>4. Len(cola_ready) \in Nat \ {0}
  BY <1>2, <1>1, EmptySeq
<1>5. k \in 1..Len(cola_ready)
  BY <1>2, <1>4, MayorPrioridadTipo
<1>6. /\ cola_ready' = RemoveAt(cola_ready, k)
      /\ loc' = [loc EXCEPT ![CP].hilo = cola_ready[k]]
  BY DEF Planificar
<1> HIDE DEF k
<1>7. cola_ready' \in Seq(Hilos) /\ Len(cola_ready') = Len(cola_ready) - 1
  BY <1>1, <1>5, <1>6, QuitarPosicion
<1>8. cola_ready[k] \in Hilos
  BY <1>1, <1>5, ElementOfSeq
<1>9. TipoActores' /\ loc'[LP] = loc[LP]
  BY <1>3, <1>6, <1>8, ActoresDistintos
  DEF IInv, TypeOK, TipoActores, Locales
<1>10. TipoColas' /\ TipoQuantum' /\ SemReadyCubre'
  BY <1>1, <1>3, <1>7
  DEF IInv, TypeOK, TipoColas, TipoQuantum, quantum, Planificar, SemReadyCubre
<1>11. SemNewCuenta' /\ LPTieneCabeza'
  BY <1>3, <1>9 DEF IInv, nuevos, SemNewCuenta, LPTieneCabeza
<1> QED
  BY <1>9, <1>10, <1>11 DEF Cuentas

LEMMA PonerEnExecInv ==
    ASSUME IInv, PonerEnExec
    PROVE  PasoCorto
<1>1. loc[CP].hilo \in Hilos /\ pc[CP] = "saca"
  BY PunteroTCB, ActoresDistintos DEF IInv, PonerEnExec, EnPaso
<1>2. ColasPaso
  <2>1. Len(cola_ready) \in Nat /\ sem_ready \in Nat
    BY LenProperties DEF IInv, TypeOK, TipoColas
  <2> QED
    BY <1>1, <2>1 DEF IInv, TypeOK, TipoColas, PonerEnExec, ColasPaso
<1>3. TipoQuantum'
  BY DEF IInv, TypeOK, TipoQuantum, PonerEnExec
<1>4. PasoDe(CP)
  BY <1>1, PasoVa, ActoresDistintos DEF PonerEnExec, Etiquetas, Especiales
<1> QED
  BY <1>2, <1>3, <1>4 DEF PasoCorto

LEMMA EjecutarHiloInv ==
    ASSUME IInv, EjecutarHilo
    PROVE  PasoCorto
<1>1. hilo_en_exec \in Hilos /\ pc[CP] = "cambio"
  BY PunteroExec DEF IInv, EjecutarHilo, EnPaso
<1>2. TipoQuantum'
  BY DEF IInv, TypeOK, TipoQuantum, EjecutarHilo
<1>3. CASE flag_desalojar
  <2>1. PasarAReady(hilo_en_exec) /\ Va(CP, "fin") /\ UNCHANGED loc
    BY <1>3 DEF EjecutarHilo
  <2>2. PasoDe(CP)
    BY <1>1, <2>1, PasoVa, ActoresDistintos DEF Etiquetas, Especiales
  <2> QED
    BY <1>1, <1>2, <2>1, <2>2, PasarAReadyPaso DEF PasoCorto, IInv, TypeOK
<1>4. CASE ~flag_desalojar
  <2> DEFINE l == [loc[CP] EXCEPT !.hilo = hilo_en_exec]
  <2>1. UNCHANGED colas /\ Va(CP, "cpu") /\ loc' = [loc EXCEPT ![CP] = l]
    BY <1>4 DEF EjecutarHilo
  <2>2. l \in Locales
    BY <1>1, LocTipo, ActoresDistintos DEF IInv, TypeOK, Locales
  <2> HIDE DEF l
  <2>3. PasoDe(CP)
    BY <1>1, <2>1, <2>2, PasoVaLoc, ActoresDistintos DEF Etiquetas, Especiales
  <2> QED
    BY <1>2, <2>1, <2>3, ColasIguales DEF PasoCorto, IInv, TypeOK
<1> QED
  BY <1>3, <1>4

LEMMA FinEjecucionInv ==
    ASSUME IInv, FinEjecucion
    PROVE  PasoCorto
<1>1. pc[CP] = "fin"
  BY DEF FinEjecucion, EnPaso
<1>2. ColasPaso
  <2>1. Len(cola_ready) \in Nat /\ sem_ready \in Nat
    BY LenProperties DEF IInv, TypeOK, TipoColas
  <2> QED
    BY <2>1 DEF IInv, TypeOK, TipoColas, FinEjecucion, ColasPaso
<1>3. TipoQuantum'
  BY DEF IInv, TypeOK, TipoQuantum, FinEjecucion
<1>4. PasoDe(CP)
  BY <1>1, PasoVa, ActoresDistintos DEF FinEjecucion, Etiquetas, Especiales
<1> QED
  BY <1>2, <1>3, <1>4 DEF PasoCorto

LEMMA EsperarQuantumInv ==
    ASSUME IInv, EsperarQuantum
    PROVE  PasoCorto
<1>1. pc[CP] = "join_rr"
  BY DEF EsperarQuantum, EnPaso
<1>2. ColasPaso
  BY ColasIguales DEF EsperarQuantum, IInv, TypeOK
<1>3. TipoQuantum'
  BY DEF IInv, TypeOK, TipoQuantum, EsperarQuantum, quantum
<1>4. PasoDe(CP)
  BY <1>1, PasoVa, ActoresDistintos DEF EsperarQuantum, Etiquetas, Especiales
<1> QED
  BY <1>2, <1>3, <1>4 DEF PasoCorto

LEMMA InterrupcionInv ==
    ASSUME IInv, Interrupcion
    PROVE  PasoCorto
<1>1. hilo_en_exec \in Hilos /\ pc[CP] = "cpu"
  BY PunteroExec DEF IInv, Interrupcion, CPUContesta, EnPaso
<1>2. ColasPaso
  BY <1>1, PasarAReadyPaso DEF Interrupcion, IInv, TypeOK
<1>3. TipoQuantum'
  BY DEF IInv, TypeOK, TipoQuantum, Interrupcion
<1>4. PasoDe(CP)
  BY <1>1, PasoVa, ActoresDistintos DEF Interrupcion, Etiquetas, Especiales
<1> QED
  BY <1>2, <1>3, <1>4 DEF PasoCorto

-----------------------------------------------------------------------------
(* System calls.                                                           *)

SyscallPaso ==
    /\ ColasPaso /\ NuevosPaso /\ PasoDe(CP)
    /\ TipoBloqueo' /\ TipoCreados' /\ TipoProcesos' /\ fallo' \in Fallos

\* What the handler of a system call finds.
EnSyscall ==
    /\ hilo_en_exec \in Hilos /\ pc[CP] = "cpu" /\ fallo \in Fallos
    /\ \A p : BuscarProceso(p) \in Pids

LEMMA AlAtender ==
    ASSUME IInv, CPUContesta
    PROVE  EnSyscall
<1>1. EnPaso(CP, "cpu")
  BY DEF CPUContesta
<1>2. hilo_en_exec \in Hilos /\ \A p : BuscarProceso(p) \in Pids
  BY <1>1, PunteroExec DEF IInv
<1> QED
  BY <1>1, <1>2 DEF EnSyscall, EnPaso, IInv, TypeOK, TipoResto

LEMMA CamposDeSyscall ==
    ASSUME NEW s \in Syscalls
    PROVE  /\ s.op \in {"PROCESS_CREATE", "THREAD_CREATE"} =>
                  s.archivo \in Archivos /\ s.prioridad \in Nat
           /\ s.op \in {"THREAD_JOIN", "THREAD_CANCEL"} => s.tid \in Tids
  BY DEF Syscalls

LEMMA SinCambios ==
    ASSUME IInv
    PROVE  /\ UNCHANGED bloqueo => TipoBloqueo'
           /\ UNCHANGED creados => TipoCreados'
           /\ UNCHANGED procesos => TipoProcesos'
           /\ UNCHANGED fallo => fallo' \in Fallos
  BY DEF IInv, TypeOK, TipoBloqueo, TipoCreados, TipoProcesos, TipoResto,
         bloqueo, creados, procesos

LEMMA DumpMemoryInv ==
    ASSUME IInv, EnSyscall, NEW s \in Syscalls, DumpMemory(s)
    PROVE  SyscallPaso
<1> DEFINE h == hilo_en_exec
<1>1. h \in Hilos /\ h \in Actores /\ h # CP /\ h # LP /\ pc[CP] = "cpu"
  BY ActoresDistintos DEF EnSyscall
<1>2. PasarABlocked(h, "MUTEX") /\ UNCHANGED <<tid_bloqueador, creados, procesos, nuevos, fallo>>
  BY DEF DumpMemory
<1>3. ColasPaso /\ NuevosPaso
  BY <1>1, <1>2, PasarABlockedPaso, NuevosIguales DEF IInv, TypeOK
<1>4. TipoBloqueo' /\ TipoCreados' /\ TipoProcesos' /\ fallo' \in Fallos
  BY <1>1, <1>2, MotivoTipo, SinCambios DEF IInv, TypeOK, TipoBloqueo
<1>5. PasoDe(CP)
  BY <1>1, ActoresDistintos
  DEF DumpMemory, PasoDe, IInv, TypeOK, TipoActores, Etiquetas, Especiales, Locales
<1> QED
  BY <1>3, <1>4, <1>5 DEF SyscallPaso

LEMMA PeticionIOInv ==
    ASSUME IInv, EnSyscall, NEW s \in Syscalls, PeticionIO(s)
    PROVE  SyscallPaso
<1> DEFINE h == hilo_en_exec
<1>1. h \in Hilos /\ h \in Actores /\ h # CP /\ h # LP /\ pc[CP] = "cpu"
  BY ActoresDistintos DEF EnSyscall
<1>2. PasarABlocked(h, "IO") /\ UNCHANGED <<tid_bloqueador, creados, procesos, nuevos, fallo>>
  BY DEF PeticionIO
<1>3. ColasPaso /\ NuevosPaso
  BY <1>1, <1>2, PasarABlockedPaso, NuevosIguales DEF IInv, TypeOK
<1>4. TipoBloqueo' /\ TipoCreados' /\ TipoProcesos' /\ fallo' \in Fallos
  BY <1>1, <1>2, MotivoTipo, SinCambios DEF IInv, TypeOK, TipoBloqueo
<1>5. PasoDe(CP)
  BY <1>1, ActoresDistintos
  DEF PeticionIO, PasoDe, IInv, TypeOK, TipoActores, Etiquetas, Especiales, Locales
<1> QED
  BY <1>3, <1>4, <1>5 DEF SyscallPaso

LEMMA IniciarProcesoInv ==
    ASSUME IInv, EnSyscall, NEW s \in Syscalls, IniciarProceso(s)
    PROVE  SyscallPaso
<1> DEFINE p == pid_counter
<1>1. p \in Pids /\ p + 1 \in 0..MaxPid
  BY ConstantesKernel DEF IniciarProceso, IInv, TypeOK, TipoCreados, Pids
<1>2. s.archivo \in Archivos /\ s.prioridad \in Nat
  BY CamposDeSyscall DEF IniciarProceso
<1>3. TipoCreados' /\ threads' \in [Pids -> Seq(Hilos)]
  <2>1. TcbNuevo(p, s.archivo, s.prioridad) /\ pid_counter' = p + 1
    BY DEF IniciarProceso
  <2> QED
    BY <1>1, <1>2, <2>1, TcbNuevoTipo DEF IInv, TypeOK, TipoCreados
<1>4. TipoProcesos'
  <2>1. procesos_en_sistema' \in Seq(Pids)
    BY <1>1, AppendProperties, Zenon DEF IniciarProceso, IInv, TypeOK, TipoProcesos
  <2> QED
    BY <1>3, <2>1 DEF IniciarProceso, IInv, TypeOK, TipoProcesos
<1>5. NuevosPaso
  <2>1. cola_new \in Seq(Pids) /\ Len(cola_new) \in Nat /\ sem_new \in Nat
    BY LenProperties DEF IInv, TypeOK, TipoNuevos
  <2>2. /\ cola_new' \in Seq(Pids) /\ Len(cola_new') = Len(cola_new) + 1
        /\ \A k \in 1..Len(cola_new) : cola_new'[k] = cola_new[k]
    BY <1>1, <2>1, AppendProperties DEF IniciarProceso
  <2>3. cola_new # <<>> => cola_new'[1] = cola_new[1]
    BY <2>1, <2>2, EmptySeq
  <2> QED
    BY <2>1, <2>2, <2>3 DEF NuevosPaso, TipoNuevos, IniciarProceso
<1>6. ColasPaso /\ TipoBloqueo' /\ fallo' \in Fallos
  BY ColasIguales, SinCambios DEF IniciarProceso, IInv, TypeOK
<1>7. PasoDe(CP)
  BY PasoVa, ActoresDistintos DEF IniciarProceso, EnSyscall, Etiquetas, Especiales
<1> QED
  BY <1>3, <1>4, <1>5, <1>6, <1>7 DEF SyscallPaso

LEMMA ThreadCreateInv ==
    ASSUME IInv, EnSyscall, NEW s \in Syscalls, ThreadCreate(s)
    PROVE  SyscallPaso
<1> DEFINE p == BuscarProceso(hilo_en_exec[1])
           l == [loc[CP] EXCEPT !.hilo = <<p, tid_contador[p]>>]
<1>1. p \in Pids /\ pc[CP] = "cpu"
  BY DEF EnSyscall
<1>2. s.archivo \in Archivos /\ s.prioridad \in Nat
  BY CamposDeSyscall DEF ThreadCreate
<1>3. /\ TcbNuevo(p, s.archivo, s.prioridad)
      /\ UNCHANGED <<colas, bloqueo, pid_counter, procesos_en_sistema, mutex, nuevos, fallo>>
      /\ Va(CP, "crear_hilo") /\ loc' = [loc EXCEPT ![CP] = l]
  BY DEF ThreadCreate
<1> HIDE DEF p
<1>4. TipoCreados' /\ TipoProcesos' /\ <<p, tid_contador[p]>> \in Hilos
  BY <1>1, <1>2, <1>3, TcbNuevoTipo DEF IInv, TypeOK, TipoCreados, TipoProcesos
<1>5. l \in Locales
  BY <1>4, LocTipo, ActoresDistintos DEF IInv, TypeOK, Locales
<1> HIDE DEF l
<1>6. PasoDe(CP)
  BY <1>1, <1>3, <1>5, PasoVaLoc, ActoresDistintos DEF Etiquetas, Especiales
<1>7. ColasPaso /\ NuevosPaso /\ TipoBloqueo' /\ fallo' \in Fallos
  BY <1>3, ColasIguales, NuevosIguales, SinCambios DEF IInv, TypeOK
<1> QED
  BY <1>4, <1>6, <1>7 DEF SyscallPaso
LEMMA ThreadJoinInv ==
    ASSUME IInv, EnSyscall, NEW s \in Syscalls, ThreadJoin(s)
    PROVE  SyscallPaso
<1> DEFINE h == hilo_en_exec
           b == BuscarHilo(BuscarProceso(h[1]), s.tid)
<1>1. h \in Hilos /\ pc[CP] = "cpu" /\ s.tid \in Tids
  BY CamposDeSyscall DEF EnSyscall, ThreadJoin
<1>2. UNCHANGED <<creados, procesos, nuevos, loc, fallo>>
  BY DEF ThreadJoin
<1>3. NuevosPaso /\ TipoCreados' /\ TipoProcesos' /\ fallo' \in Fallos
  BY <1>2, NuevosIguales, SinCambios
<1>4. CASE b # NULO /\ b[2] = s.tid
  <2>1. /\ PasarABlocked(h, "THREAD_JOIN") /\ Va(CP, "fin")
        /\ tid_bloqueador' = [tid_bloqueador EXCEPT ![h] = s.tid]
    BY <1>4, Zenon DEF ThreadJoin
  <2>2. ColasPaso /\ TipoBloqueo'
    BY <1>1, <2>1, PasarABlockedPaso, MotivoTipo DEF IInv, TypeOK, TipoBloqueo
  <2>3. PasoDe(CP)
    BY <1>1, <1>2, <2>1, PasoVa, ActoresDistintos DEF Etiquetas, Especiales
  <2> QED
    BY <1>3, <2>2, <2>3 DEF SyscallPaso
<1>5. CASE ~(b # NULO /\ b[2] = s.tid)
  <2>1. UNCHANGED <<colas, bloqueo>> /\ Va(CP, "cambio")
    BY <1>5, Zenon DEF ThreadJoin
  <2>2. ColasPaso /\ TipoBloqueo'
    BY <2>1, ColasIguales, SinCambios DEF IInv, TypeOK
  <2>3. PasoDe(CP)
    BY <1>1, <1>2, <2>1, PasoVa, ActoresDistintos DEF Etiquetas, Especiales
  <2> QED
    BY <1>3, <2>2, <2>3 DEF SyscallPaso
<1> QED
  BY <1>4, <1>5

LEMMA ThreadCancelInv ==
    ASSUME IInv, EnSyscall, NEW s \in Syscalls, ThreadCancel(s)
    PROVE  SyscallPaso
<1> DEFINE c == BuscarHilo(BuscarProceso(hilo_en_exec[1]), s.tid)
           l == [loc[CP] EXCEPT !.hilo = c]
<1>1. c \in Hilos \cup {NULO} /\ pc[CP] = "cpu"
  BY BuscarHiloTipo DEF EnSyscall, IInv, TypeOK
<1>2. UNCHANGED <<bloqueo, creados, procesos, nuevos, fallo>>
  BY DEF ThreadCancel
<1>3. NuevosPaso /\ TipoBloqueo' /\ TipoCreados' /\ TipoProcesos' /\ fallo' \in Fallos
  BY <1>2, NuevosIguales, SinCambios
<1>4. CASE c # NULO
  <2>1. Desencolar(c) /\ loc' = [loc EXCEPT ![CP] = l] /\ Va(CP, "cancela")
    BY <1>4 DEF ThreadCancel
  <2>2. ColasPaso
    BY <2>1, DesencolarPaso DEF IInv, TypeOK
  <2> HIDE DEF c
  <2>3. l \in Locales
    BY <1>1, LocTipo, ActoresDistintos DEF IInv, TypeOK, Locales
  <2> HIDE DEF l
  <2>4. PasoDe(CP)
    BY <1>1, <2>1, <2>3, PasoVaLoc, ActoresDistintos DEF Etiquetas, Especiales
  <2> QED
    BY <1>3, <2>2, <2>4 DEF SyscallPaso
<1>5. CASE c = NULO
  <2>1. UNCHANGED <<colas, loc>> /\ Va(CP, "fin")
    BY <1>5 DEF ThreadCancel
  <2>2. ColasPaso
    BY <2>1, ColasIguales DEF IInv, TypeOK
  <2>3. PasoDe(CP)
    BY <1>1, <2>1, PasoVa, ActoresDistintos DEF Etiquetas, Especiales
  <2> QED
    BY <1>3, <2>2, <2>3 DEF SyscallPaso
<1> QED
  BY <1>4, <1>5

LEMMA MutexCreateInv ==
    ASSUME IInv, EnSyscall, NEW s \in Syscalls, MutexCreate(s)
    PROVE  SyscallPaso
<1> DEFINE p == BuscarProceso(hilo_en_exec[1])
           r == [nombre |-> s.recurso, owner |-> Nadie, hilos |-> <<>>]
<1>1. p \in Pids /\ pc[CP] = "cpu"
  BY DEF EnSyscall
<1>2. /\ UNCHANGED <<colas, bloqueo, creados, procesos_en_sistema, threads, nuevos,
                     loc, fallo>>
      /\ Va(CP, "cambio") /\ mutex' = [mutex EXCEPT ![p] = Append(@, r)]
  BY DEF MutexCreate
<1>3. s.recurso \in Recursos
  BY DEF Syscalls, MutexCreate
<1>4. r \in Mutexes
  BY <1>3, EmptySeq DEF Mutexes
<1> HIDE DEF p, r
<1>5. mutex \in [Pids -> Seq(Mutexes)] /\ mutex[p] \in Seq(Mutexes)
  BY <1>1 DEF IInv, TypeOK, TipoProcesos
<1>6. Append(mutex[p], r) \in Seq(Mutexes)
  BY <1>4, <1>5, AppendProperties
<1>7. mutex' \in [Pids -> Seq(Mutexes)]
  BY <1>2, <1>5, <1>6, Zenon
<1>8. TipoProcesos'
  BY <1>2, <1>7 DEF IInv, TypeOK, TipoProcesos
<1>9. PasoDe(CP)
  BY <1>1, <1>2, PasoVa, ActoresDistintos DEF Etiquetas, Especiales
<1> QED
  BY <1>2, <1>8, <1>9, ColasIguales, NuevosIguales, SinCambios
  DEF SyscallPaso, IInv, TypeOK

LEMMA MutexLockInv ==
    ASSUME IInv, EnSyscall, NEW s \in Syscalls, MutexLock(s)
    PROVE  SyscallPaso
<1> DEFINE h == hilo_en_exec
           p == BuscarProceso(h[1])
           k == BuscarRecurso(p, s.recurso)
<1>1. h \in Hilos /\ h[2] \in Tids /\ p \in Pids /\ pc[CP] = "cpu"
  BY Pares DEF EnSyscall
<1>2. UNCHANGED <<tid_bloqueador, creados, procesos_en_sistema, threads, nuevos,
                  loc, fallo>>
  BY DEF MutexLock, Libre
<1>3. TipoProcesos /\ TipoBloqueo /\ TipoColas
  BY DEF IInv, TypeOK
<1>4. k # 0 => k \in DOMAIN mutex[p]
  BY <1>1, <1>3, BuscarRecursoTipo
<1>5. k # 0 => /\ mutex[p][k] \in Mutexes
               /\ mutex[p][k].hilos \in Seq(Hilos)
  BY <1>1, <1>3, <1>4, MutexTipo
<1>6. /\ UNCHANGED mutex => TipoProcesos'
      /\ UNCHANGED motivo_bloqueo => TipoBloqueo'
  BY <1>2, <1>3 DEF TipoProcesos, TipoBloqueo
<1>7. ASSUME NEW r \in Mutexes, k # 0,
             mutex' = [mutex EXCEPT ![p] = [@ EXCEPT ![k] = r]]
      PROVE  TipoProcesos'
  <2>1. mutex' \in [Pids -> Seq(Mutexes)]
    BY <1>1, <1>3, <1>4, <1>7, CambiarMutex
  <2> QED
    BY <1>2, <1>3, <2>1 DEF TipoProcesos
<1>8. ASSUME Va(CP, "cambio") \/ Va(CP, "fin") PROVE PasoDe(CP)
  BY <1>1, <1>2, <1>8, PasoVa, ActoresDistintos DEF Etiquetas, Especiales
<1>9. CASE k = 0 /\ Va(CP, "cambio") /\ UNCHANGED <<colas, motivo_bloqueo, mutex>>
  BY <1>2, <1>3, <1>6, <1>8, <1>9, ColasIguales, NuevosIguales, SinCambios
  DEF SyscallPaso
<1>10. CASE /\ k # 0 /\ mutex[p][k].owner = Nadie
            /\ mutex' = [mutex EXCEPT ![p][k].owner = h[2]]
            /\ Va(CP, "cambio") /\ UNCHANGED <<colas, motivo_bloqueo>>
  <2> DEFINE r == [mutex[p][k] EXCEPT !.owner = h[2]]
  <2>1. r \in Mutexes
    BY <1>1, <1>5, <1>10 DEF Mutexes
  <2>2. mutex' = [mutex EXCEPT ![p] = [@ EXCEPT ![k] = r]]
    BY <1>10
  <2> HIDE DEF r
  <2>3. TipoProcesos'
    BY <1>7, <1>10, <2>1, <2>2
  <2> QED
    BY <1>2, <1>3, <1>6, <1>8, <1>10, <2>3, ColasIguales, NuevosIguales, SinCambios
    DEF SyscallPaso
<1>11. CASE /\ k # 0 /\ mutex[p][k].owner # Nadie /\ PasarABlocked(h, "MUTEX")
            /\ mutex' = [mutex EXCEPT ![p][k].hilos = Append(@, h)]
            /\ Va(CP, "fin")
  <2> DEFINE r == [mutex[p][k] EXCEPT !.hilos = Append(@, h)]
  <2>1. Append(mutex[p][k].hilos, h) \in Seq(Hilos)
    BY <1>1, <1>5, <1>11, AppendProperties
  <2>2. r \in Mutexes
    BY <2>1, <1>5, <1>11 DEF Mutexes
  <2>3. mutex' = [mutex EXCEPT ![p] = [@ EXCEPT ![k] = r]]
    BY <1>11
  <2> HIDE DEF r
  <2>4. TipoProcesos'
    BY <1>7, <1>11, <2>2, <2>3
  <2>5. ColasPaso /\ TipoBloqueo'
    BY <1>1, <1>2, <1>3, <1>11, PasarABlockedPaso, MotivoTipo DEF TipoBloqueo
  <2> QED
    BY <1>2, <1>8, <1>11, <2>4, <2>5, NuevosIguales, SinCambios DEF SyscallPaso
<1> QED
  BY <1>9, <1>10, <1>11, Zenon DEF MutexLock, Libre

LEMMA MutexUnlockInv ==
    ASSUME IInv, EnSyscall, NEW s \in Syscalls, MutexUnlock(s)
    PROVE  SyscallPaso
<1> DEFINE h == hilo_en_exec
           p == BuscarProceso(h[1])
           k == BuscarRecurso(p, s.recurso)
           n == mutex[p][k].hilos[1]
<1>1. h \in Hilos /\ p \in Pids /\ pc[CP] = "cpu" /\ fallo \in Fallos
  BY DEF EnSyscall
<1>2. /\ UNCHANGED <<bloqueo, creados, procesos_en_sistema, threads, nuevos, loc>>
      /\ Va(CP, "cambio")
  BY DEF MutexUnlock
<1>3. TipoProcesos /\ TipoColas
  BY DEF IInv, TypeOK
<1>4. NuevosPaso /\ TipoBloqueo' /\ TipoCreados' /\ PasoDe(CP)
  <2>1. PasoDe(CP)
    BY <1>1, <1>2, PasoVa, ActoresDistintos DEF Etiquetas, Especiales
  <2> QED
    BY <1>2, <2>1, NuevosIguales, SinCambios
<1>5. k # 0 => k \in DOMAIN mutex[p]
  BY <1>1, <1>3, BuscarRecursoTipo
<1>6. k # 0 => /\ mutex[p][k] \in Mutexes
               /\ mutex[p][k].hilos \in Seq(Hilos)
               /\ mutex[p][k].hilos # <<>> => n \in Hilos
  BY <1>1, <1>3, <1>5, MutexTipo
<1>7. UNCHANGED mutex => TipoProcesos'
  BY <1>2, <1>3 DEF TipoProcesos
<1>8. ASSUME NEW r \in Mutexes, k # 0,
             mutex' = [mutex EXCEPT ![p] = [@ EXCEPT ![k] = r]]
      PROVE  TipoProcesos'
  <2>1. mutex' \in [Pids -> Seq(Mutexes)]
    BY <1>1, <1>3, <1>5, <1>8, CambiarMutex
  <2> QED
    BY <1>2, <1>3, <2>1 DEF TipoProcesos
<1>9. CASE UNCHANGED <<colas, mutex, fallo>>
  BY <1>1, <1>3, <1>4, <1>7, <1>9, ColasIguales DEF SyscallPaso
<1>10. CASE /\ k # 0 /\ mutex' = [mutex EXCEPT ![p][k].owner = Nadie]
            /\ UNCHANGED <<colas, fallo>>
  <2> DEFINE r == [mutex[p][k] EXCEPT !.owner = Nadie]
  <2>1. r \in Mutexes
    BY <1>6, <1>10 DEF Mutexes
  <2>2. mutex' = [mutex EXCEPT ![p] = [@ EXCEPT ![k] = r]]
    BY <1>10
  <2> HIDE DEF r
  <2>3. TipoProcesos'
    BY <1>8, <1>10, <2>1, <2>2
  <2> QED
    BY <1>1, <1>3, <1>4, <1>10, <2>3, ColasIguales DEF SyscallPaso
<1>11. CASE fallo' = "uso_tras_liberar" /\ UNCHANGED <<colas, mutex>>
  BY <1>3, <1>4, <1>7, <1>11, ColasIguales DEF SyscallPaso, Fallos
<1>12. CASE /\ k # 0 /\ mutex[p][k].hilos # <<>> /\ PasarAReady(n) /\ UNCHANGED fallo
            /\ mutex' = [mutex EXCEPT ![p][k] = Entregado(@)]
  <2> DEFINE r == Entregado(mutex[p][k])
  <2>1. n \in Hilos /\ n[2] \in Tids /\ Tail(mutex[p][k].hilos) \in Seq(Hilos)
    BY <1>6, <1>12, Pares, HeadTailProperties
  <2>2. r \in Mutexes
    BY <1>6, <1>12, <2>1 DEF Mutexes, Entregado
  <2>3. mutex' = [mutex EXCEPT ![p] = [@ EXCEPT ![k] = r]]
    BY <1>12
  <2> HIDE DEF r
  <2>4. TipoProcesos'
    BY <1>8, <1>12, <2>2, <2>3
  <2>5. ColasPaso
    BY <1>3, <1>12, <2>1, PasarAReadyPaso
  <2> QED
    BY <1>1, <1>4, <1>12, <2>4, <2>5 DEF SyscallPaso
<1> QED
  BY <1>9, <1>10, <1>11, <1>12, Zenon DEF MutexUnlock
\* process_exit_thread may be entered by CP or by a handler.
LEMMA SalirProcesoPaso ==
    ASSUME IInv, NEW a \in Actores, NEW h \in Hilos, NEW e \in {"fin", "cambio", "no"},
           pc[a] \notin Especiales, SalirProceso(a, h, e)
    PROVE  ColasPaso /\ PasoDe(a)
<1> DEFINE l == [loc[a] EXCEPT !.hilo = h, !.sigue = e, !.proceso = BuscarProceso(h[1])]
<1>1. ColasPaso
  BY DesencolarPaso DEF SalirProceso, IInv, TypeOK
<1>2. BuscarProceso(h[1]) \in Pids \cup {NULO}
  BY BuscarProcesoTipo DEF IInv, TypeOK
<1>3. l \in Locales
  BY <1>2, LocTipo DEF IInv, TypeOK, Locales
<1>4. Va(a, "fin_proceso") /\ loc' = [loc EXCEPT ![a] = l]
  BY DEF SalirProceso
<1> HIDE DEF l
<1> QED
  BY <1>1, <1>3, <1>4, PasoVaLoc DEF Etiquetas, Especiales

LEMMA ThreadExitInv ==
    ASSUME IInv, EnSyscall, NEW s \in Syscalls, ThreadExit(s)
    PROVE  SyscallPaso
<1> DEFINE h == hilo_en_exec
           l == [loc[CP] EXCEPT !.hilo = h]
<1>1. h \in Hilos /\ pc[CP] = "cpu"
  BY DEF EnSyscall
<1>2. Desencolar(h) /\ UNCHANGED <<bloqueo, creados, procesos, nuevos>>
  BY DEF ThreadExit
<1>3. ColasPaso /\ NuevosPaso /\ TipoBloqueo' /\ TipoCreados' /\ TipoProcesos'
  BY <1>2, DesencolarPaso, NuevosIguales, SinCambios DEF IInv, TypeOK
<1>4. CASE h[2] = 0
  <2>1. fallo' = "puntero_nulo" /\ UNCHANGED <<pc, loc>>
    BY <1>4 DEF ThreadExit
  <2>2. PasoDe(CP)
    BY <1>1, <2>1 DEF PasoDe, Especiales, IInv, TypeOK, TipoActores
  <2> QED
    BY <1>3, <2>1, <2>2 DEF SyscallPaso, Fallos
<1>5. CASE h[2] # 0
  <2>1. loc' = [loc EXCEPT ![CP] = l] /\ Va(CP, "fin_hilo") /\ UNCHANGED fallo
    BY <1>5 DEF ThreadExit
  <2>2. l \in Locales
    BY <1>1, LocTipo, ActoresDistintos DEF IInv, TypeOK, Locales
  <2> HIDE DEF l
  <2>3. PasoDe(CP)
    BY <1>1, <2>1, <2>2, PasoVaLoc, ActoresDistintos DEF Etiquetas, Especiales
  <2> QED
    BY <1>3, <2>1, <2>3, SinCambios DEF SyscallPaso
<1> QED
  BY <1>4, <1>5

LEMMA ProcessExitInv ==
    ASSUME IInv, EnSyscall, NEW s \in Syscalls, ProcessExit(s)
    PROVE  SyscallPaso
<1>1. hilo_en_exec \in Hilos /\ pc[CP] \notin Especiales
  BY DEF EnSyscall, Especiales
<1>2. /\ SalirProceso(CP, hilo_en_exec, "fin")
      /\ UNCHANGED <<bloqueo, creados, procesos, nuevos, fallo>>
  BY DEF ProcessExit
<1>3. ColasPaso /\ PasoDe(CP)
  BY <1>1, <1>2, SalirProcesoPaso, ActoresDistintos
<1> QED
  BY <1>2, <1>3, NuevosIguales, SinCambios DEF SyscallPaso

(* Whatever the CPU answers, the handler CP runs keeps IInv.               *)
LEMMA SyscallInv ==
    ASSUME IInv, Syscall
    PROVE  IInv'
<1> DEFINE h == loc[CP].hilo
           script == Programa[archivo[h]]
<1>1. EnSyscall /\ CPUContesta
  BY AlAtender DEF Syscall
<1>2. h \in Hilos
  BY <1>1, LocTipo, ActoresDistintos
  DEF CPUContesta, IInv, TypeOK, TipoMemoria
<1>3. script \in Seq(SUBSET Syscalls)
  BY <1>2, ConstantesKernel DEF IInv, TypeOK, TipoCreados
<1>4. ctx[h] \in DOMAIN script
  BY DEF Syscall
<1>5. script[ctx[h]] \in SUBSET Syscalls
  BY <1>3, <1>4, ElementosDeLista
<1>6. PICK s \in Syscalls :
        \/ DumpMemory(s) \/ PeticionIO(s) \/ IniciarProceso(s) \/ ThreadCreate(s)
        \/ ThreadJoin(s) \/ ThreadCancel(s) \/ MutexCreate(s) \/ MutexLock(s)
        \/ MutexUnlock(s) \/ ThreadExit(s) \/ ProcessExit(s)
  BY <1>5, Zenon DEF Syscall
<1>7. SyscallPaso
  BY <1>1, <1>6, DumpMemoryInv, PeticionIOInv, IniciarProcesoInv, ThreadCreateInv,
     ThreadJoinInv, ThreadCancelInv, MutexCreateInv, MutexLockInv, MutexUnlockInv,
     ThreadExitInv, ProcessExitInv, Zenon
<1>8. Cuentas'
  BY <1>7, CuentasSeMantienen, ActoresDistintos DEF SyscallPaso
<1>9. TipoQuantum' /\ TipoMemoria'
  BY DEF Syscall, IInv, TypeOK, TipoQuantum, TipoMemoria, quantum, memoria
<1>10. TipoResto'
  BY <1>2, <1>7 DEF Syscall, SyscallPaso, IInv, TypeOK, TipoResto
<1> QED
  BY <1>7, <1>8, <1>9, <1>10
  DEF IInv, TypeOK, Cuentas, SyscallPaso, ColasPaso, NuevosPaso, PasoDe

-----------------------------------------------------------------------------
(* Requests of CP to memoria.                                              *)

PasoMemoria(a) == ColasPaso /\ PasoDe(a) /\ TipoMemoria'

LEMMA CrearHiloInv ==
    ASSUME IInv, CrearHilo
    PROVE  PasoMemoria(CP)
<1> DEFINE h == loc[CP].hilo
<1>1. h \in Hilos /\ pc[CP] = "crear_hilo"
  BY PunteroTCB, ActoresDistintos DEF IInv, CrearHilo, EnPaso
<1>2. CASE archivo[h] \in Existe
  <2>1. /\ EncolarEnReady(h) /\ Va(CP, "cambio") /\ UNCHANGED <<loc, ocupadas>>
        /\ mem' = mem \cup {h}
    BY <1>2 DEF CrearHilo
  <2>2. ColasPaso
    BY <1>1, <2>1, EncolarEnReadyPaso DEF IInv, TypeOK
  <2>3. PasoDe(CP)
    BY <1>1, <2>1, PasoVa, ActoresDistintos DEF Etiquetas, Especiales
  <2>4. TipoMemoria'
    BY <1>1, <2>1 DEF IInv, TypeOK, TipoMemoria
  <2> QED
    BY <2>2, <2>3, <2>4 DEF PasoMemoria
<1>3. CASE archivo[h] \notin Existe
  <2>1. SalirProceso(CP, h, "cambio") /\ UNCHANGED <<mem, ocupadas>>
    BY <1>3 DEF CrearHilo
  <2>2. ColasPaso /\ PasoDe(CP)
    BY <1>1, <2>1, SalirProcesoPaso, ActoresDistintos DEF Especiales
  <2>3. TipoMemoria'
    BY <2>1 DEF IInv, TypeOK, TipoMemoria
  <2> QED
    BY <2>2, <2>3 DEF PasoMemoria
<1> QED
  BY <1>2, <1>3

LEMMA FinHiloInv ==
    ASSUME IInv, FinHilo
    PROVE  PasoMemoria(CP)
<1> DEFINE l == [loc[CP] EXCEPT !.proceso = NULO, !.sigue = "fin"]
<1>1. /\ UNCHANGED <<colas, ocupadas>> /\ mem' = mem \ {loc[CP].hilo}
      /\ loc' = [loc EXCEPT ![CP] = l]
  BY DEF FinHilo
<1>2. /\ pc[CP] \in {"cancela", "fin_hilo"}
      /\ Va(CP, "libera_hilo") \/ Va(CP, "fin")
  BY DEF FinHilo, EnPaso
<1>3. l \in Locales
  BY LocTipo, ActoresDistintos DEF IInv, TypeOK, Locales
<1> HIDE DEF l
<1>4. PasoDe(CP)
  BY <1>1, <1>2, <1>3, PasoVaLoc, ActoresDistintos DEF Etiquetas, Especiales
<1>5. ColasPaso
  BY <1>1, ColasIguales DEF IInv, TypeOK
<1>6. TipoMemoria'
  BY <1>1 DEF IInv, TypeOK, TipoMemoria
<1> QED
  BY <1>4, <1>5, <1>6 DEF PasoMemoria

-----------------------------------------------------------------------------
(* liberar_pcb and liberar_hilo.                                           *)

PasoLibera(a) ==
    /\ ColasPaso /\ PasoDe(a) /\ TipoBloqueo' /\ TipoProcesos' /\ TipoMemoria'
    /\ liberados' \subseteq Hilos /\ largo_plazo' \in BOOLEAN

LEMMA SinCambiosLibera ==
    ASSUME IInv
    PROVE  /\ UNCHANGED bloqueo => TipoBloqueo'
           /\ UNCHANGED procesos => TipoProcesos'
           /\ UNCHANGED memoria => TipoMemoria'
           /\ UNCHANGED liberados => liberados' \subseteq Hilos
           /\ UNCHANGED largo_plazo => largo_plazo' \in BOOLEAN
           /\ UNCHANGED colas => ColasPaso
  BY ColasIguales DEF IInv, TypeOK, TipoBloqueo, TipoProcesos, TipoMemoria, TipoResto,
         bloqueo, procesos, memoria

LEMMA FinProcesoInv ==
    ASSUME IInv, NEW a \in Actores, FinProceso(a)
    PROVE  PasoLibera(a)
<1> DEFINE suyos == {h \in mem : h[1] = loc[a].proceso}
           l == [loc[a] EXCEPT !.i = 1, !.j = 1]
           e == IF suyos = {} THEN loc[a].sigue ELSE "desencola"
<1>1. /\ UNCHANGED <<colas, bloqueo, procesos, liberados, largo_plazo>>
      /\ Va(a, e) /\ loc' = [loc EXCEPT ![a] = l] /\ pc[a] = "fin_proceso"
  BY DEF FinProceso, EnPaso
<1>2. TipoMemoria'
  BY DEF FinProceso, ParticionesTras, IInv, TypeOK, TipoMemoria
<1>3. l \in Locales /\ e \in {"fin", "cambio", "inicio", "no", "desencola"}
  <2>1. loc[a] \in Locales /\ loc[a].sigue \in {"fin", "cambio", "inicio", "no"}
    BY LocTipo DEF IInv, TypeOK
  <2>2. 1 \in Nat \ {0} /\ NULO \in Hilos \cup {NULO} /\ NULO \in Pids \cup {NULO}
    OBVIOUS
  <2>3. l \in Locales
    BY <2>1, <2>2, LocalesCambia, Zenon
  <2> QED
    BY <2>1, <2>3
<1> HIDE DEF l, e
<1>4. PasoDe(a)
  BY <1>1, <1>3, PasoVaLoc DEF Etiquetas, Especiales
<1> QED
  BY <1>1, <1>2, <1>4, SinCambiosLibera DEF PasoLibera

LEMMA DesencolarTodosInv ==
    ASSUME IInv, NEW a \in Actores, DesencolarTodos(a)
    PROVE  PasoLibera(a)
<1> DEFINE l == [loc[a] EXCEPT !.j = @ + 1]
<1>1. UNCHANGED <<bloqueo, procesos, liberados, largo_plazo, memoria>>
      /\ pc[a] = "desencola"
  BY DEF DesencolarTodos, EnPaso
<1>2. ColasPaso /\ PasoDe(a)
  <2>1. CASE loc[a].j <= Len(threads[loc[a].proceso])
    <3>1. /\ Desencolar(threads[loc[a].proceso][loc[a].j]) /\ UNCHANGED pc
          /\ loc' = [loc EXCEPT ![a] = l]
      BY <2>1 DEF DesencolarTodos
    <3>2. l \in Locales
      BY LocTipo DEF IInv, TypeOK, Locales
    <3> HIDE DEF l
    <3> QED
      BY <1>1, <3>1, <3>2, DesencolarPaso, PasoLoc DEF Especiales, IInv, TypeOK
  <2>2. CASE ~(loc[a].j <= Len(threads[loc[a].proceso]))
    <3>1. UNCHANGED <<colas, loc>> /\ Va(a, "libera")
      BY <2>2 DEF DesencolarTodos
    <3> QED
      BY <1>1, <3>1, ColasIguales, PasoVa DEF Etiquetas, Especiales, IInv, TypeOK
  <2> QED
    BY <2>1, <2>2
<1> QED
  BY <1>1, <1>2, SinCambiosLibera DEF PasoLibera

LEMMA LiberarPcbInv ==
    ASSUME IInv, NEW a \in Actores, LiberarPcb(a)
    PROVE  PasoLibera(a)
<1> DEFINE p == loc[a].proceso
           i == loc[a].i
           l == [loc[a] EXCEPT !.hilo = threads[p][i], !.i = @ + 1]
<1>1. UNCHANGED <<colas, bloqueo, mutex, liberados, memoria>> /\ pc[a] = "libera"
  BY DEF LiberarPcb, EnPaso
<1>2. p \in Pids
  BY PunteroPCB DEF IInv, LiberarPcb
<1>3. /\ threads \in [Pids -> Seq(Hilos)] /\ procesos_en_sistema \in Seq(Pids)
      /\ mutex \in [Pids -> Seq(Mutexes)] /\ i \in Nat \ {0}
  BY LocTipo DEF IInv, TypeOK, TipoProcesos
<1>4. TipoProcesos' /\ PasoDe(a) /\ largo_plazo' \in BOOLEAN
  <2>1. CASE i <= Len(threads[p])
    <3>1. /\ loc' = [loc EXCEPT ![a] = l] /\ Va(a, "libera_hilo")
          /\ threads' = [threads EXCEPT ![p] = RemoveFirst(@, threads[p][i])]
          /\ UNCHANGED <<procesos_en_sistema, largo_plazo>>
      BY <2>1, <1>2, <1>3 DEF LiberarPcb
    <3>2. threads[p][i] \in Hilos
      BY <1>2, <1>3, <2>1, ElementOfSeq, LenProperties
    <3>3. RemoveFirst(threads[p], threads[p][i]) \in Seq(Hilos)
      BY <1>2, <1>3, QuitarElemento
    <3>4. l \in Locales
      <4>1. loc[a] \in Locales /\ threads[p][i] \in Hilos \cup {NULO}
            /\ NULO \in Pids \cup {NULO} /\ i + 1 \in Nat \ {0}
        BY <1>3, <3>2, LocTipo DEF IInv, TypeOK
      <4> QED
        BY <4>1, LocalesCambia, Zenon
    <3>5. threads' \in [Pids -> Seq(Hilos)]
      BY <1>3, <3>1, <3>3, Zenon
    <3> HIDE DEF l
    <3>6. PasoDe(a)
      BY <1>1, <3>1, <3>4, PasoVaLoc DEF Etiquetas, Especiales
    <3> QED
      BY <1>1, <1>3, <3>1, <3>5, <3>6, SinCambiosLibera DEF TipoProcesos
  <2>2. CASE ~(i <= Len(threads[p]))
    <3>1. /\ UNCHANGED <<threads, loc>> /\ Va(a, loc[a].sigue)
          /\ procesos_en_sistema' = RemoveFirst(procesos_en_sistema, p)
          /\ largo_plazo' = (largo_plazo \/ a # LP)
      BY <2>2 DEF LiberarPcb
    <3>2. procesos_en_sistema' \in Seq(Pids)
      BY <1>3, <3>1, QuitarElemento
    <3>3. PasoDe(a)
      BY <1>1, <3>1, PasoVa, LocTipo DEF Etiquetas, Especiales, IInv, TypeOK
    <3> QED
      BY <1>1, <1>3, <3>1, <3>2, <3>3 DEF TipoProcesos
  <2> QED
    BY <2>1, <2>2
<1> QED
  BY <1>1, <1>4, SinCambiosLibera DEF PasoLibera

LEMMA LiberarHiloInv ==
    ASSUME IInv, NEW a \in Actores, LiberarHilo(a)
    PROVE  PasoLibera(a)
<1> DEFINE h == loc[a].hilo
           p == BuscarProceso(h[1])
           l == [loc[a] EXCEPT !.dueno = p, !.j = 1]
<1>1. /\ UNCHANGED <<colas, bloqueo, procesos_en_sistema, mutex, liberados,
                     largo_plazo, memoria>>
      /\ pc[a] = "libera_hilo" /\ loc' = [loc EXCEPT ![a] = l] /\ Va(a, "joins")
      /\ threads' = IF p = NULO THEN threads
                    ELSE [threads EXCEPT ![p] = RemoveFirst(@, h)]
  BY DEF LiberarHilo, EnPaso
<1>2. p \in Pids \cup {NULO}
  BY BuscarProcesoTipo DEF IInv, TypeOK
<1>3. l \in Locales
  <2>1. loc[a] \in Locales /\ 1 \in Nat \ {0} /\ NULO \in Hilos \cup {NULO}
    BY LocTipo DEF IInv, TypeOK
  <2> QED
    BY <1>2, <2>1, LocalesCambia, Zenon
<1> HIDE DEF p, l
<1>4. threads' \in [Pids -> Seq(Hilos)]
  <2>1. CASE p = NULO
    BY <1>1, <2>1 DEF IInv, TypeOK, TipoProcesos
  <2>2. CASE p # NULO
    <3>1. threads[p] \in Seq(Hilos)
      BY <1>2, <2>2 DEF IInv, TypeOK, TipoProcesos
    <3>2. RemoveFirst(threads[p], h) \in Seq(Hilos)
      BY <3>1, QuitarElemento
    <3> QED
      BY <1>1, <2>2, <3>2, Zenon DEF IInv, TypeOK, TipoProcesos
  <2> QED
    BY <2>1, <2>2
<1>5. TipoProcesos'
  BY <1>1, <1>4 DEF IInv, TypeOK, TipoProcesos
<1>6. PasoDe(a)
  BY <1>1, <1>3, PasoVaLoc DEF Etiquetas, Especiales
<1> QED
  BY <1>1, <1>5, <1>6, SinCambiosLibera DEF PasoLibera

LEMMA DespertarJoinsInv ==
    ASSUME IInv, NEW a \in Actores, DespertarJoins(a)
    PROVE  PasoLibera(a)
<1> DEFINE b == cola_blocked[loc[a].j]
           l == [loc[a] EXCEPT !.j = @ + 1]
           m == [loc[a] EXCEPT !.j = 1]
<1>1. UNCHANGED <<procesos, liberados, largo_plazo, memoria>> /\ pc[a] = "joins"
  BY DEF DespertarJoins, EnPaso
<1>2. l \in Locales /\ m \in Locales /\ loc[a].j \in Nat \ {0}
  BY LocTipo DEF IInv, TypeOK, Locales
<1>3. ColasPaso /\ TipoBloqueo' /\ PasoDe(a)
  <2>1. CASE loc[a].j <= Len(cola_blocked)
    <3>1. /\ loc' = [loc EXCEPT ![a] = l] /\ UNCHANGED pc
          /\ \/ /\ PasarAReady(b)
                /\ tid_bloqueador' = [tid_bloqueador EXCEPT ![b] = Nadie]
                /\ motivo_bloqueo' = [motivo_bloqueo EXCEPT ![b] = "NONE"]
             \/ UNCHANGED <<colas, bloqueo>>
      BY <2>1 DEF DespertarJoins
    <3>2. b \in Hilos
      BY <2>1, <1>2, ElementOfSeq, LenProperties DEF IInv, TypeOK, TipoColas
    <3> HIDE DEF l, b
    <3>3. PasoDe(a)
      BY <1>1, <1>2, <3>1, PasoLoc DEF Especiales
    <3>4. ColasPaso /\ TipoBloqueo'
      <4>1. CASE UNCHANGED <<colas, bloqueo>>
        BY <4>1, SinCambiosLibera
      <4>2. CASE ~UNCHANGED <<colas, bloqueo>>
        BY <3>1, <3>2, <4>2, PasarAReadyPaso DEF IInv, TypeOK, TipoBloqueo
      <4> QED
        BY <4>1, <4>2
    <3> QED
      BY <3>3, <3>4
  <2>2. CASE ~(loc[a].j <= Len(cola_blocked))
    <3>1. loc' = [loc EXCEPT ![a] = m] /\ Va(a, "mutex") /\ UNCHANGED <<colas, bloqueo>>
      BY <2>2 DEF DespertarJoins
    <3> HIDE DEF m
    <3> QED
      BY <1>1, <1>2, <3>1, PasoVaLoc, SinCambiosLibera DEF Etiquetas, Especiales
  <2> QED
    BY <2>1, <2>2
<1> QED
  BY <1>1, <1>3, SinCambiosLibera DEF PasoLibera

LEMMA HeredarMutexInv ==
    ASSUME IInv, NEW a \in Actores, HeredarMutex(a)
    PROVE  PasoLibera(a)
<1> DEFINE p == loc[a].dueno
           j == loc[a].j
           l == [loc[a] EXCEPT !.j = @ + 1]
           q == mutex[p][j]
<1>1. UNCHANGED <<bloqueo, procesos_en_sistema, threads, largo_plazo, memoria>>
      /\ pc[a] = "mutex"
  BY DEF HeredarMutex, EnPaso
<1>2. /\ TipoProcesos /\ TipoColas /\ l \in Locales /\ j \in Nat \ {0}
      /\ p \in Pids \cup {NULO}
  BY LocTipo DEF IInv, TypeOK, Locales
<1>3. UNCHANGED mutex => TipoProcesos'
  BY <1>1, <1>2 DEF TipoProcesos
<1>4. CASE p # NULO /\ j <= Len(mutex[p])
  <2>1. /\ loc' = [loc EXCEPT ![a] = l] /\ UNCHANGED <<liberados, pc>>
        /\ \/ UNCHANGED <<colas, mutex>>
           \/ /\ mutex' = [mutex EXCEPT ![p][j].owner = Nadie] /\ UNCHANGED colas
           \/ /\ q.hilos # <<>> /\ PasarAReady(q.hilos[1])
              /\ mutex' = [mutex EXCEPT ![p][j].owner = q.hilos[1][2]]
    BY <1>4 DEF HeredarMutex
  <2>2. p \in Pids /\ j \in DOMAIN mutex[p]
    BY <1>2, <1>4, LenProperties DEF TipoProcesos
  <2>3. q \in Mutexes /\ (q.hilos # <<>> => q.hilos[1] \in Hilos)
    BY <1>2, <2>2, MutexTipo
  <2>4. PasoDe(a)
    <3> HIDE DEF l
    <3> QED
      BY <1>1, <1>2, <2>1, PasoLoc DEF Especiales
  <2>5. ASSUME NEW o \in Tids \cup {Nadie}, mutex' = [mutex EXCEPT ![p][j].owner = o]
        PROVE  TipoProcesos'
    <3> DEFINE r == [q EXCEPT !.owner = o]
    <3>1. r \in Mutexes
      BY <2>3 DEF Mutexes
    <3>2. mutex' = [mutex EXCEPT ![p] = [@ EXCEPT ![j] = r]]
      BY <2>5
    <3> HIDE DEF r
    <3>3. mutex' \in [Pids -> Seq(Mutexes)]
      BY <1>2, <2>2, <3>1, <3>2, CambiarMutex
    <3> QED
      BY <1>1, <1>2, <3>3 DEF TipoProcesos
  <2>6. ColasPaso /\ TipoProcesos'
    <3>1. CASE UNCHANGED <<colas, mutex>>
      BY <1>2, <1>3, <3>1, ColasIguales
    <3>2. CASE mutex' = [mutex EXCEPT ![p][j].owner = Nadie] /\ UNCHANGED colas
      BY <1>2, <2>5, <3>2, ColasIguales
    <3>3. CASE /\ q.hilos # <<>> /\ PasarAReady(q.hilos[1])
               /\ mutex' = [mutex EXCEPT ![p][j].owner = q.hilos[1][2]]
      <4>1. q.hilos[1] \in Hilos /\ q.hilos[1][2] \in Tids
        BY <2>3, <3>3, Pares
      <4> QED
        BY <1>2, <2>5, <3>3, <4>1, PasarAReadyPaso
    <3> QED
      BY <2>1, <3>1, <3>2, <3>3
  <2> QED
    BY <1>1, <2>1, <2>4, <2>6, SinCambiosLibera DEF PasoLibera
<1>5. CASE ~(p # NULO /\ j <= Len(mutex[p]))
  <2> DEFINE e == IF loc[a].proceso = NULO THEN loc[a].sigue ELSE "libera"
  <2>1. /\ liberados' = liberados \cup {loc[a].hilo} /\ Va(a, e)
        /\ UNCHANGED <<colas, mutex, loc>>
    BY <1>5 DEF HeredarMutex
  <2>2. loc[a].hilo \in Hilos
    BY PunteroTCB DEF IInv, HeredarMutex
  <2>3. e \in {"fin", "cambio", "inicio", "no", "libera"}
    BY LocTipo DEF IInv, TypeOK
  <2> HIDE DEF e
  <2>4. PasoDe(a)
    BY <1>1, <2>1, <2>3, PasoVa DEF Etiquetas, Especiales
  <2>5. liberados' \subseteq Hilos
    BY <2>1, <2>2 DEF IInv, TypeOK, TipoResto
  <2> QED
    BY <1>1, <1>3, <2>1, <2>4, <2>5, SinCambiosLibera DEF PasoLibera
<1> QED
  BY <1>4, <1>5

LEMMA LiberacionInv ==
    ASSUME IInv, NEW a \in Actores, Liberacion(a)
    PROVE  IInv'
<1>1. PasoLibera(a)
  BY FinProcesoInv, DesencolarTodosInv, LiberarPcbInv, LiberarHiloInv,
     DespertarJoinsInv, HeredarMutexInv, Zenon DEF Liberacion
<1>2. UNCHANGED <<creados, nuevos, quantum, respuesta, ctx, fallo>>
  BY DEF Liberacion
<1>3. NuevosPaso /\ TipoCreados'
  BY <1>2, NuevosIguales, SinCambios
<1>4. Cuentas'
  BY <1>1, <1>3, CuentasSeMantienen DEF PasoLibera
<1>5. TipoQuantum' /\ TipoResto'
  BY <1>1, <1>2 DEF PasoLibera, IInv, TypeOK, TipoQuantum, TipoResto, quantum
<1> QED
  BY <1>1, <1>3, <1>4, <1>5
  DEF IInv, TypeOK, Cuentas, PasoLibera, ColasPaso, NuevosPaso, PasoDe
-----------------------------------------------------------------------------
(* Long-term scheduler.                                                    *)

\* What the four steps of LP have in common; pc[LP] is special in three.
PasoLargo ==
    /\ ColasPaso /\ TipoNuevos' /\ TipoMemoria' /\ TipoActores'
    /\ largo_plazo' \in BOOLEAN
    /\ respuesta' \in {"SUCCESS", "SIZE_ERROR", "MAX_SIZE_ERROR", "PATH_ERROR"}
    /\ pc'[CP] = pc[CP] /\ SemNewCuenta' /\ LPTieneCabeza'

LEMMA SinCambiosLargo ==
    ASSUME IInv
    PROVE  /\ UNCHANGED colas => ColasPaso
           /\ UNCHANGED nuevos => TipoNuevos'
           /\ UNCHANGED memoria => TipoMemoria'
           /\ UNCHANGED largo_plazo => largo_plazo' \in BOOLEAN
           /\ UNCHANGED respuesta =>
                 respuesta' \in {"SUCCESS", "SIZE_ERROR", "MAX_SIZE_ERROR", "PATH_ERROR"}
  BY ColasIguales DEF IInv, TypeOK, TipoNuevos, TipoMemoria, TipoResto, nuevos, memoria

LEMMA ConsultarLargoPlazoInv ==
    ASSUME IInv, ConsultarLargoPlazo
    PROVE  PasoLargo
<1>1. /\ UNCHANGED <<colas, nuevos, largo_plazo, memoria, respuesta, loc>>
      /\ Va(LP, "sem_new") /\ pc[LP] = "inicio"
  BY DEF ConsultarLargoPlazo, EnPaso
<1>2. TipoActores' /\ pc'[CP] = pc[CP] /\ pc'[LP] = "sem_new"
  BY <1>1, VaTipo, ActoresDistintos DEF IInv, TypeOK, TipoActores, Etiquetas
<1>3. SemNewCuenta' /\ LPTieneCabeza'
  BY <1>1, <1>2 DEF IInv, SemNewCuenta, LPTieneCabeza, nuevos
<1> QED
  BY <1>1, <1>2, <1>3, SinCambiosLargo DEF PasoLargo

LEMMA TomarNuevoInv ==
    ASSUME IInv, TomarNuevo
    PROVE  PasoLargo
<1> DEFINE p == cola_new[1]
           h == IF threads[p] = <<>> THEN NULO ELSE threads[p][1]
           l == [loc[LP] EXCEPT !.proceso = p, !.hilo = h]
<1>1. /\ UNCHANGED <<colas, cola_new, largo_plazo, memoria, respuesta>>
      /\ Va(LP, "crear_proceso") /\ pc[LP] = "sem_new" /\ loc' = [loc EXCEPT ![LP] = l]
      /\ sem_new > 0 /\ sem_new' = sem_new - 1
  BY DEF TomarNuevo, EnPaso
<1>2. /\ cola_new \in Seq(Pids) /\ Len(cola_new) \in Nat /\ sem_new \in Nat
      /\ Len(cola_new) = sem_new
  BY <1>1, LenProperties DEF IInv, TypeOK, TipoNuevos, SemNewCuenta
<1>3. p \in Pids
  BY <1>1, <1>2, ElementOfSeq
<1>4. h \in Hilos \cup {NULO}
  <2>1. threads[p] \in Seq(Hilos)
    BY <1>3 DEF IInv, TypeOK, TipoProcesos
  <2> QED
    BY <2>1, ElementosDeLista
<1>5. l \in Locales /\ l.proceso = p
  <2>1. loc[LP] \in Locales
    BY LocTipo, ActoresDistintos DEF IInv, TypeOK
  <2> HIDE DEF h, p
  <2> QED
    BY <1>3, <1>4, <2>1 DEF Locales
<1> HIDE DEF l
<1>6. TipoActores' /\ pc'[CP] = pc[CP] /\ pc'[LP] = "crear_proceso" /\ loc'[LP] = l
  BY <1>1, <1>5, VaTipo, ActoresDistintos DEF IInv, TypeOK, TipoActores, Etiquetas
<1>7. SemNewCuenta' /\ LPTieneCabeza' /\ TipoNuevos'
  BY <1>1, <1>2, <1>5, <1>6 DEF SemNewCuenta, LPTieneCabeza, TipoNuevos
<1> QED
  BY <1>1, <1>6, <1>7, SinCambiosLargo DEF PasoLargo

LEMMA CrearProcesoInv ==
    ASSUME IInv, CrearProceso
    PROVE  PasoLargo
<1>1. /\ UNCHANGED <<colas, nuevos, largo_plazo, loc>>
      /\ Va(LP, "responde") /\ pc[LP] = "crear_proceso" /\ loc[LP].hilo \in Hilos
  BY PunteroTCB, ActoresDistintos DEF CrearProceso, EnPaso, IInv
<1>2. TipoActores' /\ pc'[CP] = pc[CP] /\ pc'[LP] = "responde"
  BY <1>1, VaTipo, ActoresDistintos DEF IInv, TypeOK, TipoActores, Etiquetas
<1>3. SemNewCuenta' /\ LPTieneCabeza'
  BY <1>1, <1>2 DEF IInv, SemNewCuenta, LPTieneCabeza, nuevos
<1>4. respuesta' \in {"SUCCESS", "SIZE_ERROR", "MAX_SIZE_ERROR", "PATH_ERROR"}
  BY Zenon DEF CrearProceso
<1>5. TipoMemoria'
  <2>1. mem' = mem \/ mem' = mem \cup {loc[LP].hilo}
    BY Zenon DEF CrearProceso
  <2>2. ocupadas' = ocupadas \/ ocupadas' = ocupadas + 1
    BY Zenon DEF CrearProceso
  <2> QED
    BY <1>1, <2>1, <2>2 DEF IInv, TypeOK, TipoMemoria
<1> QED
  BY <1>1, <1>2, <1>3, <1>4, <1>5, SinCambiosLargo DEF PasoLargo

LEMMA AtenderRespuestaInv ==
    ASSUME IInv, AtenderRespuesta
    PROVE  PasoLargo
<1> DEFINE p == loc[LP].proceso
<1>1. UNCHANGED <<respuesta, memoria>> /\ pc[LP] = "responde" /\ loc[LP].hilo \in Hilos
  BY PunteroTCB, ActoresDistintos DEF AtenderRespuesta, EnPaso, IInv
<1>2. /\ cola_new \in Seq(Pids) /\ Len(cola_new) \in Nat /\ sem_new \in Nat
      /\ Len(cola_new) = sem_new + 1 /\ p = cola_new[1]
  BY <1>1, LenProperties
  DEF IInv, TypeOK, TipoNuevos, SemNewCuenta, LPTieneCabeza
<1>3. p \in ToSet(cola_new)
  BY <1>2, LenProperties DEF ToSet
<1>4. /\ RemoveFirst(cola_new, p) \in Seq(Pids)
      /\ Len(RemoveFirst(cola_new, p)) = Len(cola_new) - 1
  BY <1>2, <1>3, QuitarElemento
<1>5. ASSUME NEW e \in {"inicio", "desencola"}, Va(LP, e)
      PROVE  /\ pc' \in [Actores -> Etiquetas] /\ pc'[CP] = pc[CP]
             /\ pc'[LP] = e /\ LPTieneCabeza'
  BY <1>5, VaTipo, ActoresDistintos DEF IInv, TypeOK, LPTieneCabeza, Etiquetas
<1>6. CASE respuesta = "SUCCESS"
  <2>1. /\ cola_new' = RemoveFirst(cola_new, p) /\ EncolarEnReady(loc[LP].hilo)
        /\ Va(LP, "inicio") /\ UNCHANGED <<sem_new, largo_plazo, loc>>
    BY <1>6 DEF AtenderRespuesta, Admitir, Postergar, Rechazar
  <2>2. SemNewCuenta' /\ TipoNuevos'
    BY <1>2, <1>4, <1>5, <2>1 DEF SemNewCuenta, TipoNuevos
  <2>3. ColasPaso /\ TipoActores'
    BY <1>1, <1>5, <2>1, EncolarEnReadyPaso DEF IInv, TypeOK, TipoActores
  <2> QED
    BY <1>1, <1>5, <2>1, <2>2, <2>3, SinCambiosLargo DEF PasoLargo
<1>7. CASE respuesta = "SIZE_ERROR"
  <2>1. /\ largo_plazo' = FALSE /\ sem_new' = sem_new + 1 /\ Va(LP, "inicio")
        /\ UNCHANGED <<colas, cola_new, loc>>
    BY <1>7 DEF AtenderRespuesta, Admitir, Postergar, Rechazar
  <2>2. SemNewCuenta' /\ TipoNuevos'
    BY <1>2, <1>5, <2>1 DEF SemNewCuenta, TipoNuevos
  <2>3. ColasPaso /\ TipoActores'
    BY <1>5, <2>1, ColasIguales DEF IInv, TypeOK, TipoActores
  <2> QED
    BY <1>1, <1>5, <2>1, <2>2, <2>3, SinCambiosLargo DEF PasoLargo
<1>8. CASE respuesta \in {"MAX_SIZE_ERROR", "PATH_ERROR"}
  <2> DEFINE l == [loc[LP] EXCEPT !.i = 1, !.j = 1, !.sigue = "inicio"]
  <2>1. /\ cola_new' = RemoveFirst(cola_new, p) /\ Va(LP, "desencola")
        /\ loc' = [loc EXCEPT ![LP] = l] /\ UNCHANGED <<colas, sem_new, largo_plazo>>
    BY <1>8 DEF AtenderRespuesta, Admitir, Postergar, Rechazar
  <2>2. l \in Locales
    <3>1. /\ loc[LP] \in Locales /\ 1 \in Nat \ {0}
          /\ NULO \in Hilos \cup {NULO} /\ NULO \in Pids \cup {NULO}
      BY LocTipo, ActoresDistintos DEF IInv, TypeOK
    <3> QED
      BY <3>1, LocalesCambia, Zenon
  <2> HIDE DEF l
  <2>3. SemNewCuenta' /\ TipoNuevos'
    BY <1>2, <1>4, <1>5, <2>1 DEF SemNewCuenta, TipoNuevos
  <2>4. ColasPaso /\ TipoActores'
    BY <1>5, <2>1, <2>2, ColasIguales, ActoresDistintos DEF IInv, TypeOK, TipoActores
  <2> QED
    BY <1>1, <1>5, <2>1, <2>3, <2>4, SinCambiosLargo DEF PasoLargo
<1> QED
  BY <1>6, <1>7, <1>8 DEF AtenderRespuesta, Admitir, Postergar, Rechazar

-----------------------------------------------------------------------------
(* The actors.                                                             *)

(* A step that goes through undefined behaviour only sets fallo.           *)
LEMMA FallaInv ==
    ASSUME IInv, NEW a \in Actores, Falla(a)
    PROVE  IInv'
<1>1. fallo' \in Fallos
  BY DEF Falla, Fallos
<1>2. UNCHANGED <<colas, bloqueo, creados, procesos, liberados, nuevos, largo_plazo,
                  quantum, memoria, respuesta, ctx, pc, loc>>
  BY DEF Falla
<1>3. TypeOK'
  BY <1>1, <1>2
  DEF IInv, TypeOK, TipoColas, TipoBloqueo, TipoCreados, TipoProcesos, TipoNuevos,
      TipoQuantum, TipoMemoria, TipoActores, TipoResto,
      colas, bloqueo, creados, procesos, nuevos, quantum, memoria
<1> QED
  BY <1>2, <1>3
  DEF IInv, SemReadyCubre, SemNewCuenta, LPTieneCabeza, colas, nuevos

LEMMA PasoCPInv ==
    ASSUME IInv, PasoCP
    PROVE  IInv'
<1>1. CASE /\ \/ EsperaReady \/ HayReady \/ Planificar \/ PonerEnExec \/ EjecutarHilo
              \/ FinEjecucion \/ EsperarQuantum \/ Interrupcion
           /\ UNCHANGED <<bloqueo, creados, procesos, liberados, nuevos, largo_plazo,
                          memoria, respuesta, ctx, fallo>>
  <2>1. TipoColas' /\ TipoQuantum' /\ TipoActores' /\ Cuentas'
    <3>1. CASE EsperaReady \/ HayReady \/ Planificar
      BY <1>1, <3>1, EsperaReadyInv, HayReadyInv, PlanificarInv
    <3>2. CASE \/ PonerEnExec \/ EjecutarHilo \/ FinEjecucion \/ EsperarQuantum
               \/ Interrupcion
      <4>1. PasoCorto
        BY <3>2, PonerEnExecInv, EjecutarHiloInv, FinEjecucionInv, EsperarQuantumInv,
           InterrupcionInv, Zenon
      <4>2. Cuentas'
        BY <1>1, <4>1, NuevosIguales, CuentasSeMantienen, ActoresDistintos
        DEF PasoCorto
      <4> QED
        BY <4>1, <4>2 DEF PasoCorto, ColasPaso, PasoDe
    <3> QED
      BY <1>1, <3>1, <3>2
  <2>2. TipoBloqueo' /\ TipoCreados' /\ TipoProcesos' /\ TipoMemoria'
    BY <1>1, SinCambios, SinCambiosLibera
  <2>3. TipoNuevos' /\ TipoResto'
    BY <1>1 DEF IInv, TypeOK, TipoNuevos, TipoResto, nuevos
  <2> QED
    BY <2>1, <2>2, <2>3 DEF IInv, TypeOK, Cuentas
<1>2. CASE /\ CrearHilo \/ FinHilo
           /\ UNCHANGED <<bloqueo, creados, procesos, liberados, nuevos, largo_plazo,
                          quantum, respuesta, ctx, fallo>>
  <2>1. PasoMemoria(CP)
    BY <1>2, CrearHiloInv, FinHiloInv
  <2>2. Cuentas'
    BY <1>2, <2>1, NuevosIguales, CuentasSeMantienen, ActoresDistintos DEF PasoMemoria
  <2>3. TipoBloqueo' /\ TipoCreados' /\ TipoProcesos'
    BY <1>2, SinCambios
  <2>4. TipoNuevos' /\ TipoResto' /\ TipoQuantum'
    BY <1>2 DEF IInv, TypeOK, TipoNuevos, TipoResto, TipoQuantum, nuevos, quantum
  <2> QED
    BY <2>1, <2>2, <2>3, <2>4 DEF IInv, TypeOK, Cuentas, PasoMemoria, ColasPaso, PasoDe
<1> QED
  BY <1>1, <1>2, SyscallInv, LiberacionInv, FallaInv, ActoresDistintos, Zenon
  DEF PasoCP

LEMMA PasoLPInv ==
    ASSUME IInv, PasoLP
    PROVE  IInv'
<1>1. CASE /\ ConsultarLargoPlazo \/ TomarNuevo \/ CrearProceso \/ AtenderRespuesta
           /\ UNCHANGED <<bloqueo, creados, procesos, liberados, quantum, ctx, fallo>>
  <2>1. PasoLargo
    BY <1>1, ConsultarLargoPlazoInv, TomarNuevoInv, CrearProcesoInv,
       AtenderRespuestaInv, Zenon
  <2>2. SemReadyCubre'
    <3>1. /\ Len(cola_ready) \in Nat /\ Len(cola_ready') \in Nat
          /\ sem_ready \in Nat /\ sem_ready' \in Nat
      BY <2>1, LenProperties DEF IInv, TypeOK, TipoColas, PasoLargo, ColasPaso
    <3> QED
      BY <2>1, <3>1 DEF IInv, SemReadyCubre, PasoLargo, ColasPaso
  <2>3. TipoBloqueo' /\ TipoCreados' /\ TipoProcesos'
    BY <1>1, SinCambios
  <2>4. TipoResto' /\ TipoQuantum'
    BY <1>1, <2>1 DEF IInv, TypeOK, TipoResto, TipoQuantum, quantum, PasoLargo
  <2> QED
    BY <2>1, <2>2, <2>3, <2>4 DEF IInv, TypeOK, PasoLargo, ColasPaso
<1> QED
  BY <1>1, LiberacionInv, FallaInv, ActoresDistintos, Zenon DEF PasoLP

LEMMA PasoHandlerInv ==
    ASSUME IInv, NEW h \in Hilos, PasoHandler(h)
    PROVE  IInv'
<1>0. h \in Actores /\ TipoColas
  BY ActoresDistintos DEF IInv, TypeOK
<1>1. CASE /\ TomarMutexIO(h) \/ SoltarMutexIO(h) \/ FinIO(h) \/ FinDump(h)
           /\ UNCHANGED <<bloqueo, creados, procesos, liberados, nuevos, largo_plazo,
                          quantum, memoria, respuesta, ctx, fallo>>
  <2>1. ColasPaso /\ PasoDe(h)
    <3>1. CASE TomarMutexIO(h)
      <4>1. UNCHANGED <<colas, loc>> /\ Va(h, "io_duerme") /\ pc[h] = "io_espera"
        BY <3>1 DEF TomarMutexIO, EnPaso
      <4> QED
        BY <1>0, <4>1, ColasIguales, PasoVa DEF Etiquetas, Especiales
    <3>2. CASE SoltarMutexIO(h)
      <4>1. UNCHANGED <<colas, loc>> /\ Va(h, "io_sale") /\ pc[h] = "io_duerme"
        BY <3>2 DEF SoltarMutexIO, EnPaso
      <4> QED
        BY <1>0, <4>1, ColasIguales, PasoVa DEF Etiquetas, Especiales
    <3>3. CASE FinIO(h)
      <4>1. UNCHANGED loc /\ PasarAReady(h) /\ Va(h, "no") /\ pc[h] = "io_sale"
        BY <3>3 DEF FinIO, EnPaso
      <4> QED
        BY <1>0, <4>1, PasarAReadyPaso, PasoVa DEF Etiquetas, Especiales
    <3>4. CASE FinDump(h)
      <4>1. /\ pc[h] = "dump"
            /\ \/ PasarAReady(h) /\ Va(h, "no") /\ UNCHANGED loc
               \/ SalirProceso(h, h, "no")
        BY <3>4 DEF FinDump, EnPaso
      <4>2. CASE PasarAReady(h) /\ Va(h, "no") /\ UNCHANGED loc
        BY <1>0, <4>1, <4>2, PasarAReadyPaso, PasoVa DEF Etiquetas, Especiales
      <4>3. CASE SalirProceso(h, h, "no")
        BY <1>0, <4>1, <4>3, SalirProcesoPaso DEF Especiales
      <4> QED
        BY <4>1, <4>2, <4>3
    <3> QED
      BY <1>1, <3>1, <3>2, <3>3, <3>4, Zenon
  <2>2. Cuentas'
    BY <1>0, <1>1, <2>1, NuevosIguales, CuentasSeMantienen
  <2>3. TipoBloqueo' /\ TipoCreados' /\ TipoProcesos' /\ TipoMemoria'
    BY <1>1, SinCambios, SinCambiosLibera
  <2>4. TipoNuevos' /\ TipoResto' /\ TipoQuantum'
    BY <1>1 DEF IInv, TypeOK, TipoNuevos, TipoResto, TipoQuantum, nuevos, quantum
  <2> QED
    BY <2>1, <2>2, <2>3, <2>4 DEF IInv, TypeOK, Cuentas, ColasPaso, PasoDe
<1> QED
  BY <1>0, <1>1, LiberacionInv, FallaInv, Zenon DEF PasoHandler

LEMMA PasoQuantumInv ==
    ASSUME IInv, PasoQuantum
    PROVE  IInv'
<1>1. UNCHANGED <<colas, bloqueo, creados, procesos, liberados, nuevos, largo_plazo,
                  memoria, respuesta, ctx, pc, loc, fallo>>
  BY DEF PasoQuantum
<1>2. TipoQuantum'
  BY DEF PasoQuantum, RRVence, RRDesaloja, FinDeClockIgnorado,
         IInv, TypeOK, TipoQuantum
<1>3. TypeOK'
  BY <1>1, <1>2
  DEF IInv, TypeOK, TipoColas, TipoBloqueo, TipoCreados, TipoProcesos, TipoNuevos,
      TipoMemoria, TipoActores, TipoResto,
      colas, bloqueo, creados, procesos, nuevos, memoria
<1> QED
  BY <1>1, <1>3
  DEF IInv, SemReadyCubre, SemNewCuenta, LPTieneCabeza, colas, nuevos

LEMMA InitIInv == Init => IInv
<1> SUFFICES ASSUME Init PROVE IInv
  OBVIOUS
<1>1. /\ N0 \in 1..MaxPid /\ N0 \in Nat /\ N0 = Len(ArchivosIniciales) /\ MaxTid \in Nat \ {0}
      /\ MaxPid \in Nat \ {0}
      /\ \A k \in 1..N0 : ArchivosIniciales[k] \in Archivos
  BY ConstantesKernel, ElementOfSeq DEF N0
<1>2. \A k \in 1..N0 : k - 1 \in Pids
  BY <1>1 DEF Pids
<1>3. [k \in 1..N0 |-> k - 1] \in Seq(Pids) /\ Len([k \in 1..N0 |-> k - 1]) = N0
  BY <1>1, <1>2
<1>4. \A p \in Pids : <<p, 0>> \in Hilos
  BY <1>1 DEF Hilos, Tids
<1>5. TipoColas /\ TipoBloqueo
  BY EmptySeq DEF Init, TipoColas, TipoBloqueo
<1>6. TipoCreados
  <2>1. archivo \in [Hilos -> Archivos]
    <3>1. \A h \in Hilos : h[1] \in Pids
      BY Pares
    <3>2. \A h \in Hilos : (IF h[1] < N0 THEN h[1] + 1 ELSE 1) \in 1..N0
      BY <1>1, <3>1 DEF Pids
    <3> QED
      BY <1>1, <3>2 DEF Init
  <2>2. prioridad \in [Hilos -> Nat] /\ pid_counter \in 0..MaxPid
    BY <1>1 DEF Init
  <2>3. tid_contador \in [Pids -> 0..MaxTid]
    BY <1>1 DEF Init
  <2> QED
    BY <2>1, <2>2, <2>3 DEF TipoCreados
<1>7. TipoProcesos
  <2>1. threads \in [Pids -> Seq(Hilos)]
    <3>1. \A p \in Pids : <<<<p, 0>>>> \in Seq(Hilos)
      <4>1. \A h \in Hilos : <<h>> \in Seq(Hilos)
        OBVIOUS
      <4> QED
        BY <1>4, <4>1, Zenon
    <3> QED
      BY <3>1, EmptySeq DEF Init
  <2>2. mutex \in [Pids -> Seq(Mutexes)]
    BY EmptySeq DEF Init
  <2> QED
    BY <1>3, <2>1, <2>2 DEF Init, TipoProcesos
<1>8. TipoNuevos /\ TipoQuantum /\ TipoMemoria
  <2>1. /\ cola_new = [k \in 1..N0 |-> k - 1] /\ sem_new = N0
        /\ rr = "no" /\ flag_desalojar = FALSE /\ fin_de_clock = FALSE
        /\ mem = {} /\ ocupadas = 0
    BY Zenon DEF Init
  <2>2. TipoNuevos
    BY <1>1, <1>3, <2>1, Zenon DEF TipoNuevos
  <2>3. TipoQuantum
    BY <2>1 DEF TipoQuantum
  <2>4. TipoMemoria
    BY <2>1 DEF TipoMemoria
  <2> QED
    BY <2>2, <2>3, <2>4
<1>9. TipoResto
  BY DEF Init, TipoResto, Fallos
<1>10. pc[CP] = "sem_ready" /\ pc[LP] = "inicio" /\ pc \in [Actores -> Etiquetas]
  BY ActoresDistintos, Zenon DEF Init, Etiquetas
<1>11. loc \in [Actores -> Locales]
  BY DEF Init, Locales
<1>12. SemReadyCubre /\ SemNewCuenta /\ LPTieneCabeza
  BY <1>1, <1>3, <1>10, EmptySeq DEF Init, SemReadyCubre, SemNewCuenta, LPTieneCabeza
<1> QED
  BY <1>5, <1>6, <1>7, <1>8, <1>9, <1>10, <1>11, <1>12 DEF IInv, TypeOK, TipoActores

LEMMA NextIInv == IInv /\ [Next]_vars => IInv'
<1> SUFFICES ASSUME IInv, [Next]_vars PROVE IInv'
  OBVIOUS
<1>1. CASE Next
  BY <1>1, PasoCPInv, PasoLPInv, PasoHandlerInv, PasoQuantumInv, Zenon DEF Next
<1>2. CASE UNCHANGED vars
  <2>1. TypeOK'
    BY <1>2
    DEF IInv, TypeOK, TipoColas, TipoBloqueo, TipoCreados, TipoProcesos, TipoNuevos,
        TipoQuantum, TipoMemoria, TipoActores, TipoResto, vars,
        colas, bloqueo, creados, procesos, nuevos, quantum, memoria
  <2> QED
    BY <1>2, <2>1
    DEF IInv, SemReadyCubre, SemNewCuenta, LPTieneCabeza, vars, colas, nuevos
<1> QED
  BY <1>1, <1>2

(* The inductive invariant.                                                *)
THEOREM KernelIInv == Spec => []IInv
  BY InitIInv, NextIInv, PTL DEF Spec

(* All the state of the kernel keeps its type, whatever the programs do    *)
(* and however the actors interleave.                                      *)
THEOREM KernelTypeOK == Spec => []TypeOK
<1>1. IInv => TypeOK
  BY DEF IInv
<1> QED
  BY <1>1, KernelIInv, PTL

(* No READY thread is left behind a zero semaphore: every path of the code *)
(* that appends to cola_ready posts hay_pcbs_en_ready, and no removal takes *)
(* a post that another thread in the list needs.                           *)
THEOREM KernelSemReadyCubre == Spec => []SemReadyCubre
<1>1. IInv => SemReadyCubre
  BY DEF IInv
<1> QED
  BY <1>1, KernelIInv, PTL

(* hay_pcbs_en_new counts cola_new exactly, so the long-term scheduler     *)
(* never reads the head of an empty list (planificador_largo_plazo.c:32).  *)
THEOREM KernelSemNewCuenta == Spec => []SemNewCuenta
<1>1. IInv => SemNewCuenta
  BY DEF IInv
<1> QED
  BY <1>1, KernelIInv, PTL
=============================================================================
