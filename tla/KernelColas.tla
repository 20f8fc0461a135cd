----------------------------- MODULE KernelColas -----------------------------
(***************************************************************************)
(* Where the threads are, for every program, as long as EnOrden holds.     *)
(* The first part shows that Lugares is kept by every step while nobody    *)
(* queues again the thread that the scheduler is about to run              *)
(* (NadieLoEncola).  UnSoloLugar needs that a thread queued for the first  *)
(* time (encolar_en_ready without dequeuing it) is in no queue, no mutex   *)
(* and no handler: nobody has seen it yet.  The second part shows          *)
(* NadieLoEncola.  A thread that waits for a mutex, or whose IO or dump    *)
(* handler is at work, is tied to whoever will wake it up: it is BLOCKED,  *)
(* not by a join, and waits in one list, once (Atados).  The last section  *)
(* is about the partitions of memoria, and uses where the threads are.     *)
(***************************************************************************)
EXTENDS KernelProofs, FiniteSetTheorems

EnColas == ToSet(cola_ready) \cup ToSet(cola_blocked) \cup ({hilo_en_exec} \ {NULO})

Elegidos == {h \in Hilos : pc[CP] = "saca" /\ loc[CP].hilo = h}

Atendidos == {h \in Hilos : pc[h] # "no"}

Esperan ==
    {h \in Hilos : \E p \in Pids : \E k \in DOMAIN mutex[p] : h \in ToSet(mutex[p][k].hilos)}

\* Wherever an actor may find the TCB of a thread and queue it.
Ocupados == EnColas \cup Elegidos \cup Atendidos \cup Esperan

\* Created, its process admitted, known to memoria and queued once at least.
Visto(h) ==
    /\ h[2] < tid_contador[h[1]] /\ h[1] \notin ToSet(cola_new)
    /\ ~(pc[CP] = "crear_hilo" /\ loc[CP].hilo = h)

Admitiendo == pc[LP] \in {"crear_proceso", "responde"}

\* Which pids and tids have been given out.
Dados ==
    /\ \A p \in ToSet(procesos_en_sistema) : p < pid_counter /\ tid_contador[p] > 0
    /\ \A p \in ToSet(cola_new) : p < pid_counter /\ tid_contador[p] = 1
    /\ \A p \in Pids : p >= pid_counter => tid_contador[p] = 0

\* A process that waits in cola_new has its first thread, or lost it.
EnNew ==
    /\ SinDobles(cola_new)
    /\ \A p \in ToSet(cola_new) : ToSet(threads[p]) \subseteq {<<p, 0>>}
    /\ \A p \in Pids : p >= pid_counter => ToSet(threads[p]) = {}

LPAdmite == Admitiendo => loc[LP].hilo \in {NULO, <<loc[LP].proceso, 0>>}

Creando ==
    pc[CP] = "crear_hilo" /\ loc[CP].hilo # NULO =>
        LET h == loc[CP].hilo IN
        h[2] > 0 /\ h[2] < tid_contador[h[1]] /\ h[1] \notin ToSet(cola_new)

Eligiendo ==
    pc[CP] = "saca" => loc[CP].hilo \in Hilos /\ estado[loc[CP].hilo] = "READY"

Vistos == \A h \in Ocupados : Visto(h)

\* Nobody queues again the thread that the scheduler has taken from cola_ready
\* and is about to run (planificador_corto_plazo.c:33-41).
NadieLoEncola == pc[CP] = "saca" => loc[CP].hilo \notin ToSet(cola_ready)

\* Where the threads are, together with IInv and NadieLoEncola.
Lugares ==
    UnSoloLugar /\ Dados /\ EnNew /\ LPAdmite /\ Creando /\ Eligiendo /\ Vistos

-----------------------------------------------------------------------------
(* Moves between queues.                                                   *)

LEMMA LugarListas ==
    ASSUME TipoColas
    PROVE  /\ ToSet(cola_ready) \subseteq Hilos /\ ToSet(cola_blocked) \subseteq Hilos
           /\ EnColas \subseteq Hilos
           /\ UnSoloLugar <=>
                /\ SinDobles(cola_ready) /\ SinDobles(cola_blocked)
                /\ \A h \in ToSet(cola_ready) : estado[h] = "READY"
                /\ \A h \in ToSet(cola_blocked) : estado[h] = "BLOCKED"
                /\ hilo_en_exec # NULO => estado[hilo_en_exec] = "EXEC"
<1>1. ToSet(cola_ready) \subseteq Hilos /\ ToSet(cola_blocked) \subseteq Hilos
  BY ElementosDeLista DEF TipoColas
<1>2. EnColas \subseteq Hilos
  BY <1>1 DEF TipoColas, EnColas
<1> QED BY <1>1, <1>2, Zenon DEF UnSoloLugar, SinDobles

LEMMA LugarNuevo ==
    ASSUME SinDobles(cola_ready'), SinDobles(cola_blocked'),
           \A h \in ToSet(cola_ready') : estado'[h] = "READY",
           \A h \in ToSet(cola_blocked') : estado'[h] = "BLOCKED",
           hilo_en_exec' # NULO => estado'[hilo_en_exec'] = "EXEC"
    PROVE  UnSoloLugar'
  BY Zenon DEF UnSoloLugar, SinDobles

\* What desencolar_estado_actual(h) leaves.
LEMMA SinLugar ==
    ASSUME TipoColas, UnSoloLugar, NEW h \in Hilos
    PROVE  /\ SinDobles(ReadySin(h)) /\ ToSet(ReadySin(h)) = ToSet(cola_ready) \ {h}
           /\ SinDobles(BlockedSin(h))
           /\ ToSet(BlockedSin(h)) = ToSet(cola_blocked) \ {h}
           /\ ExecSin(h) \in {hilo_en_exec, NULO} /\ ExecSin(h) # h
<1>1. /\ SinDobles(cola_ready) /\ SinDobles(cola_blocked)
      /\ \A g \in ToSet(cola_ready) : estado[g] = "READY"
      /\ \A g \in ToSet(cola_blocked) : estado[g] = "BLOCKED"
      /\ hilo_en_exec # NULO => estado[hilo_en_exec] = "EXEC"
  BY LugarListas
<1>2. cola_ready \in Seq(Hilos) /\ cola_blocked \in Seq(Hilos)
  BY DEF TipoColas
<1>3. /\ SinDobles(RemoveFirst(cola_ready, h))
      /\ ToSet(RemoveFirst(cola_ready, h)) = ToSet(cola_ready) \ {h}
      /\ SinDobles(RemoveFirst(cola_blocked, h))
      /\ ToSet(RemoveFirst(cola_blocked, h)) = ToSet(cola_blocked) \ {h}
  BY <1>1, <1>2, QuitarElementoUnico
<1>4. SinDobles(ReadySin(h)) /\ ToSet(ReadySin(h)) = ToSet(cola_ready) \ {h}
  BY <1>1, <1>3 DEF ReadySin
<1>5. SinDobles(BlockedSin(h)) /\ ToSet(BlockedSin(h)) = ToSet(cola_blocked) \ {h}
  BY <1>1, <1>3 DEF BlockedSin
<1>6. ExecSin(h) \in {hilo_en_exec, NULO} /\ ExecSin(h) # h
  BY <1>1, ActoresDistintos DEF ExecSin
<1> QED BY <1>4, <1>5, <1>6

\* The queues gain nothing outside X, and a TCB keeps to one of them.
Mueve(X) == UnSoloLugar' /\ EnColas' \subseteq EnColas \cup X

\* No TCB becomes EXEC or BLOCKED.
SinEjecutar == \A h \in Hilos : estado'[h] \in {estado[h], "READY"}

LEMMA MueveNada ==
    ASSUME UnSoloLugar, UNCHANGED <<cola_ready, cola_blocked, hilo_en_exec, estado>>
    PROVE  Mueve({}) /\ SinEjecutar
  BY DEF UnSoloLugar, Mueve, EnColas, SinEjecutar

LEMMA MueveDesencolar ==
    ASSUME TipoColas, TipoColas', UnSoloLugar, NEW h \in Hilos, Desencolar(h)
    PROVE  Mueve({}) /\ SinEjecutar
<1>1. /\ cola_ready' = ReadySin(h) /\ cola_blocked' = BlockedSin(h)
      /\ hilo_en_exec' = ExecSin(h) /\ estado' = estado
  BY DEF Desencolar
<1>2. /\ SinDobles(cola_ready') /\ ToSet(cola_ready') = ToSet(cola_ready) \ {h}
      /\ SinDobles(cola_blocked') /\ ToSet(cola_blocked') = ToSet(cola_blocked) \ {h}
      /\ hilo_en_exec' \in {hilo_en_exec, NULO}
  BY <1>1, SinLugar
<1>3. UnSoloLugar'
  BY <1>1, <1>2, LugarListas, LugarNuevo
<1> QED BY <1>1, <1>2, <1>3 DEF Mueve, SinEjecutar, EnColas

LEMMA MueveAReady ==
    ASSUME TipoColas, TipoColas', UnSoloLugar, NEW h \in Hilos, PasarAReady(h)
    PROVE  Mueve({h}) /\ SinEjecutar
<1>1. /\ cola_ready' = Append(ReadySin(h), h) /\ cola_blocked' = BlockedSin(h)
      /\ hilo_en_exec' = ExecSin(h) /\ estado' = [estado EXCEPT ![h] = "READY"]
  BY DEF PasarAReady
<1>2. /\ SinDobles(ReadySin(h)) /\ ToSet(ReadySin(h)) = ToSet(cola_ready) \ {h}
      /\ SinDobles(cola_blocked') /\ ToSet(cola_blocked') = ToSet(cola_blocked) \ {h}
      /\ hilo_en_exec' \in {hilo_en_exec, NULO} /\ hilo_en_exec' # h
      /\ ReadySin(h) \in Seq(Hilos)
  BY <1>1, SinLugar, SinTipo
<1>3. SinDobles(cola_ready') /\ ToSet(cola_ready') = ToSet(cola_ready) \cup {h}
  BY <1>1, <1>2, AgregarElemento
<1>4. \A g \in Hilos : estado'[g] = IF g = h THEN "READY" ELSE estado[g]
  BY <1>1 DEF TipoColas
<1>5. UnSoloLugar'
  BY <1>2, <1>3, <1>4, LugarListas, LugarNuevo DEF TipoColas
<1> QED BY <1>2, <1>3, <1>4, <1>5 DEF Mueve, SinEjecutar, EnColas

LEMMA MueveABlocked ==
    ASSUME TipoColas, TipoColas', UnSoloLugar, NEW h \in Hilos, NEW m,
           PasarABlocked(h, m)
    PROVE  Mueve({h})
<1>1. /\ cola_ready' = ReadySin(h) /\ cola_blocked' = Append(BlockedSin(h), h)
      /\ hilo_en_exec' = ExecSin(h) /\ estado' = [estado EXCEPT ![h] = "BLOCKED"]
  BY DEF PasarABlocked
<1>2. /\ SinDobles(cola_ready') /\ ToSet(cola_ready') = ToSet(cola_ready) \ {h}
      /\ SinDobles(BlockedSin(h)) /\ ToSet(BlockedSin(h)) = ToSet(cola_blocked) \ {h}
      /\ hilo_en_exec' \in {hilo_en_exec, NULO} /\ hilo_en_exec' # h
      /\ BlockedSin(h) \in Seq(Hilos)
  BY <1>1, SinLugar, SinTipo
<1>3. SinDobles(cola_blocked') /\ ToSet(cola_blocked') = ToSet(cola_blocked) \cup {h}
  BY <1>1, <1>2, AgregarElemento
<1>4. \A g \in Hilos : estado'[g] = IF g = h THEN "BLOCKED" ELSE estado[g]
  BY <1>1 DEF TipoColas
<1>5. UnSoloLugar'
  BY <1>2, <1>3, <1>4, LugarListas, LugarNuevo DEF TipoColas
<1> QED BY <1>2, <1>3, <1>4, <1>5 DEF Mueve, EnColas

\* encolar_en_ready on its own needs a thread that is in no queue.
LEMMA MueveEncolar ==
    ASSUME TipoColas, TipoColas', UnSoloLugar, NEW h \in Hilos, EncolarEnReady(h),
           h \notin EnColas
    PROVE  Mueve({h}) /\ SinEjecutar
<1>1. /\ cola_ready' = Append(cola_ready, h) /\ cola_blocked' = cola_blocked
      /\ hilo_en_exec' = hilo_en_exec /\ estado' = [estado EXCEPT ![h] = "READY"]
  BY DEF EncolarEnReady
<1>2. SinDobles(cola_ready) /\ h \notin ToSet(cola_ready) /\ cola_ready \in Seq(Hilos)
  BY LugarListas DEF EnColas, TipoColas
<1>3. SinDobles(cola_ready') /\ ToSet(cola_ready') = ToSet(cola_ready) \cup {h}
  BY <1>1, <1>2, AgregarElemento
<1>4. \A g \in Hilos : estado'[g] = IF g = h THEN "READY" ELSE estado[g]
  BY <1>1 DEF TipoColas
<1>5. h \notin ToSet(cola_blocked) /\ hilo_en_exec # h
  BY ActoresDistintos DEF EnColas
<1>6. UnSoloLugar'
  BY <1>1, <1>3, <1>4, <1>5, LugarListas, LugarNuevo DEF TipoColas
<1> QED BY <1>1, <1>3, <1>4, <1>6 DEF Mueve, SinEjecutar, EnColas

-----------------------------------------------------------------------------
(* What a step of one actor keeps.                                         *)

\* No process and no thread is created.
NoCrea ==
    /\ UNCHANGED creados
    /\ ToSet(procesos_en_sistema') \subseteq ToSet(procesos_en_sistema)
    /\ \A p \in Pids : ToSet(threads'[p]) \subseteq ToSet(threads[p])
    /\ SinDobles(cola_new') /\ ToSet(cola_new') \subseteq ToSet(cola_new)

\* CP neither takes a thread from cola_ready nor creates one.
CPSigue ==
    pc'[CP] \in {"saca", "crear_hilo"} =>
        pc'[CP] = pc[CP] /\ loc'[CP].hilo = loc[CP].hilo /\ SinEjecutar

LPSigue == Admitiendo' => Admitiendo /\ loc'[LP] = loc[LP]

SoloMueve(a) == \A b \in Actores \ {a} : pc'[b] = pc[b] /\ loc'[b] = loc[b]

LEMMA NoCreaNada ==
    ASSUME Lugares, UNCHANGED <<creados, procesos, cola_new>>
    PROVE  NoCrea
  BY DEF Lugares, EnNew, NoCrea, procesos

LEMMA DadosSiguen ==
    ASSUME IInv, Lugares, NoCrea
    PROVE  Dados' /\ EnNew'
<1>1. pid_counter' = pid_counter /\ tid_contador' = tid_contador
  BY DEF NoCrea, creados
<1>2. Dados'
  BY <1>1 DEF Lugares, Dados, NoCrea
<1>3. ToSet(cola_new) \subseteq Pids
  BY ElementosDeLista DEF IInv, TypeOK, TipoNuevos
<1>4. EnNew'
  BY <1>1, <1>3 DEF Lugares, EnNew, NoCrea
<1> QED BY <1>2, <1>4

VistosYa(X) == \A h \in X : Visto(h)'

\* Whatever the step puts somewhere, it had been seen or is seen from now on.
LEMMA LugaresSiguen ==
    ASSUME IInv, Lugares, NoCrea, UnSoloLugar', LPAdmite', Creando', Eligiendo',
           pc'[CP] = "crear_hilo" => pc[CP] = "crear_hilo" /\ loc'[CP].hilo = loc[CP].hilo,
           NEW X, Ocupados' \subseteq Ocupados \cup X, VistosYa(X)
    PROVE  Lugares'
<1>1. Dados' /\ EnNew'
  BY DadosSiguen
<1>2. ASSUME NEW h, Visto(h) PROVE Visto(h)'
  BY <1>2 DEF Visto, NoCrea, creados
<1>3. Vistos'
  BY <1>2, Zenon DEF Lugares, Vistos, VistosYa
<1> QED BY <1>1, <1>3 DEF Lugares

LEMMA PasoNormal ==
    ASSUME IInv, Lugares, NoCrea, CPSigue, LPSigue, NEW X, Mueve(X), X \subseteq Ocupados,
           Atendidos' \subseteq Ocupados, Esperan' \subseteq Ocupados
    PROVE  Lugares'
<1>1. pc'[CP] = "crear_hilo" => pc[CP] = "crear_hilo" /\ loc'[CP].hilo = loc[CP].hilo
  BY DEF CPSigue
<1>2. LPAdmite'
  BY DEF Lugares, LPAdmite, LPSigue
<1>3. Creando'
  BY <1>1 DEF Lugares, Creando, NoCrea, creados
<1>4. Eligiendo'
  BY DEF Lugares, Eligiendo, CPSigue, SinEjecutar
<1>5. Elegidos' \subseteq Elegidos
  BY DEF Elegidos, CPSigue
<1>6. Ocupados' \subseteq Ocupados \cup {}
  BY <1>5 DEF Ocupados, Mueve
<1>7. UnSoloLugar'
  BY DEF Mueve
<1>8. VistosYa({})
  BY DEF VistosYa
<1> QED BY <1>1, <1>2, <1>3, <1>4, <1>6, <1>7, <1>8, LugaresSiguen, Zenon

LEMMA PasoDeActor ==
    ASSUME IInv, Lugares, NEW a \in Actores, SoloMueve(a), pc[a] # "no",
           pc'[a] \notin {"saca", "crear_hilo", "crear_proceso", "responde"},
           a = CP \/ SinEjecutar, NoCrea,
           NEW X, Mueve(X), X \subseteq Ocupados, Esperan' \subseteq Ocupados
    PROVE  Lugares'
<1>1. CPSigue
  BY ActoresDistintos DEF CPSigue, SoloMueve
<1>2. LPSigue
  BY ActoresDistintos DEF LPSigue, SoloMueve, Admitiendo
<1>3. Atendidos' \subseteq Ocupados
  BY ActoresDistintos DEF Atendidos, Ocupados, SoloMueve
<1> QED BY <1>1, <1>2, <1>3, PasoNormal

LEMMA SoloVa ==
    ASSUME IInv, NEW a \in Actores, NEW e, Va(a, e),
           UNCHANGED loc \/ \E l : loc' = [loc EXCEPT ![a] = l]
    PROVE  SoloMueve(a) /\ pc'[a] = e
  BY DEF Va, SoloMueve, IInv, TypeOK, TipoActores

LEMMA SoloLoc ==
    ASSUME IInv, NEW a \in Actores, NEW l, loc' = [loc EXCEPT ![a] = l], UNCHANGED pc
    PROVE  SoloMueve(a) /\ pc'[a] = pc[a]
  BY DEF SoloMueve, IInv, TypeOK, TipoActores

-----------------------------------------------------------------------------
(* Who waits for a mutex.                                                  *)

LEMMA EsperanIgual ==
    ASSUME UNCHANGED mutex
    PROVE  Esperan' \subseteq Ocupados
  BY DEF Esperan, Ocupados

LEMMA EsperanCambia ==
    ASSUME TipoProcesos, NEW p \in Pids, NEW k \in DOMAIN mutex[p], NEW r \in Mutexes,
           mutex' = [mutex EXCEPT ![p] = [@ EXCEPT ![k] = r]],
           ToSet(r.hilos) \subseteq Ocupados
    PROVE  Esperan' \subseteq Ocupados
<1>1. /\ mutex'[p] = [mutex[p] EXCEPT ![k] = r]
      /\ \A q \in Pids : q # p => mutex'[q] = mutex[q]
  BY DEF TipoProcesos
<1>2. /\ DOMAIN mutex'[p] = DOMAIN mutex[p] /\ mutex'[p][k] = r
      /\ \A m \in DOMAIN mutex[p] : m # k => mutex'[p][m] = mutex[p][m]
  BY <1>1
<1> QED BY <1>1, <1>2 DEF Esperan, Ocupados

LEMMA EsperanDeMutex ==
    ASSUME TipoProcesos, NEW p \in Pids, NEW k \in DOMAIN mutex[p]
    PROVE  /\ ToSet(mutex[p][k].hilos) \subseteq Ocupados
           /\ mutex[p][k].hilos # <<>> => mutex[p][k].hilos[1] \in Ocupados
<1>1. mutex[p][k].hilos \in Seq(Hilos)
  BY MutexTipo
<1>2. ToSet(mutex[p][k].hilos) \subseteq Hilos
  BY <1>1, ElementosDeLista
<1>3. mutex[p][k].hilos # <<>> => mutex[p][k].hilos[1] \in ToSet(mutex[p][k].hilos)
  BY <1>1, LenProperties, EmptySeq DEF ToSet
<1>4. ToSet(mutex[p][k].hilos) \subseteq Esperan
  BY <1>2 DEF Esperan
<1> QED BY <1>3, <1>4 DEF Ocupados

-----------------------------------------------------------------------------
(* Short-term scheduler.                                                   *)

LEMMA NoCreaIgual ==
    ASSUME Lugares, UNCHANGED <<creados, procesos, nuevos, mutex>>
    PROVE  NoCrea /\ Esperan' \subseteq Ocupados
  BY NoCreaNada, EsperanIgual DEF nuevos

LEMMA EnExecOcupado ==
    ASSUME hilo_en_exec # NULO
    PROVE  {hilo_en_exec} \subseteq Ocupados
  BY DEF EnColas, Ocupados

LEMMA EsperaReadyLugares ==
    ASSUME IInv, Lugares, EsperaReady, UNCHANGED <<creados, procesos, nuevos>>
    PROVE  Lugares'
<1>1. SoloMueve(CP) /\ pc'[CP] = "hay_ready" /\ pc[CP] = "sem_ready"
  BY SoloVa, ActoresDistintos DEF EsperaReady, EnPaso
<1>2. Mueve({})
  BY MueveNada DEF EsperaReady, Lugares
<1>3. NoCrea /\ Esperan' \subseteq Ocupados
  BY NoCreaIgual DEF procesos
<1> QED BY <1>1, <1>2, <1>3, PasoDeActor, ActoresDistintos

LEMMA MiraReady ==
    ASSUME IInv, HayReady
    PROVE  /\ SoloMueve(CP) /\ pc[CP] = "hay_ready" /\ pc'[CP] \in {"sem_ready", "planifica"}
           /\ fallo = "ninguno" /\ UNCHANGED <<colas, quantum, loc>>
<1> DEFINE e == IF cola_ready = <<>> THEN "sem_ready" ELSE "planifica"
<1>1. /\ Va(CP, e) /\ UNCHANGED <<colas, quantum, loc>>
      /\ pc[CP] = "hay_ready" /\ fallo = "ninguno"
  BY DEF HayReady, EnPaso
<1>2. e \in {"sem_ready", "planifica"}
  OBVIOUS
<1> HIDE DEF e
<1> QED BY <1>1, <1>2, SoloVa, ActoresDistintos

LEMMA HayReadyLugares ==
    ASSUME IInv, Lugares, HayReady, UNCHANGED <<creados, procesos, nuevos>>
    PROVE  Lugares'
<1>1. Mueve({})
  BY MiraReady, MueveNada DEF colas, Lugares
<1>2. NoCrea /\ Esperan' \subseteq Ocupados
  BY NoCreaIgual DEF procesos
<1> QED BY <1>1, <1>2, MiraReady, PasoDeActor, ActoresDistintos

\* The thread taken is in no queue, and it was in cola_ready.
LEMMA PlanificarLugares ==
    ASSUME IInv, IInv', Lugares, Planificar, UNCHANGED <<creados, procesos, nuevos>>
    PROVE  Lugares'
<1>1. NoCrea /\ Esperan' \subseteq Ocupados
  BY NoCreaIgual DEF procesos
<1>2. UNCHANGED <<cola_blocked, hilo_en_exec, estado>> /\ pc[CP] = "planifica"
  BY DEF Planificar, EnPaso
<1>3. cola_ready # <<>>
  BY HayQuien
<1> DEFINE k == IF Algoritmo = "FIFO" THEN 1 ELSE MayorPrioridad
           h == cola_ready[k]
<1>4. /\ loc' = [loc EXCEPT ![CP].hilo = h] /\ cola_ready' = RemoveAt(cola_ready, k)
      /\ Va(CP, "saca")
  BY <1>3 DEF Planificar
<1>5. cola_ready \in Seq(Hilos) /\ Len(cola_ready) \in Nat \ {0}
  BY <1>3, LenProperties, EmptySeq DEF IInv, TypeOK, TipoColas
<1>6. k \in 1..Len(cola_ready)
  BY <1>3, <1>5, MayorPrioridadTipo
<1> HIDE DEF k
<1>7. h \in ToSet(cola_ready) /\ h \in Hilos
  BY <1>5, <1>6, ElementOfSeq, LenProperties DEF ToSet
<1>8. /\ SinDobles(cola_ready') /\ ToSet(cola_ready') = ToSet(cola_ready) \ {h}
  BY <1>4, <1>5, <1>6, QuitarPosicionUnica, LugarListas DEF Lugares, IInv, TypeOK
<1> HIDE DEF h
<1>9. UnSoloLugar' /\ estado[h] = "READY" /\ EnColas' \subseteq EnColas
  <2>1. /\ SinDobles(cola_blocked)
        /\ \A g \in ToSet(cola_ready) : estado[g] = "READY"
        /\ \A g \in ToSet(cola_blocked) : estado[g] = "BLOCKED"
        /\ hilo_en_exec # NULO => estado[hilo_en_exec] = "EXEC"
    BY LugarListas DEF Lugares, IInv, TypeOK
  <2>2. UnSoloLugar'
    BY <1>2, <1>8, <2>1, LugarNuevo
  <2> QED BY <1>2, <1>7, <1>8, <2>1, <2>2 DEF EnColas
<1>10. SoloMueve(CP) /\ pc'[CP] = "saca"
  BY <1>4, SoloVa, ActoresDistintos
<1>11. loc'[CP].hilo = h
  BY <1>4, ActoresDistintos DEF IInv, TypeOK, TipoActores, Locales
<1>12. LPAdmite' /\ Creando' /\ Eligiendo'
  BY <1>2, <1>7, <1>9, <1>10, <1>11, ActoresDistintos
  DEF Lugares, LPAdmite, Admitiendo, Creando, Eligiendo, SoloMueve
<1>13. Ocupados' \subseteq Ocupados
  <2>1. Elegidos' \subseteq ToSet(cola_ready)
    BY <1>7, <1>11 DEF Elegidos
  <2>2. Atendidos' \subseteq Atendidos
    BY <1>10, ActoresDistintos DEF Atendidos, SoloMueve
  <2> QED BY <1>1, <1>9, <2>1, <2>2 DEF Ocupados, EnColas
<1>14. Ocupados' \subseteq Ocupados \cup {} /\ VistosYa({})
  BY <1>13 DEF VistosYa
<1>15. pc'[CP] # "crear_hilo"
  BY <1>10
<1> QED BY <1>1, <1>9, <1>12, <1>14, <1>15, LugaresSiguen, Zenon

\* Nobody has queued it meanwhile.
LEMMA PonerEnExecLugares ==
    ASSUME IInv, IInv', Lugares, NadieLoEncola, PonerEnExec,
           UNCHANGED <<creados, procesos, nuevos>>
    PROVE  Lugares'
<1> DEFINE h == loc[CP].hilo
<1>1. NoCrea /\ Esperan' \subseteq Ocupados
  BY NoCreaIgual DEF procesos
<1>2. /\ pc[CP] = "saca" /\ hilo_en_exec' = h /\ UNCHANGED <<cola_ready, cola_blocked, loc>>
      /\ estado' = [estado EXCEPT ![h] = "EXEC"]
      /\ SoloMueve(CP) /\ pc'[CP] = "cambio"
  BY SoloVa, ActoresDistintos DEF PonerEnExec, EnPaso
<1>3. h \in Hilos /\ estado[h] = "READY" /\ h \notin ToSet(cola_ready)
  BY <1>2 DEF Lugares, Eligiendo, NadieLoEncola
<1>4. \A g \in Hilos : estado'[g] = IF g = h THEN "EXEC" ELSE estado[g]
  BY <1>2 DEF IInv, TypeOK, TipoColas
<1>5. /\ SinDobles(cola_ready) /\ SinDobles(cola_blocked)
      /\ \A g \in ToSet(cola_ready) : estado[g] = "READY"
      /\ \A g \in ToSet(cola_blocked) : estado[g] = "BLOCKED"
      /\ ToSet(cola_ready) \subseteq Hilos /\ ToSet(cola_blocked) \subseteq Hilos
  BY LugarListas DEF Lugares, IInv, TypeOK
<1> HIDE DEF h
<1>6. UnSoloLugar'
  BY <1>2, <1>3, <1>4, <1>5, LugarNuevo
<1>7. Mueve({h})
  BY <1>2, <1>6 DEF Mueve, EnColas
<1>8. {h} \subseteq Ocupados
  BY <1>2, <1>3 DEF Ocupados, Elegidos, h
<1> QED BY <1>1, <1>2, <1>7, <1>8, PasoDeActor, ActoresDistintos

LEMMA EjecutarHiloLugares ==
    ASSUME IInv, IInv', Lugares, EjecutarHilo, UNCHANGED <<creados, procesos, nuevos>>
    PROVE  Lugares'
<1>1. NoCrea /\ Esperan' \subseteq Ocupados
  BY NoCreaIgual DEF procesos
<1>2. hilo_en_exec \in Hilos /\ pc[CP] = "cambio"
  BY PunteroExec DEF IInv, EjecutarHilo, EnPaso
<1>3. {hilo_en_exec} \subseteq Ocupados
  BY <1>2, EnExecOcupado, ActoresDistintos
<1>4. /\ SoloMueve(CP) /\ pc'[CP] \in {"fin", "cpu"}
      /\ PasarAReady(hilo_en_exec) \/ UNCHANGED colas
  BY SoloVa, ActoresDistintos DEF EjecutarHilo
<1>5. CASE PasarAReady(hilo_en_exec)
  <2>1. Mueve({hilo_en_exec})
    BY <1>2, <1>5, MueveAReady DEF Lugares, IInv, TypeOK
  <2> QED BY <1>1, <1>2, <1>3, <1>4, <2>1, PasoDeActor, ActoresDistintos
<1>6. CASE UNCHANGED colas
  <2>1. Mueve({})
    BY <1>6, MueveNada DEF Lugares, colas
  <2> QED BY <1>1, <1>2, <1>4, <2>1, PasoDeActor, ActoresDistintos
<1> QED BY <1>4, <1>5, <1>6

LEMMA FinEjecucionLugares ==
    ASSUME IInv, IInv', Lugares, FinEjecucion, UNCHANGED <<creados, procesos, nuevos>>
    PROVE  Lugares'
<1>1. NoCrea /\ Esperan' \subseteq Ocupados
  BY NoCreaIgual DEF procesos
<1>2. SoloMueve(CP) /\ pc'[CP] = "join_rr" /\ pc[CP] = "fin"
  BY SoloVa, ActoresDistintos DEF FinEjecucion, EnPaso
<1>3. Mueve({})
  BY DEF FinEjecucion, Mueve, EnColas, Lugares, UnSoloLugar
<1> QED BY <1>1, <1>2, <1>3, PasoDeActor, ActoresDistintos

LEMMA EsperarQuantumLugares ==
    ASSUME IInv, Lugares, EsperarQuantum, UNCHANGED <<creados, procesos, nuevos>>
    PROVE  Lugares'
<1>1. NoCrea /\ Esperan' \subseteq Ocupados
  BY NoCreaIgual DEF procesos
<1>2. SoloMueve(CP) /\ pc'[CP] = "sem_ready" /\ pc[CP] = "join_rr"
  BY SoloVa, ActoresDistintos DEF EsperarQuantum, EnPaso
<1>3. Mueve({})
  BY MueveNada DEF EsperarQuantum, Lugares, colas
<1> QED BY <1>1, <1>2, <1>3, PasoDeActor, ActoresDistintos

LEMMA InterrupcionLugares ==
    ASSUME IInv, IInv', Lugares, Interrupcion, UNCHANGED <<creados, procesos, nuevos>>
    PROVE  Lugares'
<1>1. NoCrea /\ Esperan' \subseteq Ocupados
  BY NoCreaIgual DEF procesos
<1>2. hilo_en_exec \in Hilos /\ pc[CP] = "cpu"
  BY PunteroExec DEF IInv, Interrupcion, CPUContesta, EnPaso
<1>3. {hilo_en_exec} \subseteq Ocupados
  BY <1>2, EnExecOcupado, ActoresDistintos
<1>4. SoloMueve(CP) /\ pc'[CP] = "fin" /\ PasarAReady(hilo_en_exec)
  BY SoloVa, ActoresDistintos DEF Interrupcion
<1>5. Mueve({hilo_en_exec})
  BY <1>2, <1>4, MueveAReady DEF Lugares, IInv, TypeOK
<1> QED BY <1>1, <1>2, <1>3, <1>4, <1>5, PasoDeActor, ActoresDistintos

-----------------------------------------------------------------------------
(* System calls.                                                           *)

\* The handlers that detach a thread of their own for the one they block.
LEMMA DetachLugares ==
    ASSUME IInv, IInv', Lugares, EnSyscall, NEW m, PasarABlocked(hilo_en_exec, m),
           NEW e \in {"dump", "io_espera"},
           pc' = [pc EXCEPT ![CP] = "fin", ![hilo_en_exec] = e],
           loc' = [loc EXCEPT ![hilo_en_exec].hilo = hilo_en_exec],
           UNCHANGED <<creados, procesos, nuevos>>
    PROVE  Lugares'
<1> DEFINE h == hilo_en_exec
<1>1. NoCrea /\ Esperan' \subseteq Ocupados
  BY NoCreaIgual DEF procesos
<1>2. h \in Hilos /\ pc[CP] = "cpu" /\ {h} \subseteq Ocupados
  BY EnExecOcupado, ActoresDistintos DEF EnSyscall
<1>3. Mueve({h})
  BY <1>2, MueveABlocked DEF Lugares, IInv, TypeOK
<1>4. /\ pc'[CP] = "fin" /\ \A b \in Actores \ {CP, h} : pc'[b] = pc[b]
      /\ \A b \in Actores \ {h} : loc'[b] = loc[b]
  BY <1>2, ActoresDistintos DEF IInv, TypeOK, TipoActores
<1>5. CPSigue /\ LPSigue
  BY <1>2, <1>4, ActoresDistintos DEF CPSigue, LPSigue, Admitiendo
<1>6. Atendidos' \subseteq Atendidos \cup {h}
  BY <1>4, ActoresDistintos DEF Atendidos
<1>7. Atendidos' \subseteq Ocupados
  BY <1>2, <1>6 DEF Ocupados
<1> QED BY <1>1, <1>2, <1>3, <1>5, <1>7, PasoNormal

LEMMA ThreadJoinLugares ==
    ASSUME IInv, IInv', Lugares, EnSyscall, NEW s, ThreadJoin(s)
    PROVE  Lugares'
<1>1. /\ NoCrea /\ Esperan' \subseteq Ocupados
      /\ hilo_en_exec \in Hilos /\ pc[CP] = "cpu" /\ {hilo_en_exec} \subseteq Ocupados
  BY NoCreaIgual, EnExecOcupado, ActoresDistintos DEF EnSyscall, ThreadJoin, procesos
<1>2. /\ UNCHANGED loc
      /\ Va(CP, "fin") \/ Va(CP, "cambio")
      /\ PasarABlocked(hilo_en_exec, "THREAD_JOIN") \/ UNCHANGED colas
  BY Zenon DEF ThreadJoin
<1>3. SoloMueve(CP) /\ pc'[CP] \in {"fin", "cambio"}
  BY <1>2, SoloVa, ActoresDistintos
<1>4. CASE PasarABlocked(hilo_en_exec, "THREAD_JOIN")
  <2>1. Mueve({hilo_en_exec})
    BY <1>1, <1>4, MueveABlocked DEF Lugares, IInv, TypeOK
  <2> QED BY <1>1, <1>3, <2>1, PasoDeActor, ActoresDistintos
<1>5. CASE UNCHANGED colas
  <2>1. Mueve({})
    BY <1>5, MueveNada DEF Lugares, colas
  <2> QED BY <1>1, <1>3, <2>1, PasoDeActor, ActoresDistintos
<1> QED BY <1>2, <1>4, <1>5

LEMMA ThreadCancelLugares ==
    ASSUME IInv, IInv', Lugares, EnSyscall, NEW s, ThreadCancel(s)
    PROVE  Lugares'
<1> DEFINE c == BuscarHilo(BuscarProceso(hilo_en_exec[1]), s.tid)
<1>1. /\ NoCrea /\ Esperan' \subseteq Ocupados
      /\ c \in Hilos \cup {NULO} /\ pc[CP] = "cpu"
  BY NoCreaIgual, BuscarHiloTipo DEF EnSyscall, ThreadCancel, procesos, IInv, TypeOK
<1>2. SoloMueve(CP) /\ pc'[CP] \in {"fin", "cancela"}
  BY SoloVa, ActoresDistintos DEF ThreadCancel
<1>3. Mueve({})
  <2>1. CASE c # NULO
    <3>1. Desencolar(c) /\ c \in Hilos
      BY <1>1, <2>1 DEF ThreadCancel
    <3> QED BY <3>1, MueveDesencolar DEF Lugares, IInv, TypeOK
  <2>2. CASE c = NULO
    <3>1. UNCHANGED colas
      BY <2>2 DEF ThreadCancel
    <3> QED BY <3>1, MueveNada DEF Lugares, colas
  <2> QED BY <2>1, <2>2
<1> QED BY <1>1, <1>2, <1>3, PasoDeActor, ActoresDistintos

LEMMA MutexCreateLugares ==
    ASSUME IInv, IInv', Lugares, EnSyscall, NEW s, MutexCreate(s)
    PROVE  Lugares'
<1> DEFINE p == BuscarProceso(hilo_en_exec[1])
           r == [nombre |-> s.recurso, owner |-> Nadie, hilos |-> <<>>]
<1>1. NoCrea
  BY DEF MutexCreate, NoCrea, Lugares, EnNew, nuevos
<1>2. SoloMueve(CP) /\ pc'[CP] = "cambio" /\ pc[CP] = "cpu"
  BY SoloVa, ActoresDistintos DEF MutexCreate, EnSyscall
<1>3. Mueve({})
  BY MueveNada DEF MutexCreate, Lugares, colas
<1>4. Esperan' \subseteq Ocupados
  <2>1. mutex' = [mutex EXCEPT ![p] = Append(@, r)] /\ p \in Pids
    BY DEF MutexCreate, EnSyscall
  <2>2. ToSet(r.hilos) = {}
    BY EmptySeq DEF ToSet
  <2> HIDE DEF p, r
  <2>3. mutex[p] \in Seq(Mutexes) /\ mutex \in [Pids -> Seq(Mutexes)]
    BY <2>1 DEF IInv, TypeOK, TipoProcesos
  <2>4. /\ mutex'[p] = Append(mutex[p], r)
        /\ \A q \in Pids : q # p => mutex'[q] = mutex[q]
    BY <2>1, <2>3, Zenon
  <2>5. \A k \in DOMAIN mutex'[p] :
            mutex'[p][k] = r \/ (k \in DOMAIN mutex[p] /\ mutex'[p][k] = mutex[p][k])
    <3>1. /\ DOMAIN mutex'[p] = 1..(Len(mutex[p]) + 1) /\ mutex'[p][Len(mutex[p]) + 1] = r
          /\ \A k \in 1..Len(mutex[p]) : mutex'[p][k] = mutex[p][k]
          /\ DOMAIN mutex[p] = 1..Len(mutex[p]) /\ Len(mutex[p]) \in Nat
      <4>1. r \in Mutexes \cup {r} /\ mutex[p] \in Seq(Mutexes \cup {r})
        BY <2>3
      <4> QED BY <2>4, <4>1, AppendProperties, LenProperties
    <3> QED BY <3>1
  <2> QED BY <2>2, <2>4, <2>5 DEF Esperan, Ocupados
<1> QED BY <1>2, <1>1, <1>3, <1>4, PasoDeActor, ActoresDistintos

LEMMA MutexLockLugares ==
    ASSUME IInv, IInv', Lugares, EnSyscall, NEW s, MutexLock(s)
    PROVE  Lugares'
<1> DEFINE h == hilo_en_exec
           p == BuscarProceso(h[1])
           k == BuscarRecurso(p, s.recurso)
<1>1. /\ TipoProcesos /\ h \in Hilos /\ h[2] \in Tids /\ p \in Pids /\ pc[CP] = "cpu"
      /\ {h} \subseteq Ocupados
  BY Pares, EnExecOcupado, ActoresDistintos DEF EnSyscall, IInv, TypeOK
<1>2. NoCrea
  BY DEF MutexLock, Libre, NoCrea, Lugares, EnNew, nuevos
<1>3. SoloMueve(CP) /\ pc'[CP] \in {"fin", "cambio"}
  BY SoloVa, ActoresDistintos DEF MutexLock, Libre
<1>4. k # 0 => /\ k \in DOMAIN mutex[p] /\ mutex[p][k] \in Mutexes
               /\ mutex[p][k].hilos \in Seq(Hilos)
               /\ ToSet(mutex[p][k].hilos) \subseteq Ocupados
  BY <1>1, BuscarRecursoTipo, MutexTipo, EsperanDeMutex
<1>5. UNCHANGED mutex => Esperan' \subseteq Ocupados
  BY EsperanIgual
<1>6. UNCHANGED colas => Mueve({})
  BY MueveNada DEF Lugares, colas
<1>7. CASE k = 0 /\ UNCHANGED <<colas, mutex>>
  BY <1>1, <1>2, <1>3, <1>5, <1>6, <1>7, PasoDeActor, ActoresDistintos
<1>8. CASE /\ k # 0 /\ UNCHANGED colas
           /\ mutex' = [mutex EXCEPT ![p][k].owner = h[2]]
  <2> DEFINE r == [mutex[p][k] EXCEPT !.owner = h[2]]
  <2>1. r \in Mutexes /\ r.hilos = mutex[p][k].hilos
    BY <1>1, <1>4, <1>8 DEF Mutexes
  <2>2. mutex' = [mutex EXCEPT ![p] = [@ EXCEPT ![k] = r]]
    BY <1>8
  <2> HIDE DEF r, p, k
  <2>3. Esperan' \subseteq Ocupados
    <3>1. ToSet(r.hilos) \subseteq Ocupados /\ k \in DOMAIN mutex[p]
      BY <1>4, <1>8, <2>1
    <3> QED BY <1>1, <2>1, <2>2, <3>1, EsperanCambia
  <2> QED BY <1>1, <1>2, <1>3, <1>6, <1>8, <2>3, PasoDeActor, ActoresDistintos
<1>9. CASE /\ k # 0 /\ PasarABlocked(h, "MUTEX")
           /\ mutex' = [mutex EXCEPT ![p][k].hilos = Append(@, h)]
  <2> DEFINE r == [mutex[p][k] EXCEPT !.hilos = Append(@, h)]
  <2>1. Append(mutex[p][k].hilos, h) \in Seq(Hilos)
    BY <1>1, <1>4, <1>9, AppendProperties
  <2>2. r \in Mutexes /\ r.hilos = Append(mutex[p][k].hilos, h)
    BY <2>1, <1>4, <1>9 DEF Mutexes
  <2>3. mutex' = [mutex EXCEPT ![p] = [@ EXCEPT ![k] = r]]
    BY <1>9
  <2> HIDE DEF r, p, k
  <2>4. ToSet(r.hilos) \subseteq Ocupados
    BY <1>1, <1>4, <1>9, <2>2, AgregarElemento
  <2>5. Esperan' \subseteq Ocupados
    BY <1>1, <1>4, <1>9, <2>2, <2>3, <2>4, EsperanCambia
  <2>6. Mueve({h})
    BY <1>1, <1>9, MueveABlocked DEF Lugares, IInv, TypeOK
  <2> QED BY <1>1, <1>2, <1>3, <2>5, <2>6, PasoDeActor, ActoresDistintos
<1> QED BY <1>7, <1>8, <1>9, Zenon DEF MutexLock

LEMMA MutexUnlockLugares ==
    ASSUME IInv, IInv', Lugares, EnSyscall, NEW s, MutexUnlock(s)
    PROVE  Lugares'
<1> DEFINE h == hilo_en_exec
           p == BuscarProceso(h[1])
           k == BuscarRecurso(p, s.recurso)
           n == mutex[p][k].hilos[1]
<1>1. TipoProcesos /\ p \in Pids /\ pc[CP] = "cpu"
  BY DEF EnSyscall, IInv, TypeOK
<1>2. NoCrea
  BY DEF MutexUnlock, NoCrea, Lugares, EnNew, nuevos, creados
<1>3. SoloMueve(CP) /\ pc'[CP] = "cambio"
  BY SoloVa, ActoresDistintos DEF MutexUnlock
<1>4. k # 0 => /\ k \in DOMAIN mutex[p] /\ mutex[p][k] \in Mutexes
               /\ mutex[p][k].hilos \in Seq(Hilos)
               /\ ToSet(mutex[p][k].hilos) \subseteq Ocupados
               /\ mutex[p][k].hilos # <<>> => n \in Hilos /\ n \in Ocupados
  BY <1>1, BuscarRecursoTipo, MutexTipo, EsperanDeMutex
<1>5. UNCHANGED mutex => Esperan' \subseteq Ocupados
  BY EsperanIgual
<1>6. UNCHANGED colas => Mueve({})
  BY MueveNada DEF Lugares, colas
<1>7. CASE UNCHANGED <<colas, mutex>>
  BY <1>1, <1>2, <1>3, <1>5, <1>6, <1>7, PasoDeActor, ActoresDistintos
<1>8. CASE k # 0 /\ UNCHANGED colas /\ mutex' = [mutex EXCEPT ![p][k].owner = Nadie]
  <2> DEFINE r == [mutex[p][k] EXCEPT !.owner = Nadie]
  <2>1. r \in Mutexes /\ r.hilos = mutex[p][k].hilos
    BY <1>4, <1>8 DEF Mutexes
  <2>2. mutex' = [mutex EXCEPT ![p] = [@ EXCEPT ![k] = r]]
    BY <1>8
  <2> HIDE DEF r, p, k
  <2>3. Esperan' \subseteq Ocupados
    <3>1. ToSet(r.hilos) \subseteq Ocupados /\ k \in DOMAIN mutex[p]
      BY <1>4, <1>8, <2>1
    <3> QED BY <1>1, <2>1, <2>2, <3>1, EsperanCambia
  <2> QED BY <1>1, <1>2, <1>3, <1>6, <1>8, <2>3, PasoDeActor, ActoresDistintos
<1>9. CASE /\ k # 0 /\ mutex[p][k].hilos # <<>> /\ PasarAReady(n)
           /\ mutex' = [mutex EXCEPT ![p][k] = Entregado(@)]
  <2> DEFINE r == Entregado(mutex[p][k])
  <2>1. n \in Hilos /\ n[2] \in Tids /\ Tail(mutex[p][k].hilos) \in Seq(Hilos)
    BY <1>4, <1>9, Pares, HeadTailProperties
  <2>2. r \in Mutexes /\ r.hilos = Tail(mutex[p][k].hilos)
    BY <1>4, <1>9, <2>1 DEF Mutexes, Entregado
  <2>3. mutex' = [mutex EXCEPT ![p] = [@ EXCEPT ![k] = r]]
    BY <1>9
  <2> HIDE DEF r
  <2>4. ToSet(r.hilos) \subseteq ToSet(mutex[p][k].hilos)
    BY <1>4, <1>9, <2>2, HeadTailProperties, LenProperties DEF ToSet
  <2>5. Esperan' \subseteq Ocupados
    BY <1>1, <1>4, <1>9, <2>2, <2>3, <2>4, EsperanCambia
  <2>6. Mueve({n})
    BY <2>1, <1>9, MueveAReady DEF Lugares, IInv, TypeOK
  <2>7. {n} \subseteq Ocupados
    BY <1>4, <1>9
  <2> QED BY <1>1, <1>2, <1>3, <2>5, <2>6, <2>7, PasoDeActor, ActoresDistintos
<1> QED BY <1>7, <1>8, <1>9, Zenon DEF MutexUnlock

LEMMA TiposDeCreados ==
    ASSUME IInv
    PROVE  /\ tid_contador \in [Pids -> 0..MaxTid] /\ threads \in [Pids -> Seq(Hilos)]
           /\ procesos_en_sistema \in Seq(Pids) /\ cola_new \in Seq(Pids)
           /\ ToSet(procesos_en_sistema) \subseteq Pids /\ ToSet(cola_new) \subseteq Pids
           /\ Pids \subseteq Nat /\ pid_counter \in Nat
           /\ \A g \in Hilos : g[1] \in Pids /\ g[2] \in Nat
           /\ \A q \in Pids : tid_contador[q] \in Nat
<1>1. /\ tid_contador \in [Pids -> 0..MaxTid] /\ threads \in [Pids -> Seq(Hilos)]
      /\ procesos_en_sistema \in Seq(Pids) /\ cola_new \in Seq(Pids)
      /\ pid_counter \in 0..MaxPid
  BY DEF IInv, TypeOK, TipoCreados, TipoProcesos, TipoNuevos
<1>2. ToSet(procesos_en_sistema) \subseteq Pids /\ ToSet(cola_new) \subseteq Pids
  BY <1>1, ElementosDeLista
<1>3. \A g \in Hilos : g[1] \in Pids /\ g[2] \in Nat
  BY Pares
<1>4. pid_counter \in Nat /\ \A q \in Pids : tid_contador[q] \in Nat
  BY <1>1, ConstantesKernel
<1> QED BY <1>1, <1>2, <1>3, <1>4, Pares

\* crear_pcb gives the process a pid nobody has, and its thread 0.
LEMMA IniciarProcesoLugares ==
    ASSUME IInv, IInv', Lugares, EnSyscall, NEW s, IniciarProceso(s)
    PROVE  Lugares'
<1> DEFINE p == pid_counter
           h == <<p, tid_contador[p]>>
<1>1. /\ p \in Pids /\ p \in Nat /\ pid_counter' = p + 1
      /\ procesos_en_sistema' = Append(procesos_en_sistema, p)
      /\ cola_new' = Append(cola_new, p)
      /\ threads' = [threads EXCEPT ![p] = Append(@, h)]
      /\ tid_contador' = [tid_contador EXCEPT ![p] = @ + 1]
      /\ UNCHANGED <<colas, mutex, loc>> /\ Va(CP, "cambio")
  BY ConstantesKernel DEF IniciarProceso, TcbNuevo, IInv, TypeOK, TipoCreados, Pids
<1>2. /\ tid_contador \in [Pids -> 0..MaxTid] /\ threads \in [Pids -> Seq(Hilos)]
      /\ procesos_en_sistema \in Seq(Pids) /\ cola_new \in Seq(Pids)
      /\ ToSet(procesos_en_sistema) \subseteq Pids /\ ToSet(cola_new) \subseteq Pids
      /\ Pids \subseteq Nat /\ \A g \in Hilos : g[1] \in Pids /\ g[2] \in Nat
      /\ \A q \in Pids : tid_contador[q] \in Nat
  BY TiposDeCreados
<1>3. tid_contador[p] = 0 /\ ToSet(threads[p]) = {} /\ SinDobles(cola_new)
      /\ p \notin ToSet(cola_new)
  BY <1>1, <1>2 DEF Lugares, Dados, EnNew
<1>4. h = <<p, 0>> /\ h \in Hilos
  <2>1. p \in Pids /\ 0 \in Tids
    BY <1>1, ConstantesKernel DEF Tids
  <2> QED BY <1>3, <2>1, Pares
<1>5. /\ ToSet(procesos_en_sistema') = ToSet(procesos_en_sistema) \cup {p}
      /\ ToSet(cola_new') = ToSet(cola_new) \cup {p} /\ SinDobles(cola_new')
  BY <1>1, <1>2, <1>3, AgregarElemento
<1>6. /\ tid_contador'[p] = 1
      /\ \A q \in Pids : q # p => tid_contador'[q] = tid_contador[q]
  BY <1>1, <1>2, <1>3
<1>7. /\ ToSet(threads'[p]) = {<<p, 0>>}
      /\ \A q \in Pids : q # p => threads'[q] = threads[q]
  <2>1. threads'[p] = Append(threads[p], h) /\ threads[p] \in Seq(Hilos)
    BY <1>1, <1>2
  <2>2. ToSet(threads'[p]) = ToSet(threads[p]) \cup {h}
    BY <1>4, <2>1, AgregarElemento
  <2> QED BY <1>1, <1>2, <1>3, <1>4, <2>2
<1> HIDE DEF h, p
<1>0. p = pid_counter /\ p \in Nat /\ p \in Pids /\ pid_counter' = p + 1
  BY <1>1 DEF p
<1>8. Dados'
  <2>1. ASSUME NEW q \in ToSet(procesos_en_sistema')
        PROVE  q < pid_counter' /\ tid_contador'[q] > 0
    <3>1. q = p \/ (q \in Pids /\ q # p /\ q < pid_counter /\ tid_contador[q] > 0)
      BY <1>2, <1>5 DEF Lugares, Dados
    <3>2. pid_counter \in Nat /\ pid_counter' = pid_counter + 1
      BY <1>0
    <3>3. q = p => tid_contador'[q] = 1 /\ q = pid_counter
      BY <1>0, <1>6
    <3>4. q \in Pids /\ q # p => tid_contador'[q] = tid_contador[q] /\ q \in Nat
      BY <1>2, <1>6
    <3> QED BY <3>1, <3>2, <3>3, <3>4
  <2>2. ASSUME NEW q \in ToSet(cola_new')
        PROVE  q < pid_counter' /\ tid_contador'[q] = 1
    <3>1. q = p \/ (q \in Pids /\ q # p /\ q < pid_counter /\ tid_contador[q] = 1)
      BY <1>2, <1>5 DEF Lugares, Dados
    <3>2. pid_counter \in Nat /\ pid_counter' = pid_counter + 1
      BY <1>0
    <3>3. q = p => tid_contador'[q] = 1 /\ q = pid_counter
      BY <1>0, <1>6
    <3>4. q \in Pids /\ q # p => tid_contador'[q] = tid_contador[q] /\ q \in Nat
      BY <1>2, <1>6
    <3> QED BY <3>1, <3>2, <3>3, <3>4
  <2>3. ASSUME NEW q \in Pids, q >= pid_counter' PROVE tid_contador'[q] = 0
    <3>1. q # p /\ q >= pid_counter
      BY <1>0, <1>2, <2>3
    <3> QED BY <1>6, <3>1 DEF Lugares, Dados
  <2> QED BY <2>1, <2>2, <2>3 DEF Dados
<1>9. EnNew'
  <2>1. \A q \in ToSet(cola_new') : ToSet(threads'[q]) \subseteq {<<q, 0>>}
    BY <1>0, <1>2, <1>5, <1>7 DEF Lugares, EnNew
  <2>2. ASSUME NEW q \in Pids, q >= pid_counter' PROVE ToSet(threads'[q]) = {}
    <3>1. q # p /\ q >= pid_counter
      BY <1>0, <1>2, <2>2
    <3> QED BY <1>7, <3>1 DEF Lugares, EnNew
  <2> QED BY <1>5, <2>1, <2>2 DEF EnNew
<1>10. SoloMueve(CP) /\ pc'[CP] = "cambio"
  BY <1>1, SoloVa, ActoresDistintos
<1>11. UnSoloLugar' /\ LPAdmite' /\ Creando' /\ Eligiendo'
  BY <1>1, <1>10, ActoresDistintos
  DEF Lugares, UnSoloLugar, LPAdmite, Admitiendo, Creando, Eligiendo, SoloMueve, colas
<1>12. Ocupados' \subseteq Ocupados /\ Ocupados \subseteq Hilos
  <2>1. Atendidos' \subseteq Atendidos /\ Elegidos' = {}
    BY <1>10, ActoresDistintos DEF SoloMueve, Atendidos, Elegidos
  <2>2. Esperan' = Esperan /\ EnColas' = EnColas
    BY <1>1 DEF Esperan, EnColas, colas
  <2>3. EnColas \subseteq Hilos
    BY LugarListas DEF IInv, TypeOK
  <2> QED BY <2>1, <2>2, <2>3 DEF Ocupados, Elegidos, Atendidos, Esperan
<1>13. ASSUME NEW g \in Ocupados PROVE Visto(g)'
  <2>1. Visto(g) /\ g[1] \in Pids /\ g[2] \in Nat
    BY <1>2, <1>12 DEF Lugares, Vistos
  <2>2. g[1] # p
    BY <1>3, <2>1 DEF Visto
  <2> QED BY <1>5, <1>6, <1>10, <2>1, <2>2 DEF Visto
<1>14. Vistos'
  BY <1>12, <1>13, Zenon DEF Vistos
<1> QED BY <1>8, <1>9, <1>11, <1>14 DEF Lugares

\* ProcesoVive: the process found is that of the running thread, long admitted.
LEMMA ThreadCreateLugares ==
    ASSUME IInv, IInv', Lugares, ProcesoVive, EnSyscall, NEW s, ThreadCreate(s)
    PROVE  Lugares'
<1> DEFINE p == BuscarProceso(hilo_en_exec[1])
           t == tid_contador[p]
<1>1. /\ p \in Pids /\ pc[CP] = "cpu" /\ UNCHANGED <<colas, mutex, nuevos>>
      /\ UNCHANGED <<pid_counter, procesos_en_sistema>>
      /\ threads' = [threads EXCEPT ![p] = Append(@, <<p, t>>)]
      /\ tid_contador' = [tid_contador EXCEPT ![p] = @ + 1]
      /\ loc' = [loc EXCEPT ![CP].hilo = <<p, t>>] /\ Va(CP, "crear_hilo")
  BY DEF ThreadCreate, TcbNuevo, EnSyscall
<1>2. p \in ToSet(procesos_en_sistema) /\ p \notin ToSet(cola_new)
  <2>1. hilo_en_exec \in Ocupados /\ hilo_en_exec[1] \in ToSet(procesos_en_sistema)
    BY ActoresDistintos DEF EnSyscall, ProcesoVive, Ocupados, EnColas
  <2>2. p = hilo_en_exec[1]
    BY <2>1 DEF BuscarProceso
  <2> QED BY <2>1, <2>2 DEF Lugares, Vistos, Visto
<1> HIDE DEF p
<1>3. /\ tid_contador \in [Pids -> 0..MaxTid] /\ threads \in [Pids -> Seq(Hilos)]
      /\ ToSet(procesos_en_sistema) \subseteq Pids /\ ToSet(cola_new) \subseteq Pids
      /\ Pids \subseteq Nat /\ pid_counter \in Nat
      /\ \A g \in Hilos : g[1] \in Pids /\ g[2] \in Nat
      /\ \A q \in Pids : tid_contador[q] \in Nat
  BY TiposDeCreados
<1>4. t \in Nat \ {0} /\ p < pid_counter
  BY <1>1, <1>2, <1>3 DEF Lugares, Dados
<1>5. tid_contador'[p] = t + 1 /\ \A q \in Pids : q # p => tid_contador'[q] = tid_contador[q]
  BY <1>1, <1>3
<1>6. \A q \in Pids : q # p => threads'[q] = threads[q]
  BY <1>1, <1>3
<1> HIDE DEF t
<1>7. loc'[CP].hilo = <<p, t>> /\ SoloMueve(CP) /\ pc'[CP] = "crear_hilo"
  <2>1. loc'[CP].hilo = <<p, t>>
    BY <1>1, ActoresDistintos DEF IInv, TypeOK, TipoActores, Locales
  <2> QED BY <1>1, <2>1, SoloVa, ActoresDistintos
<1>8. Dados'
  BY <1>1, <1>2, <1>3, <1>4, <1>5 DEF Lugares, Dados, nuevos
<1>9. EnNew'
  BY <1>1, <1>2, <1>3, <1>4, <1>6 DEF Lugares, EnNew, nuevos
<1>10. UnSoloLugar' /\ LPAdmite' /\ Eligiendo'
  BY <1>1, <1>7, ActoresDistintos
  DEF Lugares, UnSoloLugar, LPAdmite, Admitiendo, Eligiendo, SoloMueve, colas
<1>11. Creando'
  BY <1>1, <1>2, <1>4, <1>5, <1>7 DEF Creando, nuevos
<1>12. Ocupados' \subseteq Ocupados /\ Ocupados \subseteq Hilos
  <2>1. Atendidos' \subseteq Atendidos /\ Elegidos' = {}
    BY <1>7, ActoresDistintos DEF SoloMueve, Atendidos, Elegidos
  <2>2. Esperan' = Esperan /\ EnColas' = EnColas
    BY <1>1 DEF Esperan, EnColas, colas
  <2>3. EnColas \subseteq Hilos
    BY LugarListas DEF IInv, TypeOK
  <2> QED BY <2>1, <2>2, <2>3 DEF Ocupados, Elegidos, Atendidos, Esperan
<1>13. ASSUME NEW g \in Ocupados PROVE Visto(g)'
  <2>1. Visto(g) /\ g[1] \in Pids /\ g[2] \in Nat
    BY <1>3, <1>12 DEF Lugares, Vistos
  <2>2. g # <<p, t>>
    BY <1>4, <2>1 DEF Visto, t
  <2>3. g[2] < tid_contador'[g[1]]
    <3>1. g[2] < tid_contador[g[1]]
      BY <2>1 DEF Visto
    <3>4. tid_contador[g[1]] \in Nat
      BY <1>3, <2>1
    <3>2. CASE g[1] = p
      BY <1>4, <1>5, <2>1, <3>1, <3>2, <3>4 DEF t
    <3>3. CASE g[1] # p
      BY <1>5, <2>1, <3>1, <3>3, <3>4
    <3> QED BY <3>2, <3>3
  <2> QED BY <1>1, <1>7, <2>1, <2>2, <2>3 DEF Visto, nuevos
<1>14. Vistos'
  BY <1>12, <1>13, Zenon DEF Vistos
<1> QED BY <1>8, <1>9, <1>10, <1>11, <1>14 DEF Lugares

\* process_exit_thread up to its request.
LEMMA SalirProcesoLugares ==
    ASSUME IInv, IInv', Lugares, NEW a \in Actores, pc[a] # "no", NEW h \in Hilos, NEW e,
           SalirProceso(a, h, e), UNCHANGED <<creados, procesos, nuevos>>
    PROVE  Lugares'
<1>1. NoCrea /\ Esperan' \subseteq Ocupados
  BY NoCreaIgual DEF procesos
<1>2. SoloMueve(a) /\ pc'[a] = "fin_proceso"
  BY SoloVa DEF SalirProceso
<1>3. Mueve({}) /\ SinEjecutar
  BY MueveDesencolar DEF SalirProceso, Lugares, IInv, TypeOK
<1> QED BY <1>1, <1>2, <1>3, PasoDeActor

LEMMA ThreadExitLugares ==
    ASSUME IInv, IInv', Lugares, EnSyscall, NEW s, ThreadExit(s)
    PROVE  Lugares'
<1>1. NoCrea /\ Esperan' \subseteq Ocupados
  BY NoCreaIgual DEF ThreadExit, procesos
<1>2. hilo_en_exec \in Hilos /\ pc[CP] = "cpu" /\ Desencolar(hilo_en_exec)
  BY DEF EnSyscall, ThreadExit
<1>3. Mueve({})
  BY <1>2, MueveDesencolar DEF Lugares, IInv, TypeOK
<1>4. SoloMueve(CP) /\ pc'[CP] \in {"cpu", "fin_hilo"}
  <2>1. CASE UNCHANGED <<pc, loc>>
    BY <1>2, <2>1 DEF SoloMueve
  <2>2. CASE ~UNCHANGED <<pc, loc>>
    BY <2>2, SoloVa, ActoresDistintos DEF ThreadExit
  <2> QED BY <2>1, <2>2
<1> QED BY <1>1, <1>2, <1>3, <1>4, PasoDeActor, ActoresDistintos

LEMMA SyscallLugares ==
    ASSUME IInv, IInv', Lugares, ProcesoVive, Syscall
    PROVE  Lugares'
<1>1. EnSyscall
  BY AlAtender DEF Syscall
<1>2. PICK s :
        \/ DumpMemory(s) \/ PeticionIO(s) \/ IniciarProceso(s) \/ ThreadCreate(s)
        \/ ThreadJoin(s) \/ ThreadCancel(s) \/ MutexCreate(s) \/ MutexLock(s)
        \/ MutexUnlock(s) \/ ThreadExit(s) \/ ProcessExit(s)
  BY Zenon DEF Syscall
<1>3. CASE DumpMemory(s)
  BY <1>1, <1>3, DetachLugares DEF DumpMemory
<1>4. CASE PeticionIO(s)
  BY <1>1, <1>4, DetachLugares DEF PeticionIO
<1>5. CASE ProcessExit(s)
  BY <1>1, <1>5, SalirProcesoLugares, ActoresDistintos DEF ProcessExit, EnSyscall
<1> QED
  BY <1>1, <1>2, <1>3, <1>4, <1>5, IniciarProcesoLugares, ThreadCreateLugares,
     ThreadJoinLugares, ThreadCancelLugares, MutexCreateLugares, MutexLockLugares,
     MutexUnlockLugares, ThreadExitLugares, Zenon

-----------------------------------------------------------------------------
(* Requests to memoria.                                                    *)

\* The thread queued for the first time is in no queue: nobody has seen it.
LEMMA CrearHiloLugares ==
    ASSUME IInv, IInv', Lugares, CrearHilo, UNCHANGED <<creados, procesos, nuevos>>
    PROVE  Lugares'
<1> DEFINE h == loc[CP].hilo
<1>1. h \in Hilos /\ pc[CP] = "crear_hilo"
  BY PunteroTCB, ActoresDistintos DEF IInv, CrearHilo, EnPaso
<1>2. NoCrea /\ Esperan' \subseteq Ocupados
  BY NoCreaIgual DEF procesos
<1>3. CASE archivo[h] \in Existe
  <2>1. EncolarEnReady(h) /\ Va(CP, "cambio") /\ UNCHANGED loc
    BY <1>3 DEF CrearHilo
  <2>2. h \notin Ocupados
    BY <1>1 DEF Lugares, Vistos, Visto
  <2>3. Mueve({h})
    BY <1>1, <2>1, <2>2, MueveEncolar DEF Lugares, IInv, TypeOK, Ocupados
  <2>4. SoloMueve(CP) /\ pc'[CP] = "cambio"
    BY <2>1, SoloVa, ActoresDistintos
  <2>5. LPAdmite' /\ Creando' /\ Eligiendo'
    BY <2>1, <2>4, ActoresDistintos
    DEF Lugares, LPAdmite, Admitiendo, Creando, Eligiendo, SoloMueve
  <2>6. Atendidos' \subseteq Atendidos /\ Elegidos' = {}
    BY <2>4, ActoresDistintos DEF SoloMueve, Atendidos, Elegidos
  <2>7. Ocupados' \subseteq Ocupados \cup {h}
    BY <1>2, <2>3, <2>6 DEF Ocupados, Mueve
  <2>8. ASSUME NEW g, g = h PROVE Visto(g)'
    BY <2>8, <1>1, <1>2, <2>1, <2>4, ActoresDistintos
    DEF Lugares, Creando, Visto, NoCrea, creados
  <2>9. VistosYa({h})
    BY <2>8 DEF VistosYa
  <2>10. UnSoloLugar' /\ pc'[CP] # "crear_hilo"
    BY <2>3, <2>4 DEF Mueve
  <2> QED BY <1>2, <2>5, <2>7, <2>9, <2>10, LugaresSiguen
<1>4. CASE archivo[h] \notin Existe
  <2>1. SalirProceso(CP, h, "cambio")
    BY <1>4 DEF CrearHilo
  <2> QED BY <1>1, <2>1, SalirProcesoLugares, ActoresDistintos
<1> QED BY <1>3, <1>4

LEMMA FinHiloLugares ==
    ASSUME IInv, Lugares, FinHilo, UNCHANGED <<creados, procesos, nuevos>>
    PROVE  Lugares'
<1>1. NoCrea /\ Esperan' \subseteq Ocupados
  BY NoCreaIgual DEF procesos
<1>2. /\ pc[CP] \in {"cancela", "fin_hilo"} /\ UNCHANGED colas
      /\ Va(CP, "libera_hilo") \/ Va(CP, "fin")
      /\ loc' = [loc EXCEPT ![CP] = [@ EXCEPT !.proceso = NULO, !.sigue = "fin"]]
  BY DEF FinHilo, EnPaso
<1>3. SoloMueve(CP) /\ pc'[CP] \in {"libera_hilo", "fin"}
  BY <1>2, SoloVa, ActoresDistintos
<1>4. Mueve({})
  BY <1>2, MueveNada DEF Lugares, colas
<1> QED BY <1>1, <1>2, <1>3, <1>4, PasoDeActor, ActoresDistintos

-----------------------------------------------------------------------------
(* liberar_pcb and liberar_hilo.                                           *)

LEMMA FinProcesoLugares ==
    ASSUME IInv, Lugares, NEW a \in Actores, FinProceso(a), UNCHANGED <<creados, nuevos>>
    PROVE  Lugares'
<1>1. NoCrea /\ Esperan' \subseteq Ocupados
  BY NoCreaIgual DEF FinProceso, procesos
<1>2. /\ pc[a] = "fin_proceso" /\ UNCHANGED colas
      /\ Va(a, "desencola") \/ Va(a, loc[a].sigue)
      /\ loc' = [loc EXCEPT ![a] = [@ EXCEPT !.i = 1, !.j = 1]]
  BY DEF FinProceso, EnPaso
<1>3. SoloMueve(a) /\ pc'[a] \in {"desencola", "fin", "cambio", "inicio", "no"}
  BY <1>2, SoloVa, LocTipo DEF IInv, TypeOK
<1>4. Mueve({}) /\ SinEjecutar
  BY <1>2, MueveNada DEF Lugares, colas
<1> QED BY <1>1, <1>2, <1>3, <1>4, PasoDeActor

LEMMA DesencolarTodosLugares ==
    ASSUME IInv, IInv', Lugares, NEW a \in Actores, DesencolarTodos(a),
           UNCHANGED <<creados, nuevos>>
    PROVE  Lugares'
<1> DEFINE p == loc[a].proceso
           h == threads[p][loc[a].j]
<1>1. NoCrea /\ Esperan' \subseteq Ocupados
  BY NoCreaIgual DEF DesencolarTodos, procesos
<1>2. pc[a] = "desencola" /\ p \in Pids /\ loc[a].j \in Nat \ {0}
  BY PunteroPCB, LocTipo DEF DesencolarTodos, EnPaso, IInv, TypeOK
<1>3. SoloMueve(a) /\ pc'[a] \in {"desencola", "libera"}
  <2>1. CASE loc[a].j <= Len(threads[p])
    <3>1. UNCHANGED pc /\ loc' = [loc EXCEPT ![a].j = @ + 1]
      BY <2>1 DEF DesencolarTodos
    <3> QED BY <1>2, <3>1, SoloLoc
  <2>2. CASE ~(loc[a].j <= Len(threads[p]))
    <3>1. UNCHANGED loc /\ Va(a, "libera")
      BY <2>2 DEF DesencolarTodos
    <3> QED BY <3>1, SoloVa
  <2> QED BY <2>1, <2>2
<1>4. Mueve({}) /\ SinEjecutar
  <2>1. CASE loc[a].j <= Len(threads[p])
    <3>1. Desencolar(h)
      BY <2>1 DEF DesencolarTodos
    <3>2. h \in Hilos
      <4>1. threads[p] \in Seq(Hilos)
        BY <1>2 DEF IInv, TypeOK, TipoProcesos
      <4> QED BY <1>2, <2>1, <4>1, ElementOfSeq, LenProperties
    <3> QED BY <3>1, <3>2, MueveDesencolar DEF Lugares, IInv, TypeOK
  <2>2. CASE ~(loc[a].j <= Len(threads[p]))
    <3>1. UNCHANGED colas
      BY <2>2 DEF DesencolarTodos
    <3> QED BY <3>1, MueveNada DEF Lugares, colas
  <2> QED BY <2>1, <2>2
<1> QED BY <1>1, <1>2, <1>3, <1>4, PasoDeActor

LEMMA SoltarTCB ==
    ASSUME IInv, NEW p \in Pids, NEW h, threads' = [threads EXCEPT ![p] = RemoveFirst(@, h)]
    PROVE  \A q \in Pids : ToSet(threads'[q]) \subseteq ToSet(threads[q])
<1>1. threads \in [Pids -> Seq(Hilos)] /\ threads[p] \in Seq(Hilos)
  BY DEF IInv, TypeOK, TipoProcesos
<1>2. ToSet(RemoveFirst(threads[p], h)) \subseteq ToSet(threads[p])
  BY <1>1, QuitarElementoContenido
<1> QED BY <1>1, <1>2

LEMMA LiberarPcbLugares ==
    ASSUME IInv, Lugares, NEW a \in Actores, LiberarPcb(a), UNCHANGED <<creados, nuevos>>
    PROVE  Lugares'
<1> DEFINE p == loc[a].proceso
           h == threads[p][loc[a].i]
<1>1. /\ pc[a] = "libera" /\ p \in Pids /\ UNCHANGED <<colas, mutex>>
  BY PunteroPCB DEF LiberarPcb, EnPaso, IInv
<1>2. Esperan' \subseteq Ocupados
  BY <1>1, EsperanIgual
<1>3. Mueve({}) /\ SinEjecutar
  BY <1>1, MueveNada DEF Lugares, colas
<1>4. SinDobles(cola_new') /\ ToSet(cola_new') \subseteq ToSet(cola_new)
  BY DEF nuevos, Lugares, EnNew
<1>5. NoCrea /\ SoloMueve(a) /\ pc'[a] \in {"libera_hilo", "fin", "cambio", "inicio", "no"}
  <2>1. CASE loc[a].i <= Len(threads[p])
    <3>1. /\ threads' = [threads EXCEPT ![p] = RemoveFirst(@, h)]
          /\ UNCHANGED procesos_en_sistema /\ Va(a, "libera_hilo")
          /\ loc' = [loc EXCEPT ![a].hilo = h, ![a].i = @ + 1]
      BY <1>1, <2>1 DEF LiberarPcb, IInv, TypeOK, TipoProcesos
    <3> HIDE DEF p, h
    <3>2. \A q \in Pids : ToSet(threads'[q]) \subseteq ToSet(threads[q])
      BY <1>1, <3>1, SoltarTCB
    <3>3. SoloMueve(a) /\ pc'[a] = "libera_hilo"
      BY <3>1, SoloVa
    <3> QED BY <1>4, <3>1, <3>2, <3>3 DEF NoCrea
  <2>2. CASE ~(loc[a].i <= Len(threads[p]))
    <3>1. /\ procesos_en_sistema' = RemoveFirst(procesos_en_sistema, p)
          /\ Va(a, loc[a].sigue) /\ UNCHANGED <<threads, loc>>
      BY <2>2 DEF LiberarPcb
    <3>2. ToSet(procesos_en_sistema') \subseteq ToSet(procesos_en_sistema)
      BY <3>1, QuitarElementoContenido DEF IInv, TypeOK, TipoProcesos
    <3>3. SoloMueve(a) /\ pc'[a] \in {"fin", "cambio", "inicio", "no"}
      BY <3>1, SoloVa, LocTipo DEF IInv, TypeOK
    <3> QED BY <1>4, <3>1, <3>2, <3>3 DEF NoCrea
  <2> QED BY <2>1, <2>2
<1> QED BY <1>1, <1>2, <1>3, <1>5, PasoDeActor

LEMMA LiberarHiloLugares ==
    ASSUME IInv, Lugares, NEW a \in Actores, LiberarHilo(a), UNCHANGED <<creados, nuevos>>
    PROVE  Lugares'
<1> DEFINE h == loc[a].hilo
           p == BuscarProceso(h[1])
<1>1. /\ pc[a] = "libera_hilo" /\ UNCHANGED <<colas, procesos_en_sistema, mutex>>
      /\ loc' = [loc EXCEPT ![a] = [@ EXCEPT !.dueno = p, !.j = 1]] /\ Va(a, "joins")
      /\ threads' = IF p = NULO THEN threads
                    ELSE [threads EXCEPT ![p] = RemoveFirst(@, h)]
  BY DEF LiberarHilo, EnPaso
<1>2. p \in Pids \cup {NULO}
  BY BuscarProcesoTipo DEF IInv, TypeOK
<1> HIDE DEF p, h
<1>3. \A q \in Pids : ToSet(threads'[q]) \subseteq ToSet(threads[q])
  BY <1>1, <1>2, SoltarTCB
<1>4. NoCrea
  BY <1>1, <1>3 DEF NoCrea, nuevos, Lugares, EnNew
<1>5. Esperan' \subseteq Ocupados
  BY <1>1, EsperanIgual
<1>6. SoloMueve(a) /\ pc'[a] = "joins"
  BY <1>1, SoloVa
<1>7. Mueve({}) /\ SinEjecutar
  BY <1>1, MueveNada DEF Lugares, colas
<1> QED BY <1>1, <1>4, <1>5, <1>6, <1>7, PasoDeActor

LEMMA DespertarJoinsLugares ==
    ASSUME IInv, IInv', Lugares, NEW a \in Actores, DespertarJoins(a),
           UNCHANGED <<creados, nuevos>>
    PROVE  Lugares'
<1> DEFINE b == cola_blocked[loc[a].j]
<1>1. NoCrea /\ Esperan' \subseteq Ocupados
  BY NoCreaIgual DEF DespertarJoins, procesos
<1>2. pc[a] = "joins" /\ loc[a].j \in Nat \ {0} /\ cola_blocked \in Seq(Hilos)
  BY LocTipo DEF DespertarJoins, EnPaso, IInv, TypeOK, TipoColas
<1>3. CASE loc[a].j <= Len(cola_blocked)
  <2>1. /\ loc' = [loc EXCEPT ![a].j = @ + 1] /\ UNCHANGED pc
        /\ PasarAReady(b) \/ UNCHANGED colas
    BY <1>3 DEF DespertarJoins
  <2>2. SoloMueve(a) /\ pc'[a] = "joins"
    BY <1>2, <2>1, SoloLoc
  <2>3. b \in Hilos /\ b \in ToSet(cola_blocked)
    BY <1>2, <1>3, ElementOfSeq, LenProperties DEF ToSet
  <2>4. {b} \subseteq Ocupados
    BY <2>3 DEF Ocupados, EnColas
  <2> HIDE DEF b
  <2>5. CASE PasarAReady(b)
    <3>1. Mueve({b}) /\ SinEjecutar
      BY <2>3, <2>5, MueveAReady DEF Lugares, IInv, TypeOK
    <3> QED BY <1>1, <1>2, <2>2, <2>4, <3>1, PasoDeActor
  <2>6. CASE UNCHANGED colas
    <3>1. Mueve({}) /\ SinEjecutar
      BY <2>6, MueveNada DEF Lugares, colas
    <3> QED BY <1>1, <1>2, <2>2, <3>1, PasoDeActor
  <2> QED BY <2>1, <2>5, <2>6
<1>4. CASE ~(loc[a].j <= Len(cola_blocked))
  <2>1. /\ loc' = [loc EXCEPT ![a] = [@ EXCEPT !.j = 1]] /\ Va(a, "mutex")
        /\ UNCHANGED colas
    BY <1>4 DEF DespertarJoins
  <2>2. SoloMueve(a) /\ pc'[a] = "mutex"
    BY <2>1, SoloVa
  <2>3. Mueve({}) /\ SinEjecutar
    BY <2>1, MueveNada DEF Lugares, colas
  <2> QED BY <1>1, <1>2, <2>2, <2>3, PasoDeActor
<1> QED BY <1>3, <1>4

\* The heir was in the wait list and stays in it.
LEMMA HeredarMutexLugares ==
    ASSUME IInv, IInv', Lugares, NEW a \in Actores, HeredarMutex(a),
           UNCHANGED <<creados, nuevos>>
    PROVE  Lugares'
<1> DEFINE p == loc[a].dueno
           j == loc[a].j
           q == mutex[p][j]
           b == q.hilos[1]
<1>1. pc[a] = "mutex" /\ UNCHANGED <<procesos_en_sistema, threads>>
  BY DEF HeredarMutex, EnPaso
<1>2. TipoProcesos /\ TipoColas /\ j \in Nat \ {0} /\ p \in Pids \cup {NULO}
  BY LocTipo DEF IInv, TypeOK
<1>3. NoCrea
  BY <1>1 DEF NoCrea, nuevos, Lugares, EnNew
<1>4. UNCHANGED mutex => Esperan' \subseteq Ocupados
  BY EsperanIgual
<1>5. UNCHANGED colas => Mueve({}) /\ SinEjecutar
  BY MueveNada DEF Lugares, colas
<1>6. CASE p # NULO /\ j <= Len(mutex[p])
  <2>1. /\ loc' = [loc EXCEPT ![a].j = @ + 1] /\ UNCHANGED pc
        /\ \/ UNCHANGED <<colas, mutex>>
           \/ mutex' = [mutex EXCEPT ![p][j].owner = Nadie] /\ UNCHANGED colas
           \/ /\ q.hilos # <<>> /\ PasarAReady(b)
              /\ mutex' = [mutex EXCEPT ![p][j].owner = b[2]]
    BY <1>6 DEF HeredarMutex
  <2>2. p \in Pids /\ j \in DOMAIN mutex[p]
    BY <1>2, <1>6, LenProperties DEF TipoProcesos
  <2>3. /\ q \in Mutexes /\ ToSet(q.hilos) \subseteq Ocupados
        /\ q.hilos # <<>> => b \in Hilos /\ b \in Ocupados /\ b[2] \in Tids
    BY <1>2, <2>2, MutexTipo, EsperanDeMutex, Pares
  <2>4. SoloMueve(a) /\ pc'[a] = "mutex"
    BY <1>1, <2>1, SoloLoc
  <2>5. ASSUME NEW o \in Tids \cup {Nadie}, mutex' = [mutex EXCEPT ![p][j].owner = o]
        PROVE  Esperan' \subseteq Ocupados
    <3> DEFINE r == [q EXCEPT !.owner = o]
    <3>1. r \in Mutexes /\ r.hilos = q.hilos
      BY <2>3 DEF Mutexes
    <3>2. mutex' = [mutex EXCEPT ![p] = [@ EXCEPT ![j] = r]]
      BY <2>5
    <3> HIDE DEF r
    <3>3. ToSet(r.hilos) \subseteq Ocupados
      BY <2>3, <3>1
    <3> HIDE DEF p, j, q
    <3> QED BY <1>2, <2>2, <3>1, <3>2, <3>3, EsperanCambia
  <2>6. CASE UNCHANGED <<colas, mutex>>
    BY <1>1, <1>3, <1>4, <1>5, <2>4, <2>6, PasoDeActor
  <2>7. CASE mutex' = [mutex EXCEPT ![p][j].owner = Nadie] /\ UNCHANGED colas
    <3>1. Esperan' \subseteq Ocupados
      BY <2>5, <2>7
    <3> QED BY <1>1, <1>3, <1>5, <2>4, <2>7, <3>1, PasoDeActor
  <2>8. CASE /\ q.hilos # <<>> /\ PasarAReady(b)
             /\ mutex' = [mutex EXCEPT ![p][j].owner = b[2]]
    <3>1. Esperan' \subseteq Ocupados
      BY <2>3, <2>5, <2>8
    <3>2. {b} \subseteq Ocupados /\ b \in Hilos /\ PasarAReady(b)
      BY <2>3, <2>8
    <3>3. Mueve({b}) /\ SinEjecutar
      BY <3>2, MueveAReady DEF Lugares, IInv, TypeOK
    <3> QED BY <1>1, <1>3, <2>4, <3>1, <3>2, <3>3, PasoDeActor
  <2> QED BY <2>1, <2>6, <2>7, <2>8
<1>7. CASE ~(p # NULO /\ j <= Len(mutex[p]))
  <2>1. /\ Va(a, loc[a].sigue) \/ Va(a, "libera")
        /\ UNCHANGED <<colas, mutex, loc>>
    BY <1>7 DEF HeredarMutex
  <2>2. SoloMueve(a) /\ pc'[a] \in {"libera", "fin", "cambio", "inicio", "no"}
    BY <2>1, SoloVa, LocTipo DEF IInv, TypeOK
  <2> QED BY <1>1, <1>3, <1>4, <1>5, <2>1, <2>2, PasoDeActor
<1> QED BY <1>6, <1>7

LEMMA LiberacionLugares ==
    ASSUME IInv, IInv', Lugares, NEW a \in Actores, Liberacion(a)
    PROVE  Lugares'
  BY FinProcesoLugares, DesencolarTodosLugares, LiberarPcbLugares, LiberarHiloLugares,
     DespertarJoinsLugares, HeredarMutexLugares, Zenon DEF Liberacion

-----------------------------------------------------------------------------
(* Long-term scheduler.                                                    *)

LEMMA SacarDeNew ==
    ASSUME IInv, Lugares, NEW p, cola_new' = RemoveFirst(cola_new, p),
           UNCHANGED <<creados, procesos>>
    PROVE  NoCrea /\ p \notin ToSet(cola_new')
<1>1. SinDobles(cola_new') /\ ToSet(cola_new') = ToSet(cola_new) \ {p}
  BY QuitarElementoUnico DEF IInv, TypeOK, TipoNuevos, Lugares, EnNew
<1> QED BY <1>1 DEF NoCrea, procesos

LEMMA TomarNuevoLugares ==
    ASSUME IInv, Lugares, TomarNuevo, UNCHANGED <<creados, procesos>>
    PROVE  Lugares'
<1> DEFINE p == cola_new[1]
           h == IF threads[p] = <<>> THEN NULO ELSE threads[p][1]
<1>1. /\ pc[LP] = "sem_new" /\ sem_new > 0 /\ UNCHANGED <<colas, cola_new>>
      /\ loc' = [loc EXCEPT ![LP].proceso = p, ![LP].hilo = h] /\ Va(LP, "crear_proceso")
  BY DEF TomarNuevo, EnPaso
<1>2. cola_new \in Seq(Pids) /\ cola_new # <<>>
  BY <1>1, LenProperties, EmptySeq DEF IInv, TypeOK, TipoNuevos, SemNewCuenta
<1>3. p \in Pids /\ p \in ToSet(cola_new)
  BY <1>2, ElementosDeLista, LenProperties DEF ToSet
<1>4. h \in {NULO, <<p, 0>>}
  <2>1. threads[p] \in Seq(Hilos) /\ ToSet(threads[p]) \subseteq {<<p, 0>>}
    BY <1>3 DEF IInv, TypeOK, TipoProcesos, Lugares, EnNew
  <2> QED BY <2>1, ElementosDeLista, LenProperties DEF ToSet
<1> HIDE DEF p, h
<1>5. loc'[LP].proceso = p /\ loc'[LP].hilo = h
  BY <1>1, ActoresDistintos DEF IInv, TypeOK, TipoActores, Locales
<1>6. SoloMueve(LP) /\ pc'[LP] = "crear_proceso"
  BY <1>1, SoloVa, ActoresDistintos
<1>7. pc'[CP] = pc[CP] /\ loc'[CP] = loc[CP]
  BY <1>6, ActoresDistintos DEF SoloMueve
<1>8. NoCrea /\ Esperan' \subseteq Ocupados
  BY <1>1, NoCreaNada, EsperanIgual DEF procesos
<1>9. LPAdmite' /\ Creando' /\ Eligiendo' /\ UnSoloLugar'
  BY <1>1, <1>4, <1>5, <1>7, <1>8
  DEF Lugares, LPAdmite, Creando, Eligiendo, UnSoloLugar, colas, NoCrea, creados
<1>10. Ocupados' \subseteq Ocupados \cup {}
  <2>1. Atendidos' \subseteq Atendidos /\ Elegidos' = Elegidos
    BY <1>6, <1>7, ActoresDistintos DEF SoloMueve, Atendidos, Elegidos
  <2> QED BY <1>1, <1>8, <2>1 DEF Ocupados, EnColas, colas
<1>11. VistosYa({})
  BY DEF VistosYa
<1> QED BY <1>7, <1>8, <1>9, <1>10, <1>11, LugaresSiguen, Zenon

LEMMA CrearProcesoLugares ==
    ASSUME IInv, Lugares, CrearProceso, UNCHANGED <<creados, procesos>>
    PROVE  Lugares'
<1>1. /\ pc[LP] = "crear_proceso" /\ UNCHANGED <<colas, nuevos, loc>>
      /\ SoloMueve(LP) /\ pc'[LP] = "responde"
  BY SoloVa, ActoresDistintos DEF CrearProceso, EnPaso
<1>2. NoCrea /\ Esperan' \subseteq Ocupados
  BY <1>1, NoCreaIgual DEF procesos
<1>3. Mueve({}) /\ SinEjecutar
  BY <1>1, MueveNada DEF Lugares, colas
<1>4. CPSigue /\ LPSigue
  BY <1>1, <1>3, ActoresDistintos DEF CPSigue, LPSigue, SoloMueve, Admitiendo
<1>5. Atendidos' \subseteq Ocupados
  BY <1>1, ActoresDistintos DEF Atendidos, Ocupados, SoloMueve
<1> QED BY <1>2, <1>3, <1>4, <1>5, PasoNormal

\* The first thread of the process is in no queue until it leaves cola_new.
LEMMA AdmitirLugares ==
    ASSUME IInv, IInv', Lugares, AtenderRespuesta, Admitir, UNCHANGED <<creados, procesos>>
    PROVE  Lugares'
<1> DEFINE p == loc[LP].proceso
           h == loc[LP].hilo
<1>1. /\ pc[LP] = "responde" /\ h \in Hilos
      /\ cola_new' = RemoveFirst(cola_new, p) /\ EncolarEnReady(h)
      /\ Va(LP, "inicio") /\ UNCHANGED loc
  BY PunteroTCB, ActoresDistintos DEF AtenderRespuesta, Admitir, EnPaso, IInv
<1>2. h = <<p, 0>>
  BY <1>1, ActoresDistintos DEF Lugares, LPAdmite, Admitiendo
<1>3. p \in ToSet(cola_new)
  <2>1. cola_new \in Seq(Pids) /\ Len(cola_new) = sem_new + 1 /\ sem_new \in Nat
        /\ p = cola_new[1]
    BY <1>1 DEF IInv, TypeOK, TipoNuevos, SemNewCuenta, LPTieneCabeza
  <2> QED BY <2>1, LenProperties DEF ToSet
<1>4. NoCrea /\ p \notin ToSet(cola_new')
  BY <1>1, SacarDeNew
<1>5. Esperan' \subseteq Ocupados
  BY EsperanIgual DEF procesos
<1>6. h \notin Ocupados
  BY <1>2, <1>3 DEF Lugares, Vistos, Visto
<1>7. Mueve({h}) /\ SinEjecutar
  BY <1>1, <1>6, MueveEncolar DEF Lugares, IInv, TypeOK, Ocupados
<1>8. SoloMueve(LP) /\ pc'[LP] = "inicio"
  BY <1>1, SoloVa, ActoresDistintos
<1>9. pc'[CP] = pc[CP] /\ loc'[CP] = loc[CP]
  BY <1>8, ActoresDistintos DEF SoloMueve
<1>10. LPAdmite' /\ Creando' /\ Eligiendo' /\ UnSoloLugar'
  BY <1>4, <1>7, <1>8, <1>9
  DEF Lugares, LPAdmite, Admitiendo, Creando, Eligiendo, Mueve, NoCrea, creados, SinEjecutar
<1>11. Ocupados' \subseteq Ocupados \cup {h}
  <2>1. Atendidos' \subseteq Atendidos /\ Elegidos' = Elegidos
    BY <1>8, <1>9, ActoresDistintos DEF SoloMueve, Atendidos, Elegidos
  <2> QED BY <1>5, <1>7, <2>1 DEF Ocupados, Mueve
<1>12. ASSUME NEW g, g = h PROVE Visto(g)'
  <2>1. tid_contador'[p] = 1
    BY <1>3, <1>4 DEF Lugares, Dados, NoCrea, creados
  <2>2. ~(pc[CP] = "crear_hilo" /\ loc[CP].hilo = h)
    BY <1>1, <1>2, ActoresDistintos DEF Lugares, Creando
  <2> QED BY <1>2, <1>4, <1>9, <1>12, <2>1, <2>2 DEF Visto
<1>13. VistosYa({h})
  BY <1>12 DEF VistosYa
<1> QED BY <1>4, <1>9, <1>10, <1>11, <1>13, LugaresSiguen

LEMMA AtenderRespuestaLugares ==
    ASSUME IInv, IInv', Lugares, AtenderRespuesta, UNCHANGED <<creados, procesos>>
    PROVE  Lugares'
<1>1. pc[LP] = "responde"
  BY DEF AtenderRespuesta, EnPaso
<1>2. Esperan' \subseteq Ocupados
  BY EsperanIgual DEF procesos
<1>3. CASE Admitir
  BY <1>3, AdmitirLugares
<1>4. CASE Postergar
  <2>1. UNCHANGED <<colas, cola_new>> /\ SoloMueve(LP) /\ pc'[LP] = "inicio"
    BY <1>4, SoloVa, ActoresDistintos DEF Postergar
  <2>2. NoCrea
    BY <2>1, NoCreaNada
  <2>3. Mueve({}) /\ SinEjecutar
    BY <2>1, MueveNada DEF Lugares, colas
  <2> QED BY <1>1, <1>2, <2>1, <2>2, <2>3, PasoDeActor, ActoresDistintos
<1>5. CASE Rechazar
  <2>1. /\ cola_new' = RemoveFirst(cola_new, loc[LP].proceso)
        /\ loc' = [loc EXCEPT ![LP] = [@ EXCEPT !.i = 1, !.j = 1, !.sigue = "inicio"]]
        /\ Va(LP, "desencola") /\ UNCHANGED colas
    BY <1>5 DEF Rechazar
  <2>2. SoloMueve(LP) /\ pc'[LP] = "desencola"
    BY <2>1, SoloVa, ActoresDistintos
  <2>3. NoCrea
    BY <2>1, SacarDeNew
  <2>4. Mueve({}) /\ SinEjecutar
    BY <2>1, MueveNada DEF Lugares, colas
  <2> QED BY <1>1, <1>2, <2>2, <2>3, <2>4, PasoDeActor, ActoresDistintos
<1> QED BY <1>3, <1>4, <1>5 DEF AtenderRespuesta

-----------------------------------------------------------------------------
(* The actors.                                                             *)

LEMMA NadaLugares ==
    ASSUME Lugares, UNCHANGED <<colas, creados, procesos, nuevos, pc, loc>>
    PROVE  Lugares'
<1>1. UnSoloLugar'
  BY DEF Lugares, UnSoloLugar, colas
<1>2. Dados' /\ EnNew'
  BY DEF Lugares, Dados, EnNew, creados, procesos, nuevos
<1>3. LPAdmite' /\ Creando' /\ Eligiendo'
  BY DEF Lugares, LPAdmite, Admitiendo, Creando, Eligiendo, colas, creados, nuevos
<1>4. Ocupados' = Ocupados
  BY DEF Ocupados, EnColas, Elegidos, Atendidos, Esperan, colas, procesos
<1>5. ASSUME NEW h, Visto(h) PROVE Visto(h)'
  BY <1>5 DEF Visto, creados, nuevos
<1>6. Vistos'
  BY <1>4, <1>5, Zenon DEF Lugares, Vistos
<1> QED BY <1>1, <1>2, <1>3, <1>6 DEF Lugares

LEMMA FallaLugares ==
    ASSUME Lugares, NEW a, Falla(a)
    PROVE  Lugares'
  BY NadaLugares DEF Falla

LEMMA PasoCPLugares ==
    ASSUME IInv, IInv', Lugares, ProcesoVive, NadieLoEncola, PasoCP
    PROVE  Lugares'
<1>1. CASE /\ \/ EsperaReady \/ HayReady \/ Planificar \/ PonerEnExec \/ EjecutarHilo
              \/ FinEjecucion \/ EsperarQuantum \/ Interrupcion
           /\ UNCHANGED <<bloqueo, creados, procesos, liberados, nuevos, largo_plazo,
                          memoria, respuesta, ctx, fallo>>
  <2>1. UNCHANGED <<creados, procesos, nuevos>>
    BY <1>1
  <2> QED BY <1>1, <2>1, EsperaReadyLugares, HayReadyLugares, PlanificarLugares,
        PonerEnExecLugares, EjecutarHiloLugares, FinEjecucionLugares, EsperarQuantumLugares,
        InterrupcionLugares, Zenon
<1>2. CASE /\ CrearHilo \/ FinHilo
           /\ UNCHANGED <<bloqueo, creados, procesos, liberados, nuevos, largo_plazo,
                          quantum, respuesta, ctx, fallo>>
  <2>1. UNCHANGED <<creados, procesos, nuevos>>
    BY <1>2
  <2> QED BY <1>2, <2>1, CrearHiloLugares, FinHiloLugares, Zenon
<1> QED
  BY <1>1, <1>2, SyscallLugares, LiberacionLugares, FallaLugares, ActoresDistintos, Zenon
  DEF PasoCP

LEMMA PasoLPLugares ==
    ASSUME IInv, IInv', Lugares, PasoLP
    PROVE  Lugares'
<1>1. CASE /\ ConsultarLargoPlazo \/ TomarNuevo \/ CrearProceso \/ AtenderRespuesta
           /\ UNCHANGED <<bloqueo, creados, procesos, liberados, quantum, ctx, fallo>>
  <2>1. UNCHANGED <<creados, procesos>>
    BY <1>1
  <2>2. CASE ConsultarLargoPlazo
    <3>1. /\ pc[LP] = "inicio" /\ UNCHANGED <<colas, nuevos>>
          /\ SoloMueve(LP) /\ pc'[LP] = "sem_new"
      BY <2>2, SoloVa, ActoresDistintos DEF ConsultarLargoPlazo, EnPaso
    <3>2. NoCrea /\ Esperan' \subseteq Ocupados
      BY <2>1, <3>1, NoCreaIgual DEF procesos
    <3>3. Mueve({}) /\ SinEjecutar
      BY <3>1, MueveNada DEF Lugares, colas
    <3> QED BY <3>1, <3>2, <3>3, PasoDeActor, ActoresDistintos
  <2> QED BY <1>1, <2>1, <2>2, TomarNuevoLugares, CrearProcesoLugares,
        AtenderRespuestaLugares, Zenon
<1> QED BY <1>1, LiberacionLugares, FallaLugares, ActoresDistintos, Zenon DEF PasoLP

LEMMA PasoHandlerLugares ==
    ASSUME IInv, IInv', Lugares, NEW h \in Hilos, PasoHandler(h)
    PROVE  Lugares'
<1>0. h \in Actores
  BY ActoresDistintos
<1>1. CASE /\ TomarMutexIO(h) \/ SoltarMutexIO(h) \/ FinIO(h) \/ FinDump(h)
           /\ UNCHANGED <<bloqueo, creados, procesos, liberados, nuevos, largo_plazo,
                          quantum, memoria, respuesta, ctx, fallo>>
  <2>1. UNCHANGED <<creados, procesos, nuevos>>
    BY <1>1
  <2>2. NoCrea /\ Esperan' \subseteq Ocupados
    BY <2>1, NoCreaIgual DEF procesos
  <2>3. ASSUME pc[h] # "no", SoloMueve(h), pc'[h] \in {"io_duerme", "io_sale"},
               UNCHANGED colas
        PROVE  Lugares'
    <3>1. Mueve({}) /\ SinEjecutar
      BY <2>3, MueveNada DEF Lugares, colas
    <3> QED BY <1>0, <2>2, <2>3, <3>1, PasoDeActor
  <2>4. ASSUME pc[h] # "no", PasarAReady(h), Va(h, "no"), UNCHANGED loc
        PROVE  Lugares'
    <3>1. SoloMueve(h) /\ pc'[h] = "no"
      BY <1>0, <2>4, SoloVa
    <3>2. Mueve({h}) /\ SinEjecutar
      BY <2>4, MueveAReady DEF Lugares, IInv, TypeOK
    <3>3. {h} \subseteq Ocupados
      BY <2>4 DEF Ocupados, Atendidos
    <3> QED BY <1>0, <2>2, <2>4, <3>1, <3>2, <3>3, PasoDeActor
  <2>5. CASE TomarMutexIO(h)
    BY <1>0, <2>3, <2>5, SoloVa DEF TomarMutexIO, EnPaso
  <2>6. CASE SoltarMutexIO(h)
    BY <1>0, <2>3, <2>6, SoloVa DEF SoltarMutexIO, EnPaso
  <2>7. CASE FinIO(h)
    BY <2>4, <2>7 DEF FinIO, EnPaso
  <2>8. CASE FinDump(h)
    <3>1. pc[h] # "no"
      BY <2>8 DEF FinDump, EnPaso
    <3> QED BY <1>0, <2>1, <2>4, <2>8, <3>1, SalirProcesoLugares DEF FinDump
  <2> QED BY <1>1, <2>5, <2>6, <2>7, <2>8
<1> QED BY <1>0, <1>1, LiberacionLugares, FallaLugares, Zenon DEF PasoHandler

LEMMA InitLugares == Init => Lugares
<1> SUFFICES ASSUME Init PROVE Lugares
  OBVIOUS
<1>1. IInv /\ N0 \in Nat
  BY InitIInv, ConstantesKernel, LenProperties DEF N0
<1>2. /\ cola_ready = <<>> /\ cola_blocked = <<>> /\ hilo_en_exec = NULO
      /\ pc[CP] = "sem_ready" /\ pc[LP] = "inicio" /\ \A h \in Hilos : pc[h] = "no"
      /\ \A p \in Pids : mutex[p] = <<>>
  BY ActoresDistintos, Zenon DEF Init
<1>3. ToSet(cola_ready) = {} /\ ToSet(cola_blocked) = {}
  BY <1>2, EmptySeq DEF ToSet
<1>4. SinDobles(cola_ready) /\ SinDobles(cola_blocked)
  BY <1>2 DEF SinDobles
<1>5. UnSoloLugar
  BY <1>1, <1>2, <1>3, <1>4, LugarListas DEF IInv, TypeOK
<1>6. /\ DOMAIN cola_new = 1..N0 /\ \A k \in 1..N0 : cola_new[k] = k - 1
      /\ DOMAIN procesos_en_sistema = 1..N0
      /\ \A k \in 1..N0 : procesos_en_sistema[k] = k - 1
  BY <1>1 DEF Init
<1>7. /\ \A p \in ToSet(cola_new) : p < N0 /\ p \in Nat
      /\ \A p \in ToSet(procesos_en_sistema) : p < N0 /\ p \in Nat /\ p \in Pids
      /\ SinDobles(cola_new) /\ ToSet(cola_new) \subseteq Pids
  BY <1>1, <1>6, TiposDeCreados DEF ToSet, SinDobles
<1>8. /\ pid_counter = N0 /\ \A p \in Pids : tid_contador[p] = IF p < N0 THEN 1 ELSE 0
      /\ \A p \in Pids : threads[p] = IF p < N0 THEN <<<<p, 0>>>> ELSE <<>>
  BY DEF Init
<1>9. Dados
  BY <1>1, <1>7, <1>8, TiposDeCreados DEF Dados
<1>10. EnNew
  <2>1. \A p \in ToSet(cola_new) : threads[p] = <<<<p, 0>>>>
    BY <1>7, <1>8
  <2>2. \A p : ToSet(<<<<p, 0>>>>) = {<<p, 0>>}
    BY DEF ToSet
  <2>3. \A p \in Pids : p >= N0 => threads[p] = <<>>
    BY <1>1, <1>8, TiposDeCreados
  <2>4. ToSet(<<>>) = {}
    BY DEF ToSet
  <2> QED BY <1>7, <1>8, <2>1, <2>2, <2>3, <2>4 DEF EnNew
<1>11. LPAdmite /\ Creando /\ Eligiendo
  BY <1>2 DEF LPAdmite, Admitiendo, Creando, Eligiendo
<1>12. Ocupados = {}
  BY <1>2, <1>3 DEF Ocupados, EnColas, Elegidos, Atendidos, Esperan
<1> QED BY <1>5, <1>9, <1>10, <1>11, <1>12 DEF Lugares, Vistos

LEMMA NextLugares ==
    IInv /\ IInv' /\ Lugares /\ ProcesoVive /\ NadieLoEncola /\ [Next]_vars => Lugares'
<1> SUFFICES ASSUME IInv, IInv', Lugares, ProcesoVive, NadieLoEncola, [Next]_vars
             PROVE  Lugares'
  OBVIOUS
<1>1. CASE PasoQuantum
  BY <1>1, NadaLugares DEF PasoQuantum
<1>2. CASE UNCHANGED vars
  BY <1>2, NadaLugares DEF vars
<1> QED BY <1>1, <1>2, PasoCPLugares, PasoLPLugares, PasoHandlerLugares, Zenon DEF Next

-----------------------------------------------------------------------------
(* Threads that somebody else will wake up: in the wait list of a mutex or *)
(* in the hands of their IO or dump handler.  Nobody else queues them.     *)

Manos == {"io_espera", "io_duerme", "io_sale", "dump"}

EnManos == {h \in Hilos : pc[h] \in Manos}

Espera(p, k) == ToSet(mutex[p][k].hilos)

EsperaUnica ==
    /\ \A p \in Pids : \A k \in DOMAIN mutex[p] : SinDobles(mutex[p][k].hilos)
    /\ \A p, q \in Pids : \A k \in DOMAIN mutex[p], m \in DOMAIN mutex[q] :
          p # q \/ k # m => Espera(p, k) \cap Espera(q, m) = {}

Atados ==
    /\ \A h \in Esperan \cup EnManos :
          estado[h] = "BLOCKED" /\ motivo_bloqueo[h] # "THREAD_JOIN"
    /\ Esperan \cap EnManos = {}
    /\ EsperaUnica

\* The step queues as READY the threads of X, and changes no other's estado.
Suelta(X) ==
    /\ ToSet(cola_ready') \subseteq ToSet(cola_ready) \cup X
    /\ \A h \in Hilos \ X : estado'[h] = estado[h]

LEMMA SueltaNada ==
    ASSUME UNCHANGED <<cola_ready, estado>>
    PROVE  Suelta({})
  BY DEF Suelta

LEMMA SueltaDesencolar ==
    ASSUME TipoColas, NEW h, Desencolar(h)
    PROVE  Suelta({})
<1>1. estado' = estado /\ cola_ready' \in {cola_ready, RemoveFirst(cola_ready, h)}
  BY DEF Desencolar, ReadySin
<1>2. ToSet(cola_ready') \subseteq ToSet(cola_ready)
  BY <1>1, QuitarElementoContenido DEF TipoColas
<1> QED BY <1>1, <1>2 DEF Suelta

LEMMA SueltaAReady ==
    ASSUME TipoColas, NEW h \in Hilos, PasarAReady(h)
    PROVE  Suelta({h})
<1>1. /\ cola_ready' = Append(ReadySin(h), h) /\ estado' = [estado EXCEPT ![h] = "READY"]
      /\ ReadySin(h) \in {cola_ready, RemoveFirst(cola_ready, h)}
      /\ ReadySin(h) \in Seq(Hilos)
  BY SinTipo DEF PasarAReady, ReadySin
<1>2. ToSet(ReadySin(h)) \subseteq ToSet(cola_ready)
  BY <1>1, QuitarElementoContenido DEF TipoColas
<1>3. ToSet(cola_ready') = ToSet(ReadySin(h)) \cup {h}
  BY <1>1, AgregarElemento
<1>4. \A g \in Hilos \ {h} : estado'[g] = estado[g]
  BY <1>1 DEF TipoColas
<1> QED BY <1>2, <1>3, <1>4 DEF Suelta

LEMMA SueltaEncolar ==
    ASSUME TipoColas, NEW h \in Hilos, EncolarEnReady(h)
    PROVE  Suelta({h})
<1>1. cola_ready' = Append(cola_ready, h) /\ estado' = [estado EXCEPT ![h] = "READY"]
  BY DEF EncolarEnReady
<1>2. ToSet(cola_ready') = ToSet(cola_ready) \cup {h}
  BY <1>1, AgregarElemento DEF TipoColas
<1>3. \A g \in Hilos \ {h} : estado'[g] = estado[g]
  BY <1>1 DEF TipoColas
<1> QED BY <1>2, <1>3 DEF Suelta

\* The wait lists gain nobody.
NadieMasEspera == Esperan' \subseteq Esperan /\ EsperaUnica'

\* Nobody else acts for the threads of X, nor is the scheduler taking them.
Libres(X) == X \cap (Esperan' \cup EnManos' \cup Elegidos') = {}

LEMMA PasoSuelto ==
    ASSUME IInv, Atados, NadieLoEncola, NEW a \in Actores, SoloMueve(a),
           pc'[a] # "saca", pc'[a] \in Manos => pc[a] \in Manos,
           NadieMasEspera, NEW X \in SUBSET Hilos, Suelta(X), Libres(X),
           \A h \in Hilos \ X : motivo_bloqueo'[h] = motivo_bloqueo[h]
    PROVE  Atados' /\ NadieLoEncola'
<1>1. EnManos' \subseteq EnManos
  BY DEF EnManos, SoloMueve, Actores
<1>2. Esperan' \subseteq Hilos /\ EnManos' \subseteq Hilos
  BY DEF Esperan, EnManos
<1>3. \A h \in Esperan' \cup EnManos' : estado'[h] = "BLOCKED" /\ motivo_bloqueo'[h] # "THREAD_JOIN"
  BY <1>1, <1>2 DEF Atados, NadieMasEspera, Suelta, Libres
<1>4. Atados'
  BY <1>1, <1>3 DEF Atados, NadieMasEspera
<1>5. ASSUME pc'[CP] = "saca" PROVE loc'[CP].hilo \notin ToSet(cola_ready')
  <2>1. a # CP /\ pc[CP] = "saca" /\ loc'[CP] = loc[CP]
    BY <1>5, ActoresDistintos DEF SoloMueve
  <2>2. loc[CP].hilo \notin ToSet(cola_ready)
    BY <2>1 DEF NadieLoEncola
  <2>3. loc'[CP].hilo \in Hilos \cup {NULO}
    BY ActoresDistintos, <2>1, LocTipo DEF IInv, TypeOK
  <2>4. loc'[CP].hilo \in Hilos => loc'[CP].hilo \in Elegidos'
    BY <1>5 DEF Elegidos
  <2>5. NULO \notin X
    BY ActoresDistintos
  <2> QED BY <2>1, <2>2, <2>3, <2>4, <2>5 DEF Suelta, Libres
<1> QED BY <1>4, <1>5 DEF NadieLoEncola

-----------------------------------------------------------------------------
(* What a step does to the wait lists.                                     *)

LEMMA EsperaIgual ==
    ASSUME Atados, UNCHANGED mutex
    PROVE  NadieMasEspera
<1>1. EsperaUnica'
  BY DEF Atados, EsperaUnica, Espera
<1> QED BY <1>1 DEF NadieMasEspera, Esperan

\* No list changes, but for one that is new and empty.
LEMMA EsperaSinMas ==
    ASSUME Atados,
           \A p \in Pids : \A k \in DOMAIN mutex'[p] :
               \/ mutex'[p][k].hilos = <<>>
               \/ k \in DOMAIN mutex[p] /\ mutex'[p][k].hilos = mutex[p][k].hilos
    PROVE  NadieMasEspera
<1>0. ToSet(<<>>) = {} /\ SinDobles(<<>>)
  BY DEF ToSet, SinDobles
<1>1. \A p \in Pids : \A k \in DOMAIN mutex'[p] :
         /\ SinDobles(mutex'[p][k].hilos)
         /\ \/ ToSet(mutex'[p][k].hilos) = {}
            \/ k \in DOMAIN mutex[p] /\ ToSet(mutex'[p][k].hilos) = Espera(p, k)
  BY <1>0, Zenon DEF Atados, EsperaUnica, Espera
<1>2. \A p, q \in Pids : \A k \in DOMAIN mutex[p], m \in DOMAIN mutex[q] :
         p # q \/ k # m => Espera(p, k) \cap Espera(q, m) = {}
  BY Zenon DEF Atados, EsperaUnica
<1>3. ASSUME NEW p \in Pids, NEW q \in Pids, NEW k \in DOMAIN mutex'[p],
             NEW m \in DOMAIN mutex'[q], p # q \/ k # m
      PROVE  ToSet(mutex'[p][k].hilos) \cap ToSet(mutex'[q][m].hilos) = {}
  <2> DEFINE A == ToSet(mutex'[p][k].hilos)
             B == ToSet(mutex'[q][m].hilos)
  <2>1. /\ A = {} \/ (k \in DOMAIN mutex[p] /\ A = Espera(p, k))
        /\ B = {} \/ (m \in DOMAIN mutex[q] /\ B = Espera(q, m))
    BY <1>1, Zenon
  <2>2. k \in DOMAIN mutex[p] /\ m \in DOMAIN mutex[q] => Espera(p, k) \cap Espera(q, m) = {}
    BY <1>2, <1>3
  <2> HIDE DEF A, B
  <2>3. A \cap B = {}
    BY <2>1, <2>2
  <2> QED BY <2>3 DEF A, B
<1>4. EsperaUnica'
  BY <1>1, <1>3, Zenon DEF EsperaUnica, Espera
<1>5. Esperan' \subseteq Esperan
  BY <1>1 DEF Esperan, Espera
<1> QED BY <1>4, <1>5 DEF NadieMasEspera

\* One list changes, and gains nobody that waits in another one.
LEMMA EsperaCambia ==
    ASSUME TipoProcesos, Atados, NEW p \in Pids, NEW k \in DOMAIN mutex[p],
           NEW r \in Mutexes, mutex' = [mutex EXCEPT ![p] = [@ EXCEPT ![k] = r]],
           SinDobles(r.hilos), NEW X, X \cap Esperan = {},
           ToSet(r.hilos) \subseteq Espera(p, k) \cup X
    PROVE  /\ EsperaUnica'
           /\ Esperan' \subseteq (Esperan \ Espera(p, k)) \cup ToSet(r.hilos)
<1>1. /\ mutex'[p] = [mutex[p] EXCEPT ![k] = r]
      /\ \A q \in Pids : q # p => mutex'[q] = mutex[q]
  BY DEF TipoProcesos
<1>2. /\ DOMAIN mutex'[p] = DOMAIN mutex[p] /\ mutex'[p][k] = r
      /\ \A m \in DOMAIN mutex[p] : m # k => mutex'[p][m] = mutex[p][m]
  BY <1>1
<1> DEFINE E(q, m) == ToSet(mutex'[q][m].hilos)
<1>3. /\ \A q \in Pids : DOMAIN mutex'[q] = DOMAIN mutex[q]
      /\ E(p, k) = ToSet(r.hilos)
      /\ \A q \in Pids : \A m \in DOMAIN mutex[q] :
            q # p \/ m # k => mutex'[q][m] = mutex[q][m]
  BY <1>1, <1>2
<1>4. /\ \A q \in Pids : \A m \in DOMAIN mutex[q] : SinDobles(mutex'[q][m].hilos)
      /\ \A q \in Pids : \A m \in DOMAIN mutex[q] :
            q # p \/ m # k => E(q, m) = Espera(q, m)
  BY <1>2, <1>3 DEF Atados, EsperaUnica, Espera
<1>5. \A q \in Pids : \A m \in DOMAIN mutex[q] : Espera(q, m) \cap X = {}
  <2> SUFFICES ASSUME NEW q \in Pids, NEW m \in DOMAIN mutex[q]
               PROVE  Espera(q, m) \subseteq Esperan
    OBVIOUS
  <2>1. mutex[q][m].hilos \in Seq(Hilos)
    BY MutexTipo
  <2>2. Espera(q, m) \subseteq Hilos
    BY <2>1, ElementosDeLista DEF Espera
  <2> QED BY <2>2 DEF Esperan, Espera
<1>6. \A q, o \in Pids : \A m \in DOMAIN mutex[q], n \in DOMAIN mutex[o] :
         q # o \/ m # n => Espera(q, m) \cap Espera(o, n) = {}
  BY Zenon DEF Atados, EsperaUnica
<1> HIDE DEF E
<1>7. ASSUME NEW q \in Pids, NEW o \in Pids, NEW m \in DOMAIN mutex[q],
             NEW n \in DOMAIN mutex[o], q # o \/ m # n
      PROVE  E(q, m) \cap E(o, n) = {}
  <2>1. CASE q = p /\ m = k
    <3>1. E(o, n) = Espera(o, n) /\ E(q, m) \subseteq Espera(p, k) \cup X
      BY <1>3, <1>4, <1>7, <2>1
    <3>2. Espera(p, k) \cap Espera(o, n) = {} /\ Espera(o, n) \cap X = {}
      BY <1>5, <1>6, <1>7, <2>1
    <3> QED BY <3>1, <3>2
  <2>2. CASE o = p /\ n = k
    <3>1. E(q, m) = Espera(q, m) /\ E(o, n) \subseteq Espera(p, k) \cup X
      BY <1>3, <1>4, <1>7, <2>2
    <3>2. Espera(p, k) \cap Espera(q, m) = {} /\ Espera(q, m) \cap X = {}
      BY <1>5, <1>6, <1>7, <2>2
    <3> QED BY <3>1, <3>2
  <2>3. CASE (q # p \/ m # k) /\ (o # p \/ n # k)
    BY <1>4, <1>6, <1>7, <2>3
  <2> QED BY <2>1, <2>2, <2>3
<1>8. EsperaUnica'
  <2>1. \A q, o \in Pids : \A m \in DOMAIN mutex'[q], n \in DOMAIN mutex'[o] :
           q # o \/ m # n => ToSet(mutex'[q][m].hilos) \cap ToSet(mutex'[o][n].hilos) = {}
    BY <1>3, <1>7, Zenon DEF E
  <2>2. \A q \in Pids : \A m \in DOMAIN mutex'[q] : SinDobles(mutex'[q][m].hilos)
    BY <1>3, <1>4, Zenon
  <2> QED BY <2>1, <2>2, Zenon DEF EsperaUnica, Espera
<1>9. ASSUME NEW g \in Esperan' PROVE g \in (Esperan \ Espera(p, k)) \cup ToSet(r.hilos)
  <2>1. g \in Hilos /\ \E q \in Pids : \E m \in DOMAIN mutex'[q] : g \in E(q, m)
    BY DEF Esperan, E
  <2>2. PICK q \in Pids : \E m \in DOMAIN mutex[q] : g \in E(q, m)
    BY <1>3, <2>1
  <2>5. PICK m \in DOMAIN mutex[q] : g \in E(q, m)
    BY <2>2
  <2>3. CASE q = p /\ m = k
    BY <1>3, <2>5, <2>3
  <2>4. CASE q # p \/ m # k
    <3>1. g \in Espera(q, m) /\ Espera(q, m) \cap Espera(p, k) = {}
      BY <1>4, <1>6, <2>5, <2>4
    <3>2. g \in Esperan
      BY <2>1, <3>1 DEF Esperan, Espera
    <3> QED BY <3>1, <3>2
  <2> QED BY <2>3, <2>4
<1> QED BY <1>8, <1>9

Seguro == Atados /\ NadieLoEncola

LEMMA PasoQuieto ==
    ASSUME IInv, Seguro, NEW a \in Actores, SoloMueve(a),
           pc'[a] # "saca", pc'[a] \in Manos => pc[a] \in Manos,
           NadieMasEspera, Suelta({}), UNCHANGED motivo_bloqueo
    PROVE  Seguro'
<1>1. Libres({}) /\ {} \in SUBSET Hilos
  BY DEF Libres
<1> QED BY <1>1, PasoSuelto DEF Seguro

LEMMA PasoDeHilo ==
    ASSUME IInv, Seguro, NEW a \in Actores, SoloMueve(a),
           pc'[a] # "saca", pc'[a] \notin Manos,
           NadieMasEspera, NEW h \in Hilos, Suelta({h}),
           h \notin Esperan', h \notin EnManos', h \notin Elegidos',
           \A g \in Hilos \ {h} : motivo_bloqueo'[g] = motivo_bloqueo[g]
    PROVE  Seguro'
<1>1. Libres({h}) /\ {h} \in SUBSET Hilos
  BY DEF Libres
<1> QED BY <1>1, PasoSuelto DEF Seguro

LEMMA SinSaca ==
    ASSUME pc'[CP] # "saca"
    PROVE  Elegidos' = {}
  BY DEF Elegidos

\* Whoever is READY or EXEC is not tied to anybody.
LEMMA NoAtado ==
    ASSUME Atados, NEW h \in Hilos, estado[h] # "BLOCKED" \/ motivo_bloqueo[h] = "THREAD_JOIN"
    PROVE  h \notin Esperan \cup EnManos
  BY DEF Atados

LEMMA ExecNoAtado ==
    ASSUME Atados, Lugares, hilo_en_exec \in Hilos
    PROVE  hilo_en_exec \notin Esperan \cup EnManos
<1>1. hilo_en_exec # NULO
  BY ActoresDistintos
<1> QED BY <1>1, NoAtado DEF Lugares, UnSoloLugar

LEMMA ManosSiguen ==
    ASSUME NEW a \in Actores, SoloMueve(a), pc'[a] \notin Manos
    PROVE  EnManos' \subseteq EnManos
  BY DEF EnManos, SoloMueve, Actores

-----------------------------------------------------------------------------
(* Short-term scheduler.                                                   *)

LEMMA PlanificarSeguro ==
    ASSUME IInv, Lugares, Seguro, Planificar, UNCHANGED <<bloqueo, mutex>>
    PROVE  Seguro'
<1>1. UNCHANGED <<estado, motivo_bloqueo, mutex>>
  BY DEF Planificar, bloqueo
<1>2. NadieMasEspera
  BY EsperaIgual DEF Seguro
<1>3. cola_ready # <<>>
  BY HayQuien
<1> DEFINE k == IF Algoritmo = "FIFO" THEN 1 ELSE MayorPrioridad
           h == cola_ready[k]
<1>4. /\ loc' = [loc EXCEPT ![CP].hilo = h] /\ cola_ready' = RemoveAt(cola_ready, k)
      /\ Va(CP, "saca")
  BY <1>3 DEF Planificar
<1>5. cola_ready \in Seq(Hilos) /\ Len(cola_ready) \in Nat \ {0}
  BY <1>3, LenProperties, EmptySeq DEF IInv, TypeOK, TipoColas
<1>6. k \in 1..Len(cola_ready)
  BY <1>3, <1>5, MayorPrioridadTipo
<1> HIDE DEF k
<1>7. ToSet(cola_ready') = ToSet(cola_ready) \ {h}
  BY <1>4, <1>5, <1>6, QuitarPosicionUnica, LugarListas DEF Lugares, IInv, TypeOK
<1> HIDE DEF h
<1>8. SoloMueve(CP) /\ pc'[CP] = "saca"
  BY <1>4, SoloVa, ActoresDistintos
<1>9. loc'[CP].hilo = h
  BY <1>4, ActoresDistintos DEF IInv, TypeOK, TipoActores, Locales
<1>10. EnManos' \subseteq EnManos
  BY <1>8, ManosSiguen, ActoresDistintos DEF Manos
<1>11. Atados'
  BY <1>1, <1>2, <1>10 DEF Seguro, Atados, NadieMasEspera
<1> QED BY <1>7, <1>9, <1>11 DEF Seguro, NadieLoEncola

LEMMA PonerEnExecSeguro ==
    ASSUME IInv, Lugares, Seguro, PonerEnExec, UNCHANGED <<bloqueo, mutex>>
    PROVE  Seguro'
<1> DEFINE h == loc[CP].hilo
<1>1. /\ pc[CP] = "saca" /\ UNCHANGED <<cola_ready, motivo_bloqueo, mutex>>
      /\ estado' = [estado EXCEPT ![h] = "EXEC"]
      /\ SoloMueve(CP) /\ pc'[CP] = "cambio"
  BY SoloVa, ActoresDistintos DEF PonerEnExec, EnPaso, bloqueo
<1>2. h \in Hilos /\ estado[h] = "READY"
  BY <1>1 DEF Lugares, Eligiendo
<1>3. Suelta({h})
  BY <1>1 DEF Suelta, IInv, TypeOK, TipoColas
<1>4. NadieMasEspera
  BY <1>1, EsperaIgual DEF Seguro
<1>5. EnManos' \subseteq EnManos
  BY <1>1, ManosSiguen, ActoresDistintos DEF Manos
<1>6. h \notin Esperan' /\ h \notin EnManos' /\ h \notin Elegidos'
  BY <1>1, <1>2, <1>4, <1>5, NoAtado, SinSaca DEF NadieMasEspera, Seguro
<1> HIDE DEF h
<1> QED BY <1>1, <1>2, <1>3, <1>4, <1>6, PasoDeHilo, ActoresDistintos DEF Manos

\* EjecutarHilo and Interrupcion.
LEMMA DesalojoSeguro ==
    ASSUME IInv, Lugares, Seguro, hilo_en_exec \in Hilos, SoloMueve(CP),
           pc'[CP] \in {"fin", "cpu"}, UNCHANGED <<bloqueo, mutex>>,
           PasarAReady(hilo_en_exec) \/ UNCHANGED colas
    PROVE  Seguro'
<1>1. NadieMasEspera /\ UNCHANGED motivo_bloqueo
  BY EsperaIgual DEF Seguro, bloqueo
<1>2. CASE UNCHANGED colas
  <2>1. Suelta({})
    BY <1>2, SueltaNada DEF colas
  <2> QED BY <1>1, <2>1, PasoQuieto, ActoresDistintos DEF Manos
<1>3. CASE PasarAReady(hilo_en_exec)
  <2> DEFINE h == hilo_en_exec
  <2>1. Suelta({h})
    BY <1>3, SueltaAReady DEF IInv, TypeOK
  <2>2. EnManos' \subseteq EnManos
    BY ManosSiguen, ActoresDistintos DEF Manos
  <2>3. h \notin Esperan' /\ h \notin EnManos' /\ h \notin Elegidos'
    BY <1>1, <2>2, ExecNoAtado, SinSaca DEF NadieMasEspera, Seguro
  <2> HIDE DEF h
  <2>4. h \in Hilos
    BY DEF h
  <2> QED BY <1>1, <2>1, <2>3, <2>4, PasoDeHilo, ActoresDistintos DEF Manos
<1> QED BY <1>2, <1>3

LEMMA PasoCortoSeguro ==
    ASSUME IInv, Lugares, Seguro, UNCHANGED <<bloqueo, mutex>>,
           \/ EsperaReady \/ HayReady \/ Planificar \/ PonerEnExec \/ EjecutarHilo
           \/ FinEjecucion \/ EsperarQuantum \/ Interrupcion
    PROVE  Seguro'
<1>1. ASSUME SoloMueve(CP), pc'[CP] \in {"hay_ready", "planifica", "join_rr", "sem_ready"},
             UNCHANGED <<cola_ready, estado>>
      PROVE  Seguro'
  <2>1. NadieMasEspera /\ UNCHANGED motivo_bloqueo
    BY EsperaIgual DEF Seguro, bloqueo
  <2>2. Suelta({})
    BY <1>1, SueltaNada
  <2> QED BY <1>1, <2>1, <2>2, PasoQuieto, ActoresDistintos DEF Manos
<1>2. CASE EsperaReady
  BY <1>1, <1>2, SoloVa, ActoresDistintos DEF EsperaReady
<1>3. CASE FinEjecucion
  BY <1>1, <1>3, SoloVa, ActoresDistintos DEF FinEjecucion
<1>4. CASE EsperarQuantum
  BY <1>1, <1>4, SoloVa, ActoresDistintos DEF EsperarQuantum, colas
<1>5. CASE EjecutarHilo
  <2>1. hilo_en_exec \in Hilos
    BY <1>5, PunteroExec DEF IInv, EjecutarHilo, EnPaso
  <2>2. /\ SoloMueve(CP) /\ pc'[CP] \in {"fin", "cpu"}
        /\ PasarAReady(hilo_en_exec) \/ UNCHANGED colas
    BY <1>5, SoloVa, ActoresDistintos DEF EjecutarHilo
  <2> QED BY <2>1, <2>2, DesalojoSeguro
<1>6. CASE Interrupcion
  <2>1. hilo_en_exec \in Hilos
    BY <1>6, PunteroExec DEF IInv, Interrupcion, CPUContesta, EnPaso
  <2>2. SoloMueve(CP) /\ pc'[CP] = "fin" /\ PasarAReady(hilo_en_exec)
    BY <1>6, SoloVa, ActoresDistintos DEF Interrupcion
  <2> QED BY <2>1, <2>2, DesalojoSeguro
<1>7. CASE HayReady
  BY <1>1, <1>7, MiraReady DEF colas
<1> QED BY <1>2, <1>3, <1>4, <1>5, <1>6, <1>7, PlanificarSeguro, PonerEnExecSeguro

-----------------------------------------------------------------------------
(* System calls.                                                           *)

\* The running thread is blocked, and queues in a mutex or gets a handler.
LEMMA BloqueoSeguro ==
    ASSUME IInv, Lugares, Seguro, hilo_en_exec \in Hilos, NEW m \in {"MUTEX", "IO"},
           PasarABlocked(hilo_en_exec, m), pc'[CP] # "saca", EsperaUnica',
           NEW A, NEW B, A \cup B \subseteq {hilo_en_exec}, A \cap B = {},
           Esperan' \subseteq Esperan \cup A, EnManos' \subseteq EnManos \cup B
    PROVE  Seguro'
<1> DEFINE h == hilo_en_exec
<1>1. /\ estado' = [estado EXCEPT ![h] = "BLOCKED"]
      /\ motivo_bloqueo' = [motivo_bloqueo EXCEPT ![h] = m]
  BY DEF PasarABlocked
<1>2. /\ \A g \in Hilos : estado'[g] = IF g = h THEN "BLOCKED" ELSE estado[g]
      /\ \A g \in Hilos : motivo_bloqueo'[g] = IF g = h THEN m ELSE motivo_bloqueo[g]
  BY <1>1 DEF IInv, TypeOK, TipoColas, TipoBloqueo
<1>3. Esperan' \subseteq Hilos /\ EnManos' \subseteq Hilos
  BY DEF Esperan, EnManos
<1>4. h \notin Esperan \cup EnManos
  BY ExecNoAtado DEF Seguro
<1>5. \A g \in Esperan' \cup EnManos' :
          estado'[g] = "BLOCKED" /\ motivo_bloqueo'[g] # "THREAD_JOIN"
  BY <1>2, <1>3 DEF Seguro, Atados
<1>6. Esperan' \cap EnManos' = {}
  BY <1>4 DEF Seguro, Atados
<1>7. Atados'
  BY <1>5, <1>6 DEF Atados
<1> QED BY <1>7 DEF Seguro, NadieLoEncola

LEMMA DetachSeguro ==
    ASSUME IInv, Lugares, Seguro, EnSyscall, NEW m \in {"MUTEX", "IO"},
           PasarABlocked(hilo_en_exec, m), NEW e \in {"dump", "io_espera"},
           pc' = [pc EXCEPT ![CP] = "fin", ![hilo_en_exec] = e], UNCHANGED mutex
    PROVE  Seguro'
<1> DEFINE h == hilo_en_exec
<1>1. h \in Hilos
  BY DEF EnSyscall
<1>2. pc'[CP] = "fin" /\ \A b \in Actores \ {CP, h} : pc'[b] = pc[b]
  BY <1>1, ActoresDistintos DEF IInv, TypeOK, TipoActores
<1>3. EnManos' \subseteq EnManos \cup {h}
  BY <1>2, ActoresDistintos DEF EnManos
<1>4. NadieMasEspera
  BY EsperaIgual DEF Seguro
<1>5. Esperan' \subseteq Esperan \cup {} /\ EsperaUnica'
  BY <1>4 DEF NadieMasEspera
<1>6. {} \cup {h} \subseteq {hilo_en_exec} /\ {} \cap {h} = {} /\ pc'[CP] # "saca"
  BY <1>2
<1> HIDE DEF h
<1> QED BY <1>1, <1>3, <1>5, <1>6, BloqueoSeguro DEF EnSyscall

LEMMA ThreadJoinSeguro ==
    ASSUME IInv, Lugares, Seguro, EnSyscall, NEW s, ThreadJoin(s)
    PROVE  Seguro'
<1> DEFINE h == hilo_en_exec
<1>1. /\ UNCHANGED <<loc, mutex>> /\ h \in Hilos
      /\ Va(CP, "fin") \/ Va(CP, "cambio")
      /\ PasarABlocked(h, "THREAD_JOIN") \/ UNCHANGED <<colas, bloqueo>>
  BY Zenon DEF ThreadJoin, procesos, EnSyscall
<1>2. SoloMueve(CP) /\ pc'[CP] \in {"fin", "cambio"}
  BY <1>1, SoloVa, ActoresDistintos
<1>3. NadieMasEspera
  BY <1>1, EsperaIgual DEF Seguro
<1>4. CASE UNCHANGED <<colas, bloqueo>>
  <2>1. Suelta({}) /\ UNCHANGED motivo_bloqueo
    BY <1>4, SueltaNada DEF colas, bloqueo
  <2> QED BY <1>2, <1>3, <2>1, PasoQuieto, ActoresDistintos DEF Manos
<1>5. CASE PasarABlocked(h, "THREAD_JOIN")
  <2>1. /\ cola_ready' \in {cola_ready, RemoveFirst(cola_ready, h)}
        /\ estado' = [estado EXCEPT ![h] = "BLOCKED"]
        /\ motivo_bloqueo' = [motivo_bloqueo EXCEPT ![h] = "THREAD_JOIN"]
    BY <1>5 DEF PasarABlocked, ReadySin
  <2>2. ToSet(cola_ready') \subseteq ToSet(cola_ready)
    BY <2>1, QuitarElementoContenido DEF IInv, TypeOK, TipoColas
  <2>3. Suelta({h})
    BY <2>1, <2>2 DEF Suelta, IInv, TypeOK, TipoColas
  <2>4. \A g \in Hilos \ {h} : motivo_bloqueo'[g] = motivo_bloqueo[g]
    BY <2>1 DEF IInv, TypeOK, TipoBloqueo
  <2>5. EnManos' \subseteq EnManos
    BY <1>2, ManosSiguen, ActoresDistintos DEF Manos
  <2>6. h \notin Esperan' /\ h \notin EnManos' /\ h \notin Elegidos'
    BY <1>1, <1>2, <1>3, <2>5, ExecNoAtado, SinSaca DEF NadieMasEspera, Seguro
  <2> HIDE DEF h
  <2> QED BY <1>1, <1>2, <1>3, <2>3, <2>4, <2>6, PasoDeHilo, ActoresDistintos DEF Manos
<1> QED BY <1>1, <1>4, <1>5

\* System calls that wake up nobody, block nobody and leave the mutexes alone.
LEMMA SyscallQuieta ==
    ASSUME IInv, Seguro, EnSyscall, UNCHANGED <<motivo_bloqueo, mutex>>,
           \/ UNCHANGED colas
           \/ \E h : Desencolar(h),
           SoloMueve(CP), pc'[CP] \notin Manos \cup {"saca"}
    PROVE  Seguro'
<1>1. NadieMasEspera
  BY EsperaIgual DEF Seguro
<1>2. Suelta({})
  BY SueltaNada, SueltaDesencolar DEF colas, IInv, TypeOK
<1> QED BY <1>1, <1>2, PasoQuieto, ActoresDistintos

LEMMA OtrasSeguro ==
    ASSUME IInv, Seguro, EnSyscall, NEW s,
           IniciarProceso(s) \/ ThreadCreate(s) \/ ThreadCancel(s) \/ ThreadExit(s)
             \/ ProcessExit(s)
    PROVE  Seguro'
<1>1. CASE IniciarProceso(s)
  <2>1. SoloMueve(CP) /\ pc'[CP] = "cambio"
    BY <1>1, SoloVa, ActoresDistintos DEF IniciarProceso
  <2>2. UNCHANGED <<motivo_bloqueo, mutex, colas>>
    BY <1>1 DEF IniciarProceso, bloqueo
  <2> QED BY <2>1, <2>2, SyscallQuieta DEF Manos
<1>2. CASE ThreadCreate(s)
  <2>1. SoloMueve(CP) /\ pc'[CP] = "crear_hilo"
    BY <1>2, SoloVa, ActoresDistintos DEF ThreadCreate
  <2>2. UNCHANGED <<motivo_bloqueo, mutex, colas>>
    BY <1>2 DEF ThreadCreate, bloqueo
  <2> QED BY <2>1, <2>2, SyscallQuieta DEF Manos
<1>3. CASE ThreadCancel(s)
  <2>1. SoloMueve(CP) /\ pc'[CP] \in {"fin", "cancela"}
    BY <1>3, SoloVa, ActoresDistintos DEF ThreadCancel
  <2>2. UNCHANGED <<motivo_bloqueo, mutex>> /\ (UNCHANGED colas \/ \E h : Desencolar(h))
    BY <1>3 DEF ThreadCancel, bloqueo, procesos
  <2> QED BY <2>1, <2>2, SyscallQuieta DEF Manos
<1>4. CASE ThreadExit(s)
  <2>1. SoloMueve(CP) /\ pc'[CP] \in {"cpu", "fin_hilo"}
    <3>1. CASE UNCHANGED <<pc, loc>>
      BY <3>1 DEF SoloMueve, EnSyscall
    <3>2. CASE ~UNCHANGED <<pc, loc>>
      BY <1>4, <3>2, SoloVa, ActoresDistintos DEF ThreadExit
    <3> QED BY <3>1, <3>2
  <2>2. UNCHANGED <<motivo_bloqueo, mutex>> /\ \E h : Desencolar(h)
    BY <1>4 DEF ThreadExit, bloqueo, procesos
  <2> QED BY <2>1, <2>2, SyscallQuieta DEF Manos
<1>5. CASE ProcessExit(s)
  <2> DEFINE p == BuscarProceso(hilo_en_exec[1])
  <2>0. /\ Va(CP, "fin_proceso")
        /\ loc' = [loc EXCEPT ![CP] = [@ EXCEPT !.hilo = hilo_en_exec, !.sigue = "fin",
                                               !.proceso = p]]
    BY <1>5 DEF ProcessExit, SalirProceso
  <2>1. SoloMueve(CP) /\ pc'[CP] = "fin_proceso"
    BY <2>0, SoloVa, ActoresDistintos
  <2>2. UNCHANGED <<motivo_bloqueo, mutex>> /\ \E h : Desencolar(h)
    BY <1>5 DEF ProcessExit, SalirProceso, bloqueo, procesos
  <2> QED BY <2>1, <2>2, SyscallQuieta DEF Manos
<1> QED BY <1>1, <1>2, <1>3, <1>4, <1>5

LEMMA MutexCreateSeguro ==
    ASSUME IInv, Seguro, EnSyscall, NEW s, MutexCreate(s)
    PROVE  Seguro'
<1> DEFINE p == BuscarProceso(hilo_en_exec[1])
           r == [nombre |-> s.recurso, owner |-> Nadie, hilos |-> <<>>]
<1>1. SoloMueve(CP) /\ pc'[CP] = "cambio"
  BY SoloVa, ActoresDistintos DEF MutexCreate
<1>2. Suelta({}) /\ UNCHANGED motivo_bloqueo
  BY SueltaNada DEF MutexCreate, colas, bloqueo
<1>3. mutex' = [mutex EXCEPT ![p] = Append(@, r)] /\ p \in Pids /\ r.hilos = <<>>
  BY DEF MutexCreate, EnSyscall
<1> HIDE DEF p, r
<1>4. mutex[p] \in Seq(Mutexes) /\ mutex \in [Pids -> Seq(Mutexes)]
  BY <1>3 DEF IInv, TypeOK, TipoProcesos
<1>5. /\ mutex'[p] = Append(mutex[p], r)
      /\ \A q \in Pids : q # p => mutex'[q] = mutex[q]
  BY <1>3, <1>4, Zenon
<1>6. \A k \in DOMAIN mutex'[p] :
          mutex'[p][k] = r \/ (k \in DOMAIN mutex[p] /\ mutex'[p][k] = mutex[p][k])
  <2>1. r \in Mutexes \cup {r} /\ mutex[p] \in Seq(Mutexes \cup {r})
    BY <1>4
  <2>2. /\ DOMAIN mutex'[p] = 1..(Len(mutex[p]) + 1) /\ mutex'[p][Len(mutex[p]) + 1] = r
        /\ \A k \in 1..Len(mutex[p]) : mutex'[p][k] = mutex[p][k]
        /\ DOMAIN mutex[p] = 1..Len(mutex[p]) /\ Len(mutex[p]) \in Nat
    BY <1>5, <2>1, AppendProperties, LenProperties
  <2> QED BY <2>2
<1>7. \A q \in Pids : \A k \in DOMAIN mutex'[q] :
         \/ mutex'[q][k].hilos = <<>>
         \/ k \in DOMAIN mutex[q] /\ mutex'[q][k].hilos = mutex[q][k].hilos
  BY <1>3, <1>5, <1>6
<1>8. NadieMasEspera
  BY <1>7, EsperaSinMas DEF Seguro
<1> QED BY <1>1, <1>2, <1>8, PasoQuieto, ActoresDistintos DEF Manos

\* A mutex changes its owner only.
LEMMA CambiaDueno ==
    ASSUME TipoProcesos, Atados, NEW p \in Pids, NEW k \in DOMAIN mutex[p],
           NEW o \in Tids \cup {Nadie}, mutex' = [mutex EXCEPT ![p][k].owner = o]
    PROVE  NadieMasEspera
<1> DEFINE r == [mutex[p][k] EXCEPT !.owner = o]
<1>1. mutex[p][k] \in Mutexes
  BY MutexTipo
<1>2. r.hilos = mutex[p][k].hilos
  BY <1>1 DEF Mutexes
<1>3. mutex' = [mutex EXCEPT ![p] = [@ EXCEPT ![k] = r]]
  OBVIOUS
<1> HIDE DEF r
<1>4. /\ mutex'[p] = [mutex[p] EXCEPT ![k] = r]
      /\ \A q \in Pids : q # p => mutex'[q] = mutex[q]
  BY <1>3 DEF TipoProcesos
<1>5. /\ DOMAIN mutex'[p] = DOMAIN mutex[p] /\ mutex'[p][k] = r
      /\ \A m \in DOMAIN mutex[p] : m # k => mutex'[p][m] = mutex[p][m]
  BY <1>4
<1>6. \A q \in Pids : \A m \in DOMAIN mutex'[q] :
         \/ mutex'[q][m].hilos = <<>>
         \/ m \in DOMAIN mutex[q] /\ mutex'[q][m].hilos = mutex[q][m].hilos
  BY <1>2, <1>4, <1>5
<1> QED BY <1>6, EsperaSinMas

LEMMA MutexLockSeguro ==
    ASSUME IInv, Lugares, Seguro, EnSyscall, NEW s, MutexLock(s)
    PROVE  Seguro'
<1> DEFINE h == hilo_en_exec
           p == BuscarProceso(h[1])
           k == BuscarRecurso(p, s.recurso)
<1>1. TipoProcesos /\ h \in Hilos /\ h[2] \in Tids /\ p \in Pids
  BY Pares DEF EnSyscall, IInv, TypeOK
<1>2. SoloMueve(CP) /\ pc'[CP] \in {"fin", "cambio"}
  BY SoloVa, ActoresDistintos DEF MutexLock, Libre
<1>3. k # 0 => /\ k \in DOMAIN mutex[p] /\ mutex[p][k] \in Mutexes
               /\ mutex[p][k].hilos \in Seq(Hilos)
  BY <1>1, BuscarRecursoTipo, MutexTipo
<1>4. ASSUME UNCHANGED <<colas, motivo_bloqueo>>, NadieMasEspera PROVE Seguro'
  <2>1. Suelta({})
    BY <1>4, SueltaNada DEF colas
  <2> QED BY <1>2, <1>4, <2>1, PasoQuieto, ActoresDistintos DEF Manos
<1>5. CASE k = 0 /\ UNCHANGED <<colas, motivo_bloqueo, mutex>>
  BY <1>4, <1>5, EsperaIgual DEF Seguro
<1>6. CASE /\ k # 0 /\ UNCHANGED <<colas, motivo_bloqueo>>
           /\ mutex' = [mutex EXCEPT ![p][k].owner = h[2]]
  <2> HIDE DEF p, k
  <2>1. NadieMasEspera
    BY <1>1, <1>3, <1>6, CambiaDueno DEF Seguro
  <2> QED BY <1>4, <1>6, <2>1
<1>7. CASE /\ k # 0 /\ PasarABlocked(h, "MUTEX")
           /\ mutex' = [mutex EXCEPT ![p][k].hilos = Append(@, h)]
  <2> DEFINE r == [mutex[p][k] EXCEPT !.hilos = Append(@, h)]
  <2>1. Append(mutex[p][k].hilos, h) \in Seq(Hilos)
    BY <1>1, <1>3, <1>7, AppendProperties
  <2>2. r \in Mutexes /\ r.hilos = Append(mutex[p][k].hilos, h)
    BY <2>1, <1>3, <1>7 DEF Mutexes
  <2>3. mutex' = [mutex EXCEPT ![p] = [@ EXCEPT ![k] = r]]
    BY <1>7
  <2> HIDE DEF r, p, k
  <2>4. h \notin Esperan \cup EnManos
    BY <1>1, ExecNoAtado DEF Seguro
  <2>5. SinDobles(mutex[p][k].hilos) /\ Espera(p, k) \subseteq Esperan
    <3>1. ToSet(mutex[p][k].hilos) \subseteq Hilos
      BY <1>3, <1>7, ElementosDeLista
    <3> QED BY <1>1, <1>3, <1>7, <3>1 DEF Seguro, Atados, EsperaUnica, Esperan, Espera
  <2>6. SinDobles(r.hilos) /\ ToSet(r.hilos) = Espera(p, k) \cup {h}
    BY <1>1, <1>3, <1>7, <2>2, <2>4, <2>5, AgregarElemento DEF Espera
  <2>7. /\ EsperaUnica' /\ Esperan' \subseteq (Esperan \ Espera(p, k)) \cup ToSet(r.hilos)
    <3>1. {h} \cap Esperan = {} /\ k \in DOMAIN mutex[p]
      BY <1>3, <1>7, <2>4
    <3> QED BY <1>1, <2>2, <2>3, <2>6, <3>1, EsperaCambia DEF Seguro
  <2>8. Esperan' \subseteq Esperan \cup {h}
    BY <2>5, <2>6, <2>7
  <2>9. EnManos' \subseteq EnManos \cup {}
    BY <1>2, ManosSiguen, ActoresDistintos DEF Manos
  <2>10. {h} \cup {} \subseteq {hilo_en_exec} /\ {h} \cap {} = {} /\ pc'[CP] # "saca"
    BY <1>2
  <2>11. PasarABlocked(hilo_en_exec, "MUTEX") /\ hilo_en_exec \in Hilos
    BY <1>1, <1>7
  <2> HIDE DEF h
  <2> QED BY <2>7, <2>8, <2>9, <2>10, <2>11, BloqueoSeguro
<1> QED BY <1>5, <1>6, <1>7, Zenon DEF MutexLock

\* The new owner leaves the only list it was in.
LEMMA MutexUnlockSeguro ==
    ASSUME IInv, Lugares, Seguro, EnSyscall, NEW s, MutexUnlock(s)
    PROVE  Seguro'
<1> DEFINE h == hilo_en_exec
           p == BuscarProceso(h[1])
           k == BuscarRecurso(p, s.recurso)
           n == mutex[p][k].hilos[1]
<1>1. TipoProcesos /\ p \in Pids
  BY DEF EnSyscall, IInv, TypeOK
<1>2. SoloMueve(CP) /\ pc'[CP] = "cambio" /\ UNCHANGED motivo_bloqueo
  BY SoloVa, ActoresDistintos DEF MutexUnlock, bloqueo
<1>3. k # 0 => /\ k \in DOMAIN mutex[p] /\ mutex[p][k] \in Mutexes
               /\ mutex[p][k].hilos \in Seq(Hilos)
               /\ mutex[p][k].hilos # <<>> => n \in Hilos
  BY <1>1, BuscarRecursoTipo, MutexTipo
<1>4. ASSUME UNCHANGED colas, NadieMasEspera PROVE Seguro'
  <2>1. Suelta({})
    BY <1>4, SueltaNada DEF colas
  <2> QED BY <1>2, <1>4, <2>1, PasoQuieto, ActoresDistintos DEF Manos
<1>5. CASE UNCHANGED <<colas, mutex>>
  BY <1>4, <1>5, EsperaIgual DEF Seguro
<1>6. CASE k # 0 /\ UNCHANGED colas /\ mutex' = [mutex EXCEPT ![p][k].owner = Nadie]
  <2> HIDE DEF p, k
  <2>1. NadieMasEspera
    BY <1>1, <1>3, <1>6, CambiaDueno DEF Seguro
  <2> QED BY <1>4, <1>6, <2>1
<1>7. CASE /\ k # 0 /\ mutex[p][k].hilos # <<>> /\ PasarAReady(n)
           /\ mutex' = [mutex EXCEPT ![p][k] = Entregado(@)]
  <2> DEFINE r == Entregado(mutex[p][k])
             l == mutex[p][k].hilos
  <2>1. n \in Hilos /\ n[2] \in Tids /\ Tail(l) \in Seq(Hilos)
    BY <1>3, <1>7, Pares, HeadTailProperties
  <2>2. r \in Mutexes /\ r.hilos = Tail(l)
    BY <1>3, <1>7, <2>1 DEF Mutexes, Entregado
  <2>3. mutex' = [mutex EXCEPT ![p] = [@ EXCEPT ![k] = r]]
    BY <1>7
  <2>4. l \in Seq(Hilos) /\ l # <<>> /\ SinDobles(l) /\ k \in DOMAIN mutex[p]
    BY <1>1, <1>3, <1>7 DEF Seguro, Atados, EsperaUnica
  <2> HIDE DEF r, l
  <2>5. n = l[1]
    BY DEF l
  <2>6. SinDobles(Tail(l)) /\ ToSet(Tail(l)) = ToSet(l) \ {n}
    BY <2>4, <2>5, ColaUnica
  <2>7. Espera(p, k) = ToSet(l) /\ n \in Espera(p, k)
    BY <2>4, <2>5, LenProperties, EmptySeq DEF ToSet, Espera, l
  <2> HIDE DEF n, p, k
  <2>8. /\ EsperaUnica' /\ Esperan' \subseteq (Esperan \ Espera(p, k)) \cup ToSet(r.hilos)
    <3>1. ToSet(r.hilos) \subseteq Espera(p, k) \cup {} /\ {} \cap Esperan = {}
          /\ SinDobles(r.hilos)
      BY <2>2, <2>6, <2>7
    <3> QED BY <1>1, <2>2, <2>3, <2>4, <3>1, EsperaCambia DEF Seguro
  <2>9. n \in Esperan /\ n \notin EnManos
    BY <1>1, <2>1, <2>4, <2>7 DEF Esperan, Espera, Seguro, Atados
  <2>10. NadieMasEspera
    <3>1. Espera(p, k) \subseteq Esperan
      BY <1>1, <2>4, <2>7, ElementosDeLista DEF Esperan, Espera
    <3> QED BY <2>2, <2>6, <2>7, <2>8, <3>1 DEF NadieMasEspera
  <2>11. EnManos' \subseteq EnManos
    BY <1>2, ManosSiguen, ActoresDistintos DEF Manos
  <2>12. n \notin Esperan' /\ n \notin EnManos' /\ n \notin Elegidos'
    BY <1>2, <2>2, <2>6, <2>7, <2>8, <2>9, <2>11, SinSaca
  <2>13. Suelta({n})
    BY <1>7, <2>1, SueltaAReady DEF IInv, TypeOK
  <2> QED BY <1>2, <2>1, <2>10, <2>12, <2>13, PasoDeHilo, ActoresDistintos DEF Manos
<1> QED BY <1>5, <1>6, <1>7, Zenon DEF MutexUnlock

LEMMA SyscallSeguro ==
    ASSUME IInv, Lugares, Seguro, Syscall
    PROVE  Seguro'
<1>1. EnSyscall
  BY AlAtender DEF Syscall
<1>2. PICK s :
        \/ DumpMemory(s) \/ PeticionIO(s) \/ IniciarProceso(s) \/ ThreadCreate(s)
        \/ ThreadJoin(s) \/ ThreadCancel(s) \/ MutexCreate(s) \/ MutexLock(s)
        \/ MutexUnlock(s) \/ ThreadExit(s) \/ ProcessExit(s)
  BY Zenon DEF Syscall
<1>3. CASE DumpMemory(s)
  BY <1>1, <1>3, DetachSeguro DEF DumpMemory, procesos
<1>4. CASE PeticionIO(s)
  BY <1>1, <1>4, DetachSeguro DEF PeticionIO, procesos
<1> QED
  BY <1>1, <1>2, <1>3, <1>4, OtrasSeguro, ThreadJoinSeguro, MutexCreateSeguro,
     MutexLockSeguro, MutexUnlockSeguro, Zenon

-----------------------------------------------------------------------------
(* Requests to memoria.                                                    *)

\* A thread that nobody had seen is tied to nobody.
LEMMA NuevoNoAtado ==
    ASSUME NEW h \in Hilos, h \notin Ocupados
    PROVE  h \notin Esperan \cup EnManos \cup Elegidos
  BY DEF Ocupados, Atendidos, EnManos, Manos

LEMMA SalirProcesoSeguro ==
    ASSUME IInv, Seguro, NEW a \in Actores, NEW h, NEW e, SalirProceso(a, h, e),
           UNCHANGED <<bloqueo, mutex>>
    PROVE  Seguro'
<1> DEFINE p == BuscarProceso(h[1])
<1>1. /\ Va(a, "fin_proceso") /\ Desencolar(h)
      /\ loc' = [loc EXCEPT ![a] = [@ EXCEPT !.hilo = h, !.sigue = e, !.proceso = p]]
  BY DEF SalirProceso
<1>2. SoloMueve(a) /\ pc'[a] = "fin_proceso"
  BY <1>1, SoloVa
<1>3. Suelta({}) /\ NadieMasEspera /\ UNCHANGED motivo_bloqueo
  BY <1>1, SueltaDesencolar, EsperaIgual DEF IInv, TypeOK, Seguro, bloqueo
<1> QED BY <1>2, <1>3, PasoQuieto DEF Manos

LEMMA CrearHiloSeguro ==
    ASSUME IInv, Lugares, Seguro, CrearHilo, UNCHANGED <<bloqueo, mutex>>
    PROVE  Seguro'
<1> DEFINE h == loc[CP].hilo
<1>1. h \in Hilos /\ pc[CP] = "crear_hilo"
  BY PunteroTCB, ActoresDistintos DEF IInv, CrearHilo, EnPaso
<1>2. NadieMasEspera /\ UNCHANGED motivo_bloqueo
  BY EsperaIgual DEF Seguro, bloqueo
<1>3. CASE archivo[h] \in Existe
  <2>1. EncolarEnReady(h) /\ Va(CP, "cambio") /\ UNCHANGED loc
    BY <1>3 DEF CrearHilo
  <2>2. h \notin Ocupados
    BY <1>1 DEF Lugares, Vistos, Visto
  <2>3. Suelta({h})
    BY <1>1, <2>1, SueltaEncolar DEF IInv, TypeOK
  <2>4. SoloMueve(CP) /\ pc'[CP] = "cambio"
    BY <2>1, SoloVa, ActoresDistintos
  <2>5. EnManos' \subseteq EnManos
    BY <2>4, ManosSiguen, ActoresDistintos DEF Manos
  <2>6. h \notin Esperan' /\ h \notin EnManos' /\ h \notin Elegidos'
    BY <1>1, <1>2, <2>2, <2>4, <2>5, NuevoNoAtado, SinSaca DEF NadieMasEspera
  <2> HIDE DEF h
  <2> QED BY <1>1, <1>2, <2>3, <2>4, <2>6, PasoDeHilo, ActoresDistintos DEF Manos
<1>4. CASE archivo[h] \notin Existe
  <2>1. SalirProceso(CP, h, "cambio")
    BY <1>4 DEF CrearHilo
  <2> QED BY <2>1, SalirProcesoSeguro, ActoresDistintos
<1> QED BY <1>3, <1>4

LEMMA FinHiloSeguro ==
    ASSUME IInv, Seguro, FinHilo, UNCHANGED <<bloqueo, mutex>>
    PROVE  Seguro'
<1>1. /\ UNCHANGED colas
      /\ Va(CP, "libera_hilo") \/ Va(CP, "fin")
      /\ loc' = [loc EXCEPT ![CP] = [@ EXCEPT !.proceso = NULO, !.sigue = "fin"]]
  BY DEF FinHilo
<1>2. SoloMueve(CP) /\ pc'[CP] \in {"libera_hilo", "fin"}
  BY <1>1, SoloVa, ActoresDistintos
<1>3. Suelta({}) /\ NadieMasEspera /\ UNCHANGED motivo_bloqueo
  BY <1>1, SueltaNada, EsperaIgual DEF Seguro, bloqueo, colas
<1> QED BY <1>2, <1>3, PasoQuieto, ActoresDistintos DEF Manos

-----------------------------------------------------------------------------
(* liberar_pcb and liberar_hilo.                                           *)

\* The steps of a loop that only frees.
LEMMA LiberaQuieta ==
    ASSUME IInv, Seguro, NEW a \in Actores, SoloMueve(a),
           pc'[a] \notin Manos \cup {"saca"}, UNCHANGED <<motivo_bloqueo, mutex>>,
           UNCHANGED colas \/ \E h : Desencolar(h)
    PROVE  Seguro'
<1>1. NadieMasEspera
  BY EsperaIgual DEF Seguro
<1>2. Suelta({})
  BY SueltaNada, SueltaDesencolar DEF colas, IInv, TypeOK
<1> QED BY <1>1, <1>2, PasoQuieto

LEMMA FinProcesoSeguro ==
    ASSUME IInv, Seguro, NEW a \in Actores, FinProceso(a)
    PROVE  Seguro'
<1>1. /\ UNCHANGED colas /\ UNCHANGED <<motivo_bloqueo, mutex>>
      /\ Va(a, "desencola") \/ Va(a, loc[a].sigue)
      /\ loc' = [loc EXCEPT ![a] = [@ EXCEPT !.i = 1, !.j = 1]]
  BY DEF FinProceso, bloqueo, procesos
<1>2. SoloMueve(a) /\ pc'[a] \in {"desencola", "fin", "cambio", "inicio", "no"}
  BY <1>1, SoloVa, LocTipo DEF IInv, TypeOK
<1> QED BY <1>1, <1>2, LiberaQuieta DEF Manos

LEMMA DesencolarTodosSeguro ==
    ASSUME IInv, Seguro, NEW a \in Actores, DesencolarTodos(a)
    PROVE  Seguro'
<1>1. pc[a] = "desencola" /\ UNCHANGED <<motivo_bloqueo, mutex>>
  BY DEF DesencolarTodos, EnPaso, bloqueo, procesos
<1>2. CASE loc[a].j <= Len(threads[loc[a].proceso])
  <2>1. UNCHANGED pc /\ loc' = [loc EXCEPT ![a].j = @ + 1] /\ \E h : Desencolar(h)
    BY <1>2 DEF DesencolarTodos
  <2>2. SoloMueve(a) /\ pc'[a] = "desencola"
    BY <1>1, <2>1, SoloLoc
  <2> QED BY <1>1, <2>1, <2>2, LiberaQuieta DEF Manos
<1>3. CASE ~(loc[a].j <= Len(threads[loc[a].proceso]))
  <2>1. UNCHANGED <<colas, loc>> /\ Va(a, "libera")
    BY <1>3 DEF DesencolarTodos
  <2>2. SoloMueve(a) /\ pc'[a] = "libera"
    BY <2>1, SoloVa
  <2> QED BY <1>1, <2>1, <2>2, LiberaQuieta DEF Manos
<1> QED BY <1>2, <1>3

LEMMA LiberarPcbSeguro ==
    ASSUME IInv, Seguro, NEW a \in Actores, LiberarPcb(a)
    PROVE  Seguro'
<1> DEFINE t == threads[loc[a].proceso]
           i == loc[a].i
<1>1. UNCHANGED <<colas, motivo_bloqueo, mutex>>
  BY DEF LiberarPcb, bloqueo
<1>2. CASE i <= Len(t)
  <2>1. /\ loc' = [loc EXCEPT ![a] = [@ EXCEPT !.hilo = t[i], !.i = i + 1]]
        /\ Va(a, "libera_hilo")
    BY <1>2 DEF LiberarPcb
  <2>2. SoloMueve(a) /\ pc'[a] = "libera_hilo"
    BY <2>1, SoloVa
  <2> QED BY <1>1, <2>2, LiberaQuieta DEF Manos
<1>3. CASE ~(i <= Len(t))
  <2>1. UNCHANGED loc /\ Va(a, loc[a].sigue)
    BY <1>3 DEF LiberarPcb
  <2>2. SoloMueve(a) /\ pc'[a] \in {"fin", "cambio", "inicio", "no"}
    BY <2>1, SoloVa, LocTipo DEF IInv, TypeOK
  <2> QED BY <1>1, <2>2, LiberaQuieta DEF Manos
<1> QED BY <1>2, <1>3

LEMMA LiberarHiloSeguro ==
    ASSUME IInv, Seguro, NEW a \in Actores, LiberarHilo(a)
    PROVE  Seguro'
<1> DEFINE p == BuscarProceso(loc[a].hilo[1])
<1>1. /\ UNCHANGED <<colas, motivo_bloqueo, mutex>> /\ Va(a, "joins")
      /\ loc' = [loc EXCEPT ![a] = [@ EXCEPT !.dueno = p, !.j = 1]]
  BY DEF LiberarHilo, bloqueo
<1>2. SoloMueve(a) /\ pc'[a] = "joins"
  BY <1>1, SoloVa
<1> QED BY <1>1, <1>2, LiberaQuieta DEF Manos

\* The thread woken up was blocked by the join.
LEMMA DespertarJoinsSeguro ==
    ASSUME IInv, Lugares, Lugares', Seguro, NEW a \in Actores, DespertarJoins(a)
    PROVE  Seguro'
<1> DEFINE b == cola_blocked[loc[a].j]
<1>1. /\ pc[a] = "joins" /\ loc[a].j \in Nat \ {0} /\ cola_blocked \in Seq(Hilos)
      /\ UNCHANGED mutex
  BY LocTipo DEF DespertarJoins, EnPaso, IInv, TypeOK, TipoColas, procesos
<1>2. NadieMasEspera
  BY <1>1, EsperaIgual DEF Seguro
<1>3. CASE loc[a].j <= Len(cola_blocked)
  <2>1. /\ loc' = [loc EXCEPT ![a].j = @ + 1] /\ UNCHANGED pc
        /\ \/ UNCHANGED <<colas, bloqueo>>
           \/ /\ EsperaA(b, loc[a].hilo) /\ PasarAReady(b)
              /\ motivo_bloqueo' = [motivo_bloqueo EXCEPT ![b] = "NONE"]
    BY <1>3 DEF DespertarJoins
  <2>2. SoloMueve(a) /\ pc'[a] = "joins"
    BY <1>1, <2>1, SoloLoc
  <2>3. b \in Hilos /\ b \in ToSet(cola_blocked)
    BY <1>1, <1>3, ElementOfSeq, LenProperties DEF ToSet
  <2> HIDE DEF b
  <2>4. CASE UNCHANGED <<colas, bloqueo>>
    BY <1>1, <2>2, <2>4, LiberaQuieta DEF Manos, bloqueo
  <2>5. CASE /\ EsperaA(b, loc[a].hilo) /\ PasarAReady(b)
             /\ motivo_bloqueo' = [motivo_bloqueo EXCEPT ![b] = "NONE"]
    <3>1. Suelta({b}) /\ \A g \in Hilos \ {b} : motivo_bloqueo'[g] = motivo_bloqueo[g]
      BY <2>3, <2>5, SueltaAReady DEF IInv, TypeOK, TipoBloqueo
    <3>2. b \notin Esperan \cup EnManos
      BY <2>3, <2>5, NoAtado DEF EsperaA, Seguro
    <3>3. EnManos' \subseteq EnManos
      BY <2>2, ManosSiguen DEF Manos
    <3>4. b \notin Elegidos
      BY <2>3 DEF Elegidos, Lugares, Eligiendo, UnSoloLugar
    <3>5. Elegidos' \subseteq Elegidos
      <4>1. a # CP \/ pc'[CP] # "saca"
        BY <2>2
      <4> QED BY <2>2, <4>1, ActoresDistintos DEF Elegidos, SoloMueve
    <3>6. b \notin Esperan' /\ b \notin EnManos' /\ b \notin Elegidos'
      BY <1>2, <3>2, <3>3, <3>4, <3>5 DEF NadieMasEspera
    <3> QED BY <1>2, <2>2, <2>3, <3>1, <3>6, PasoDeHilo DEF Manos
  <2> QED BY <2>1, <2>4, <2>5
<1>4. CASE ~(loc[a].j <= Len(cola_blocked))
  <2>1. /\ loc' = [loc EXCEPT ![a] = [@ EXCEPT !.j = 1]] /\ Va(a, "mutex")
        /\ UNCHANGED <<colas, bloqueo>>
    BY <1>4 DEF DespertarJoins
  <2>2. SoloMueve(a) /\ pc'[a] = "mutex"
    BY <2>1, SoloVa
  <2> QED BY <1>1, <2>1, <2>2, LiberaQuieta DEF Manos, bloqueo
<1> QED BY <1>3, <1>4

\* SinHerederos: the mutex has no waiters.
LEMMA HeredarMutexSeguro ==
    ASSUME IInv, Seguro, SinHerederos, NEW a \in Actores, HeredarMutex(a)
    PROVE  Seguro'
<1> DEFINE p == loc[a].dueno
           j == loc[a].j
           q == mutex[p][j]
<1>1. pc[a] = "mutex" /\ UNCHANGED motivo_bloqueo
  BY DEF HeredarMutex, EnPaso, bloqueo
<1>2. TipoProcesos /\ j \in Nat \ {0} /\ p \in Pids \cup {NULO}
  BY LocTipo DEF IInv, TypeOK
<1>3. CASE p # NULO /\ j <= Len(mutex[p])
  <2>1. p \in Pids /\ j \in DOMAIN mutex[p]
    BY <1>2, <1>3, LenProperties DEF TipoProcesos
  <2>2. ~(q.owner = loc[a].hilo[2] /\ q.hilos # <<>>)
    <3>1. Herederos(loc[a].dueno, loc[a].j, loc[a].hilo) = {}
      BY <1>1 DEF SinHerederos
    <3> QED BY <1>3, <2>1, <3>1 DEF Herederos
  <2>3. /\ loc' = [loc EXCEPT ![a].j = @ + 1] /\ UNCHANGED <<pc, colas>>
        /\ UNCHANGED mutex \/ mutex' = [mutex EXCEPT ![p][j].owner = Nadie]
    BY <1>3, <2>2 DEF HeredarMutex
  <2>4. SoloMueve(a) /\ pc'[a] = "mutex"
    BY <1>1, <2>3, SoloLoc
  <2> HIDE DEF p, j
  <2>5. NadieMasEspera
    BY <1>2, <2>1, <2>3, EsperaIgual, CambiaDueno DEF Seguro
  <2>6. Suelta({})
    BY <2>3, SueltaNada DEF colas
  <2> QED BY <1>1, <2>4, <2>5, <2>6, PasoQuieto DEF Manos
<1>4. CASE ~(p # NULO /\ j <= Len(mutex[p]))
  <2>1. /\ Va(a, loc[a].sigue) \/ Va(a, "libera")
        /\ UNCHANGED <<colas, mutex, loc>>
    BY <1>4 DEF HeredarMutex
  <2>2. SoloMueve(a) /\ pc'[a] \in {"libera", "fin", "cambio", "inicio", "no"}
    BY <2>1, SoloVa, LocTipo DEF IInv, TypeOK
  <2> QED BY <1>1, <2>1, <2>2, LiberaQuieta DEF Manos
<1> QED BY <1>3, <1>4

LEMMA LiberacionSeguro ==
    ASSUME IInv, Lugares, Lugares', Seguro, SinHerederos, NEW a \in Actores, Liberacion(a)
    PROVE  Seguro'
  BY FinProcesoSeguro, DesencolarTodosSeguro, LiberarPcbSeguro, LiberarHiloSeguro,
     DespertarJoinsSeguro, HeredarMutexSeguro, Zenon DEF Liberacion

-----------------------------------------------------------------------------
(* Long-term scheduler and handlers.                                       *)

\* What LP does never touches the thread that CP has just taken.
LEMMA LPQuieto ==
    ASSUME IInv, Seguro, SoloMueve(LP), pc'[LP] \notin Manos \cup {"saca"},
           UNCHANGED <<colas, bloqueo, procesos>>
    PROVE  Seguro'
  BY LiberaQuieta, ActoresDistintos DEF bloqueo, procesos

LEMMA AdmitirSeguro ==
    ASSUME IInv, Lugares, Seguro, AtenderRespuesta, Admitir, UNCHANGED <<bloqueo, procesos>>
    PROVE  Seguro'
<1> DEFINE p == loc[LP].proceso
           h == loc[LP].hilo
<1>1. /\ pc[LP] = "responde" /\ h \in Hilos /\ EncolarEnReady(h)
      /\ Va(LP, "inicio") /\ UNCHANGED loc
  BY PunteroTCB, ActoresDistintos DEF AtenderRespuesta, Admitir, EnPaso, IInv
<1>2. h = <<p, 0>>
  BY <1>1, ActoresDistintos DEF Lugares, LPAdmite, Admitiendo
<1>3. p \in ToSet(cola_new)
  <2>1. cola_new \in Seq(Pids) /\ Len(cola_new) = sem_new + 1 /\ sem_new \in Nat
        /\ p = cola_new[1]
    BY <1>1 DEF IInv, TypeOK, TipoNuevos, SemNewCuenta, LPTieneCabeza
  <2> QED BY <2>1, LenProperties DEF ToSet
<1>4. h \notin Ocupados
  BY <1>2, <1>3 DEF Lugares, Vistos, Visto
<1>5. h \notin Esperan \cup EnManos \cup Elegidos
  BY <1>1, <1>4, NuevoNoAtado
<1>6. Suelta({h})
  BY <1>1, SueltaEncolar DEF IInv, TypeOK
<1>7. SoloMueve(LP) /\ pc'[LP] = "inicio"
  BY <1>1, SoloVa, ActoresDistintos
<1>8. EnManos' \subseteq EnManos /\ Elegidos' = Elegidos
  BY <1>7, ManosSiguen, ActoresDistintos DEF Manos, Elegidos, SoloMueve
<1>9. NadieMasEspera /\ UNCHANGED motivo_bloqueo
  BY EsperaIgual DEF Seguro, procesos, bloqueo
<1> HIDE DEF h, p
<1>10. h \notin Esperan' /\ h \notin EnManos' /\ h \notin Elegidos'
  BY <1>5, <1>8, <1>9 DEF NadieMasEspera
<1> QED BY <1>1, <1>6, <1>7, <1>9, <1>10, PasoDeHilo, ActoresDistintos DEF Manos

LEMMA LargoPlazoSeguro ==
    ASSUME IInv, Lugares, Seguro, UNCHANGED <<bloqueo, procesos>>,
           ConsultarLargoPlazo \/ TomarNuevo \/ CrearProceso \/ AtenderRespuesta
    PROVE  Seguro'
<1>1. CASE ConsultarLargoPlazo
  <2>1. SoloMueve(LP) /\ pc'[LP] = "sem_new" /\ UNCHANGED colas
    BY <1>1, SoloVa, ActoresDistintos DEF ConsultarLargoPlazo
  <2> QED BY <2>1, LPQuieto DEF Manos
<1>2. CASE TomarNuevo
  <2> DEFINE p == cola_new[1]
             h == IF threads[p] = <<>> THEN NULO ELSE threads[p][1]
  <2>1. /\ loc' = [loc EXCEPT ![LP] = [@ EXCEPT !.proceso = p, !.hilo = h]]
        /\ Va(LP, "crear_proceso") /\ UNCHANGED colas
    BY <1>2 DEF TomarNuevo
  <2>2. SoloMueve(LP) /\ pc'[LP] = "crear_proceso"
    BY <2>1, SoloVa, ActoresDistintos
  <2> QED BY <2>1, <2>2, LPQuieto DEF Manos
<1>3. CASE CrearProceso
  <2>1. SoloMueve(LP) /\ pc'[LP] = "responde" /\ UNCHANGED colas
    BY <1>3, SoloVa, ActoresDistintos DEF CrearProceso
  <2> QED BY <2>1, LPQuieto DEF Manos
<1>4. CASE AtenderRespuesta /\ Admitir
  BY <1>4, AdmitirSeguro
<1>5. CASE AtenderRespuesta /\ Postergar
  <2>1. SoloMueve(LP) /\ pc'[LP] = "inicio" /\ UNCHANGED colas
    BY <1>5, SoloVa, ActoresDistintos DEF Postergar
  <2> QED BY <2>1, LPQuieto DEF Manos
<1>6. CASE AtenderRespuesta /\ Rechazar
  <2>1. /\ loc' = [loc EXCEPT ![LP] = [@ EXCEPT !.i = 1, !.j = 1, !.sigue = "inicio"]]
        /\ Va(LP, "desencola") /\ UNCHANGED colas
    BY <1>6 DEF Rechazar
  <2>2. SoloMueve(LP) /\ pc'[LP] = "desencola"
    BY <2>1, SoloVa, ActoresDistintos
  <2> QED BY <2>1, <2>2, LPQuieto DEF Manos
<1> QED BY <1>1, <1>2, <1>3, <1>4, <1>5, <1>6, Zenon DEF AtenderRespuesta

\* The thread that its handler releases waits for no mutex and is BLOCKED.
LEMMA HandlerSeguro ==
    ASSUME IInv, Lugares, Seguro, NEW h \in Hilos, UNCHANGED <<bloqueo, procesos>>,
           TomarMutexIO(h) \/ SoltarMutexIO(h) \/ FinIO(h) \/ FinDump(h)
    PROVE  Seguro'
<1>0. h \in Actores /\ h # CP /\ pc[h] \in Manos
  BY ActoresDistintos DEF TomarMutexIO, SoltarMutexIO, FinIO, FinDump, EnPaso, Manos
<1>1. NadieMasEspera /\ UNCHANGED <<motivo_bloqueo, mutex>>
  BY EsperaIgual DEF Seguro, procesos, bloqueo
<1>2. ASSUME UNCHANGED <<colas, loc>>, NEW e \in {"io_duerme", "io_sale"}, Va(h, e)
      PROVE  Seguro'
  <2>1. SoloMueve(h) /\ pc'[h] = e
    BY <1>0, <1>2, SoloVa
  <2>2. Suelta({})
    BY <1>2, SueltaNada DEF colas
  <2> QED BY <1>0, <1>1, <2>1, <2>2, PasoQuieto
<1>3. ASSUME PasarAReady(h), Va(h, "no"), UNCHANGED loc
      PROVE  Seguro'
  <2>1. SoloMueve(h) /\ pc'[h] = "no"
    BY <1>0, <1>3, SoloVa
  <2>2. Suelta({h})
    BY <1>3, SueltaAReady DEF IInv, TypeOK
  <2>3. h \in EnManos /\ h \notin Esperan /\ estado[h] = "BLOCKED"
    BY <1>0 DEF EnManos, Seguro, Atados
  <2>4. h \notin Elegidos
    BY <2>3 DEF Elegidos, Lugares, Eligiendo
  <2>5. h \notin EnManos' /\ Elegidos' = Elegidos
    BY <1>0, <2>1, ActoresDistintos DEF EnManos, Manos, Elegidos, SoloMueve
  <2>6. h \notin Esperan' /\ h \notin Elegidos'
    BY <1>1, <2>3, <2>4, <2>5 DEF NadieMasEspera
  <2> QED BY <1>0, <1>1, <2>1, <2>2, <2>5, <2>6, PasoDeHilo DEF Manos
<1>4. CASE TomarMutexIO(h)
  BY <1>2, <1>4 DEF TomarMutexIO
<1>5. CASE SoltarMutexIO(h)
  BY <1>2, <1>5 DEF SoltarMutexIO
<1>6. CASE FinIO(h)
  BY <1>3, <1>6 DEF FinIO
<1>7. CASE FinDump(h)
  BY <1>0, <1>1, <1>3, <1>7, SalirProcesoSeguro DEF FinDump
<1> QED BY <1>4, <1>5, <1>6, <1>7

-----------------------------------------------------------------------------
(* The actors.                                                             *)

LEMMA NadaSeguro ==
    ASSUME Seguro, UNCHANGED <<colas, bloqueo, procesos, pc, loc>>
    PROVE  Seguro'
<1>1. Esperan' = Esperan /\ EnManos' = EnManos /\ EsperaUnica'
  BY DEF Esperan, EnManos, procesos, Seguro, Atados, EsperaUnica, Espera
<1>2. Atados'
  BY <1>1 DEF Seguro, Atados, colas, bloqueo
<1> QED BY <1>2 DEF Seguro, NadieLoEncola, colas

LEMMA FallaSeguro ==
    ASSUME Seguro, NEW a, Falla(a)
    PROVE  Seguro'
  BY NadaSeguro DEF Falla

LEMMA PasoCPSeguro ==
    ASSUME IInv, Lugares, Lugares', Seguro, SinHerederos, PasoCP
    PROVE  Seguro'
<1>1. CASE /\ \/ EsperaReady \/ HayReady \/ Planificar \/ PonerEnExec \/ EjecutarHilo
              \/ FinEjecucion \/ EsperarQuantum \/ Interrupcion
           /\ UNCHANGED <<bloqueo, creados, procesos, liberados, nuevos, largo_plazo,
                          memoria, respuesta, ctx, fallo>>
  BY <1>1, PasoCortoSeguro DEF procesos
<1>2. CASE /\ CrearHilo \/ FinHilo
           /\ UNCHANGED <<bloqueo, creados, procesos, liberados, nuevos, largo_plazo,
                          quantum, respuesta, ctx, fallo>>
  <2>1. UNCHANGED <<bloqueo, mutex>>
    BY <1>2 DEF procesos
  <2> QED BY <1>2, <2>1, CrearHiloSeguro, FinHiloSeguro, Zenon
<1> QED
  BY <1>1, <1>2, SyscallSeguro, LiberacionSeguro, FallaSeguro, ActoresDistintos, Zenon
  DEF PasoCP

LEMMA PasoLPSeguro ==
    ASSUME IInv, Lugares, Lugares', Seguro, SinHerederos, PasoLP
    PROVE  Seguro'
<1>1. CASE /\ ConsultarLargoPlazo \/ TomarNuevo \/ CrearProceso \/ AtenderRespuesta
           /\ UNCHANGED <<bloqueo, creados, procesos, liberados, quantum, ctx, fallo>>
  <2>1. UNCHANGED <<bloqueo, procesos>>
    BY <1>1
  <2> QED BY <1>1, <2>1, LargoPlazoSeguro, Zenon
<1> QED BY <1>1, LiberacionSeguro, FallaSeguro, ActoresDistintos, Zenon DEF PasoLP

LEMMA PasoHandlerSeguro ==
    ASSUME IInv, Lugares, Lugares', Seguro, SinHerederos, NEW h \in Hilos, PasoHandler(h)
    PROVE  Seguro'
<1>0. h \in Actores
  BY ActoresDistintos
<1>1. CASE /\ TomarMutexIO(h) \/ SoltarMutexIO(h) \/ FinIO(h) \/ FinDump(h)
           /\ UNCHANGED <<bloqueo, creados, procesos, liberados, nuevos, largo_plazo,
                          quantum, memoria, respuesta, ctx, fallo>>
  <2>1. UNCHANGED <<bloqueo, procesos>>
    BY <1>1
  <2> QED BY <1>1, <2>1, HandlerSeguro, Zenon
<1> QED BY <1>0, <1>1, LiberacionSeguro, FallaSeguro, Zenon DEF PasoHandler

LEMMA InitSeguro == Init => Seguro
<1> SUFFICES ASSUME Init PROVE Seguro
  OBVIOUS
<1>1. /\ pc[CP] = "sem_ready" /\ \A h \in Hilos : pc[h] = "no"
      /\ \A p \in Pids : mutex[p] = <<>>
  BY ActoresDistintos, Zenon DEF Init
<1>2. \A p \in Pids : DOMAIN mutex[p] = {}
  BY <1>1
<1>3. Esperan = {} /\ EnManos = {} /\ EsperaUnica
  BY <1>1, <1>2 DEF Esperan, EnManos, Manos, EsperaUnica
<1> QED BY <1>1, <1>3 DEF Seguro, Atados, NadieLoEncola

LEMMA NextSeguro ==
    IInv /\ Lugares /\ Lugares' /\ Seguro /\ SinHerederos /\ [Next]_vars => Seguro'
<1> SUFFICES ASSUME IInv, Lugares, Lugares', Seguro, SinHerederos, [Next]_vars
             PROVE  Seguro'
  OBVIOUS
<1>1. CASE PasoQuantum
  BY <1>1, NadaSeguro DEF PasoQuantum
<1>2. CASE UNCHANGED vars
  BY <1>2, NadaSeguro DEF vars
<1> QED BY <1>1, <1>2, PasoCPSeguro, PasoLPSeguro, PasoHandlerSeguro, Zenon DEF Next

-----------------------------------------------------------------------------

(* In every run in which the thread that runs belongs to a process that     *)
(* exists and no thread dies owning a mutex that others wait for, a TCB is  *)
(* in one queue, once, and its estado says which: desencolar_estado_actual  *)
(* (utils.c:210) finds it, whatever the programs ask for and however the    *)
(* schedulers, the timer and the handlers interleave without locks.         *)
THEOREM KernelUnSoloLugar == Spec /\ []EnOrden => []UnSoloLugar
<1> DEFINE Inv == IInv /\ Lugares /\ Seguro
<1>1. Init => Inv
  BY InitIInv, InitLugares, InitSeguro
<1>2. Inv /\ EnOrden /\ [Next]_vars => Inv'
  BY NextIInv, NextLugares, NextSeguro DEF Seguro, EnOrden
<1>3. Inv => UnSoloLugar
  BY DEF Lugares
<1> HIDE DEF Inv
<1> QED BY <1>1, <1>2, <1>3, PTL DEF Spec

-----------------------------------------------------------------------------
(* The partitions of memoria (scheme FIJAS), for programs whose files exist *)
(* and that cancel no thread: a PATH_ERROR leaves its partition taken, and *)
(* THREAD_CANCEL of thread 0 (or of an unknown tid) frees the context that *)
(* FIN_PROCESO finds the partition by.                                     *)

SinCancelar ==
    \A a \in Archivos : \A k \in DOMAIN Programa[a] : \A s \in Programa[a][k] :
        s.op # "THREAD_CANCEL"

Principales(m) == {h \in m : h[2] = 0}

\* memoria knows no process that is still to be admitted, but the one whose
\* SUCCESS LP has yet to read.
Admitidos ==
    \A h \in Principales(mem) :
        /\ h[1] < pid_counter
        /\ \/ h[1] \notin ToSet(cola_new)
           \/ pc[LP] = "responde" /\ respuesta = "SUCCESS" /\ loc[LP].hilo = h

\* Thread 0 is freed only with its process.
FinDeOtro ==
    /\ pc[CP] # "cancela"
    /\ pc[CP] = "fin_hilo" /\ loc[CP].hilo # NULO => loc[CP].hilo[2] # 0

Duenos == ParticionesConDueno /\ Admitidos /\ FinDeOtro

LEMMA MemFinita ==
    ASSUME NEW m, m \subseteq Hilos
    PROVE  IsFiniteSet(Principales(m)) /\ Cardinality(Principales(m)) \in Nat
<1>1. MaxPid \in Int /\ MaxTid \in Int
  BY ConstantesKernel
<1>2. IsFiniteSet(Pids) /\ IsFiniteSet(Tids)
  BY <1>1, FS_Interval DEF Pids, Tids
<1>3. IsFiniteSet(Hilos)
  BY <1>2, FS_Product DEF Hilos
<1>4. Principales(m) \in SUBSET Hilos
  BY DEF Principales
<1> QED BY <1>3, <1>4, FS_Subset, FS_CardinalityType

\* The step admits no process, and LP does not go past an answer it has.
SinAltas ==
    /\ pid_counter' \in Nat /\ pid_counter <= pid_counter'
    /\ \A p \in ToSet(cola_new') : p \in ToSet(cola_new) \/ p = pid_counter
    /\ pc[LP] = "responde" => pc'[LP] = "responde" /\ loc'[LP] = loc[LP] /\ UNCHANGED respuesta

CPAparte ==
    \/ pc'[CP] \notin {"cancela", "fin_hilo"}
    \/ pc'[CP] = pc[CP] /\ loc'[CP] = loc[CP]

LEMMA AdmitidosSiguen ==
    ASSUME IInv, Admitidos, SinAltas, mem' \subseteq Hilos,
           Principales(mem') \subseteq Principales(mem)
    PROVE  Admitidos'
<1> SUFFICES ASSUME NEW h \in Principales(mem')
             PROVE  /\ h[1] < pid_counter'
                    /\ \/ h[1] \notin ToSet(cola_new')
                       \/ pc'[LP] = "responde" /\ respuesta' = "SUCCESS" /\ loc'[LP].hilo = h
  BY DEF Admitidos
<1>1. /\ h[1] < pid_counter /\ h[1] \in Nat
      /\ \/ h[1] \notin ToSet(cola_new)
         \/ pc[LP] = "responde" /\ respuesta = "SUCCESS" /\ loc[LP].hilo = h
  <2>1. h \in Hilos
    BY DEF Principales
  <2> QED BY <2>1, Pares DEF Admitidos
<1>2. pid_counter \in Nat
  BY TiposDeCreados DEF IInv, TypeOK
<1>3. h[1] < pid_counter' /\ h[1] # pid_counter
  BY <1>1, <1>2 DEF SinAltas
<1> QED BY <1>1, <1>3 DEF SinAltas

LEMMA FinDeOtroSigue ==
    ASSUME FinDeOtro, CPAparte
    PROVE  FinDeOtro'
  BY DEF FinDeOtro, CPAparte

\* A step that asks memoria for nothing.
LEMMA MemIgual ==
    ASSUME IInv, Duenos, UNCHANGED memoria, SinAltas, CPAparte
    PROVE  Duenos'
<1>1. mem' \subseteq Hilos /\ Principales(mem') = Principales(mem)
  BY DEF memoria, IInv, TypeOK, TipoMemoria
<1>2. Admitidos' /\ FinDeOtro'
  BY <1>1, AdmitidosSiguen, FinDeOtroSigue DEF Duenos
<1> QED BY <1>2 DEF Duenos, ParticionesConDueno, memoria

\* Actor a moves: it is neither to free a thread nor LP with an answer to read.
Discreto(a) ==
    /\ SoloMueve(a) /\ pc'[a] \notin {"cancela", "fin_hilo"}
    /\ a = LP => pc[LP] # "responde"

LEMMA DiscretoAparte ==
    ASSUME IInv, NEW a \in Actores, Discreto(a), UNCHANGED <<creados, nuevos>>,
           a # LP => UNCHANGED respuesta
    PROVE  SinAltas /\ CPAparte
<1>1. CPAparte
  BY ActoresDistintos DEF Discreto, SoloMueve, CPAparte
<1>2. pc[LP] = "responde" => pc'[LP] = "responde" /\ loc'[LP] = loc[LP] /\ UNCHANGED respuesta
  BY ActoresDistintos DEF Discreto, SoloMueve
<1>3. pid_counter' = pid_counter /\ pid_counter \in Nat /\ cola_new' = cola_new
  BY TiposDeCreados DEF creados, nuevos
<1> QED BY <1>1, <1>2, <1>3 DEF SinAltas

\* The short-term scheduler.
LEMMA PasoCortoDiscreto ==
    ASSUME IInv,
           \/ EsperaReady \/ HayReady \/ Planificar \/ PonerEnExec \/ EjecutarHilo
           \/ FinEjecucion \/ EsperarQuantum \/ Interrupcion
    PROVE  Discreto(CP)
<1>1. CP \in Actores /\ CP # LP
  BY ActoresDistintos
<1>2. CASE EsperaReady
  BY <1>1, <1>2, SoloVa DEF EsperaReady, Discreto
<1>3. CASE Planificar
  <2> DEFINE k == IF Algoritmo = "FIFO" THEN 1 ELSE MayorPrioridad
             h == cola_ready[k]
  <2>1. /\ loc' = [loc EXCEPT ![CP] = [@ EXCEPT !.hilo = h]]
        /\ Va(CP, "saca")
    BY <1>3 DEF Planificar
  <2>2. SoloMueve(CP) /\ pc'[CP] = "saca"
    BY <1>1, <2>1, SoloVa
  <2> QED BY <1>1, <2>2 DEF Discreto
<1>4. CASE PonerEnExec
  BY <1>1, <1>4, SoloVa DEF PonerEnExec, Discreto
<1>5. CASE EjecutarHilo
  <2>1. CASE UNCHANGED loc /\ Va(CP, "fin")
    BY <1>1, <2>1, SoloVa DEF Discreto
  <2>2. CASE /\ loc' = [loc EXCEPT ![CP] = [@ EXCEPT !.hilo = hilo_en_exec]]
             /\ Va(CP, "cpu")
    <3>1. SoloMueve(CP) /\ pc'[CP] = "cpu"
      BY <1>1, <2>2, SoloVa
    <3> QED BY <1>1, <3>1 DEF Discreto
  <2> QED BY <1>5, <2>1, <2>2 DEF EjecutarHilo
<1>6. CASE FinEjecucion
  BY <1>1, <1>6, SoloVa DEF FinEjecucion, Discreto
<1>7. CASE EsperarQuantum
  BY <1>1, <1>7, SoloVa DEF EsperarQuantum, Discreto
<1>8. CASE Interrupcion
  BY <1>1, <1>8, SoloVa DEF Interrupcion, Discreto
<1>9. CASE HayReady
  BY <1>9, <1>1, MiraReady DEF Discreto
<1> QED BY <1>2, <1>3, <1>4, <1>5, <1>6, <1>7, <1>8, <1>9

LEMMA LiberacionDiscreta ==
    ASSUME IInv, NEW a \in Actores, Liberacion(a)
    PROVE  Discreto(a)
<1>1. loc[a].sigue \in {"fin", "cambio", "inicio", "no"}
  BY LocTipo DEF IInv, TypeOK
<1>2. ASSUME NEW e, pc[a] \in {"fin_proceso", "desencola", "libera", "libera_hilo",
                               "joins", "mutex"},
             Va(a, e), e \in {"desencola", "libera", "libera_hilo", "joins", "mutex",
                              "fin", "cambio", "inicio", "no"},
             UNCHANGED loc \/ \E l : loc' = [loc EXCEPT ![a] = l]
      PROVE  Discreto(a)
  BY <1>2, SoloVa DEF Discreto
<1>3. ASSUME pc[a] \in {"desencola", "joins", "mutex"}, UNCHANGED pc,
             loc' = [loc EXCEPT ![a].j = @ + 1]
      PROVE  Discreto(a)
  BY <1>3, SoloLoc DEF Discreto
<1>4. CASE FinProceso(a)
  <2>1. /\ pc[a] = "fin_proceso"
        /\ Va(a, "desencola") \/ Va(a, loc[a].sigue)
        /\ loc' = [loc EXCEPT ![a] = [@ EXCEPT !.i = 1, !.j = 1]]
    BY <1>4 DEF FinProceso, EnPaso
  <2>2. SoloMueve(a) /\ pc'[a] \in {"desencola", "fin", "cambio", "inicio", "no"}
    BY <1>1, <2>1, SoloVa
  <2> QED BY <2>1, <2>2 DEF Discreto
<1>5. CASE DesencolarTodos(a)
  <2>1. /\ pc[a] = "desencola"
        /\ \/ UNCHANGED pc /\ loc' = [loc EXCEPT ![a].j = @ + 1]
           \/ Va(a, "libera") /\ UNCHANGED loc
    BY <1>5 DEF DesencolarTodos, EnPaso
  <2> QED BY <1>2, <1>3, <2>1
<1>6. CASE LiberarPcb(a)
  <2> DEFINE i == loc[a].i
             t == threads[loc[a].proceso]
  <2>1. /\ pc[a] = "libera"
        /\ \/ Va(a, "libera_hilo")
              /\ loc' = [loc EXCEPT ![a] = [@ EXCEPT !.hilo = t[i], !.i = i + 1]]
           \/ Va(a, loc[a].sigue) /\ UNCHANGED loc
    BY <1>6 DEF LiberarPcb, EnPaso
  <2> QED BY <1>1, <1>2, <2>1
<1>7. CASE LiberarHilo(a)
  <2> DEFINE p == BuscarProceso(loc[a].hilo[1])
  <2>1. /\ pc[a] = "libera_hilo" /\ Va(a, "joins")
        /\ loc' = [loc EXCEPT ![a] = [@ EXCEPT !.dueno = p, !.j = 1]]
    BY <1>7 DEF LiberarHilo, EnPaso
  <2> QED BY <1>2, <2>1
<1>8. CASE DespertarJoins(a)
  <2>1. /\ pc[a] = "joins"
        /\ \/ UNCHANGED pc /\ loc' = [loc EXCEPT ![a].j = @ + 1]
           \/ Va(a, "mutex") /\ loc' = [loc EXCEPT ![a] = [@ EXCEPT !.j = 1]]
    BY <1>8 DEF DespertarJoins, EnPaso
  <2> QED BY <1>2, <1>3, <2>1
<1>9. CASE HeredarMutex(a)
  <2>1. /\ pc[a] = "mutex"
        /\ \/ UNCHANGED pc /\ loc' = [loc EXCEPT ![a].j = @ + 1]
           \/ Va(a, loc[a].sigue) /\ UNCHANGED loc
           \/ Va(a, "libera") /\ UNCHANGED loc
    BY <1>9 DEF HeredarMutex, EnPaso
  <2> QED BY <1>1, <1>2, <1>3, <2>1
<1> QED BY <1>4, <1>5, <1>6, <1>7, <1>8, <1>9 DEF Liberacion

\* FIN_PROCESO gives back the partition of the thread 0 it finds.
LEMMA FinProcesoDuenos ==
    ASSUME IInv, Duenos, NEW a \in Actores, FinProceso(a), SinAltas, CPAparte
    PROVE  Duenos'
<1> DEFINE p == loc[a].proceso
           S == {h \in mem : h[1] = p}
           P == Principales(mem)
<1>1. mem' = mem \ S /\ ocupadas' = ParticionesTras(S)
  BY DEF FinProceso
<1>2. mem \subseteq Hilos /\ \A h \in Hilos : h = <<h[1], h[2]>>
  BY Pares DEF IInv, TypeOK, TipoMemoria
<1>3. Principales(mem') = P \ {<<p, 0>>}
  BY <1>1, <1>2 DEF Principales
<1>4. (\E h \in S : h[2] = 0) <=> <<p, 0>> \in P
  BY <1>2 DEF Principales
<1>5. ocupadas = Cardinality(P)
  BY DEF Duenos, ParticionesConDueno, Principales
<1> HIDE DEF S, P, p
<1>6. IsFiniteSet(P) /\ Cardinality(P) \in Nat
  BY <1>2, MemFinita DEF P
<1>7. ocupadas' = Cardinality(P \ {<<p, 0>>})
  BY <1>1, <1>4, <1>5, <1>6, FS_RemoveElement DEF ParticionesTras
<1>8. ParticionesConDueno'
  BY <1>3, <1>7 DEF ParticionesConDueno, Principales
<1>9. mem' \subseteq Hilos /\ Principales(mem') \subseteq Principales(mem)
  BY <1>1, <1>2, <1>3 DEF P
<1> QED BY <1>8, <1>9, AdmitidosSiguen, FinDeOtroSigue DEF Duenos

LEMMA LiberacionDuenos ==
    ASSUME IInv, Duenos, NEW a \in Actores, Liberacion(a)
    PROVE  Duenos'
<1>1. SinAltas /\ CPAparte
  BY LiberacionDiscreta, DiscretoAparte DEF Liberacion
<1>2. CASE FinProceso(a)
  BY <1>1, <1>2, FinProcesoDuenos
<1>3. CASE UNCHANGED memoria
  BY <1>1, <1>3, MemIgual
<1> QED
  BY <1>2, <1>3
  DEF Liberacion, DesencolarTodos, LiberarPcb, LiberarHilo, DespertarJoins, HeredarMutex

\* The system calls, THREAD_CANCEL apart.
LEMMA SyscallDuenos ==
    ASSUME IInv, Duenos, SinCancelar, Syscall
    PROVE  Duenos'
<1> DEFINE script == Programa[archivo[loc[CP].hilo]]
           linea  == ctx[loc[CP].hilo]
<1>1. EnSyscall /\ linea \in DOMAIN script /\ UNCHANGED <<memoria, respuesta>>
  BY AlAtender DEF Syscall
<1>2. PICK s \in script[linea] :
        \/ DumpMemory(s) \/ PeticionIO(s) \/ IniciarProceso(s) \/ ThreadCreate(s)
        \/ ThreadJoin(s) \/ ThreadCancel(s) \/ MutexCreate(s) \/ MutexLock(s)
        \/ MutexUnlock(s) \/ ThreadExit(s) \/ ProcessExit(s)
  BY Zenon DEF Syscall
<1>3. loc[CP].hilo \in Hilos
  BY LocTipo, ActoresDistintos DEF Syscall, CPUContesta, IInv, TypeOK, TipoMemoria
<1>4. ~ThreadCancel(s)
  <2>1. archivo[loc[CP].hilo] \in Archivos
    BY <1>3 DEF IInv, TypeOK, TipoCreados
  <2>2. s.op # "THREAD_CANCEL"
    BY <1>1, <1>2, <2>1 DEF SinCancelar
  <2> QED BY <2>2 DEF ThreadCancel
<1>5. ASSUME UNCHANGED <<pid_counter, cola_new>>, SoloMueve(CP)
      PROVE  SinAltas
  BY <1>1, <1>5, TiposDeCreados, ActoresDistintos DEF SinAltas, SoloMueve
<1>6. CASE DumpMemory(s) \/ PeticionIO(s)
  <2>1. hilo_en_exec \in Hilos
    BY <1>1 DEF EnSyscall
  <2> DEFINE h == hilo_en_exec
  <2>2. /\ \E e : pc' = [pc EXCEPT ![CP] = "fin", ![h] = e]
        /\ loc' = [loc EXCEPT ![h].hilo = h] /\ UNCHANGED <<pid_counter, cola_new>>
    BY <1>6 DEF DumpMemory, PeticionIO, creados, nuevos
  <2> HIDE DEF h
  <2>3. pc'[LP] = pc[LP] /\ loc'[LP] = loc[LP] /\ pc'[CP] = "fin"
    BY <2>1, <2>2, ActoresDistintos DEF h, IInv, TypeOK, TipoActores
  <2>4. SinAltas /\ CPAparte
    BY <1>1, <2>2, <2>3, TiposDeCreados DEF SinAltas, CPAparte
  <2> QED BY <1>1, <2>4, MemIgual
<1>7. CASE IniciarProceso(s)
  <2>1. SoloMueve(CP) /\ pc'[CP] = "cambio"
    BY <1>7, SoloVa, ActoresDistintos DEF IniciarProceso
  <2>2. pid_counter' = pid_counter + 1 /\ cola_new' = Append(cola_new, pid_counter)
    BY <1>7 DEF IniciarProceso
  <2>3. ToSet(cola_new') = ToSet(cola_new) \cup {pid_counter}
    <3>1. cola_new \in Seq(Nat) /\ pid_counter \in Nat
      BY TiposDeCreados
    <3> QED BY <2>2, <3>1, AgregarElemento
  <2>4. SinAltas /\ CPAparte
    BY <1>1, <2>1, <2>2, <2>3, TiposDeCreados, ActoresDistintos
    DEF SinAltas, CPAparte, SoloMueve
  <2> QED BY <1>1, <2>4, MemIgual
<1>8. CASE ThreadExit(s)
  <2>1. UNCHANGED <<pid_counter, cola_new>>
    BY <1>8 DEF ThreadExit, creados, nuevos
  <2> DEFINE h == hilo_en_exec
  <2>2. CASE UNCHANGED <<pc, loc>>
    <3>1. SinAltas /\ CPAparte
      BY <1>5, <2>1, <2>2 DEF CPAparte, SoloMueve
    <3> QED BY <1>1, <3>1, MemIgual
  <2>3. CASE h[2] # 0 /\ loc' = [loc EXCEPT ![CP].hilo = h] /\ Va(CP, "fin_hilo")
    <3>1. SoloMueve(CP) /\ pc'[CP] = "fin_hilo" /\ loc'[CP].hilo = h
      BY <2>3, SoloVa, ActoresDistintos DEF IInv, TypeOK, TipoActores, Locales
    <3>2. SinAltas
      BY <1>5, <2>1, <3>1
    <3>3. mem' \subseteq Hilos /\ Principales(mem') = Principales(mem)
      BY <1>1 DEF memoria, IInv, TypeOK, TipoMemoria
    <3>4. Admitidos' /\ FinDeOtro'
      BY <2>3, <3>1, <3>2, <3>3, AdmitidosSiguen DEF Duenos, FinDeOtro
    <3> QED BY <1>1, <3>4 DEF Duenos, ParticionesConDueno, memoria
  <2> QED BY <1>8, <2>2, <2>3 DEF ThreadExit
<1>9. ASSUME SoloMueve(CP), pc'[CP] \in {"crear_hilo", "fin", "cambio", "fin_proceso"},
             UNCHANGED <<pid_counter, cola_new>>
      PROVE  Duenos'
  <2>1. SinAltas /\ CPAparte
    BY <1>5, <1>9 DEF CPAparte
  <2> QED BY <1>1, <2>1, MemIgual
<1>10. CASE ThreadCreate(s)
  <2>1. SoloMueve(CP) /\ pc'[CP] = "crear_hilo"
    BY <1>10, SoloVa, ActoresDistintos DEF ThreadCreate
  <2> QED BY <1>9, <1>10, <2>1 DEF ThreadCreate, nuevos
<1>11. CASE ThreadJoin(s)
  <2>1. SoloMueve(CP) /\ pc'[CP] \in {"fin", "cambio"}
    BY <1>11, SoloVa, ActoresDistintos DEF ThreadJoin
  <2> QED BY <1>9, <1>11, <2>1 DEF ThreadJoin, nuevos, creados
<1>12. CASE MutexCreate(s)
  <2>1. SoloMueve(CP) /\ pc'[CP] = "cambio"
    BY <1>12, SoloVa, ActoresDistintos DEF MutexCreate
  <2> QED BY <1>9, <1>12, <2>1 DEF MutexCreate, nuevos, creados
<1>13. CASE MutexLock(s)
  <2>1. SoloMueve(CP) /\ pc'[CP] \in {"fin", "cambio"}
    BY <1>13, SoloVa, ActoresDistintos DEF MutexLock
  <2> QED BY <1>9, <1>13, <2>1 DEF MutexLock, nuevos, creados
<1>14. CASE MutexUnlock(s)
  <2>1. SoloMueve(CP) /\ pc'[CP] = "cambio"
    BY <1>14, SoloVa, ActoresDistintos DEF MutexUnlock
  <2> QED BY <1>9, <1>14, <2>1 DEF MutexUnlock, nuevos, creados
<1>15. CASE ProcessExit(s)
  <2> DEFINE p == BuscarProceso(hilo_en_exec[1])
  <2>1. /\ Va(CP, "fin_proceso") /\ UNCHANGED <<pid_counter, cola_new>>
        /\ loc' = [loc EXCEPT ![CP] = [@ EXCEPT !.hilo = hilo_en_exec, !.sigue = "fin",
                                               !.proceso = p]]
    BY <1>15 DEF ProcessExit, SalirProceso, nuevos, creados
  <2>2. SoloMueve(CP) /\ pc'[CP] = "fin_proceso"
    BY <2>1, SoloVa, ActoresDistintos
  <2> QED BY <1>9, <2>1, <2>2
<1> QED BY <1>2, <1>4, <1>6, <1>7, <1>8, <1>10, <1>11, <1>12, <1>13, <1>14, <1>15

\* A thread created by THREAD_CREATE is not the first of its process.
LEMMA CrearHiloDuenos ==
    ASSUME IInv, Lugares, Duenos, CrearHilo, UNCHANGED <<creados, nuevos, respuesta>>
    PROVE  Duenos'
<1> DEFINE h == loc[CP].hilo
<1>1. h \in Hilos /\ pc[CP] = "crear_hilo" /\ UNCHANGED ocupadas
  BY PunteroTCB, ActoresDistintos DEF IInv, CrearHilo, EnPaso
<1>2. h[2] # 0
  BY <1>1, ActoresDistintos, Pares DEF Lugares, Creando
<1>3. mem' = mem \/ mem' = mem \cup {h}
  BY DEF CrearHilo
<1>4. mem' \subseteq Hilos /\ Principales(mem') = Principales(mem)
  BY <1>1, <1>2, <1>3 DEF Principales, IInv, TypeOK, TipoMemoria
<1>5. SoloMueve(CP) /\ pc'[CP] \in {"cambio", "fin_proceso"}
  <2>1. CASE Va(CP, "cambio") /\ UNCHANGED loc
    BY <2>1, SoloVa, ActoresDistintos
  <2>2. CASE SalirProceso(CP, h, "cambio")
    <3> DEFINE p == BuscarProceso(h[1])
    <3>1. /\ Va(CP, "fin_proceso")
          /\ loc' = [loc EXCEPT ![CP] = [@ EXCEPT !.hilo = h, !.sigue = "cambio",
                                                 !.proceso = p]]
      BY <2>2 DEF SalirProceso
    <3> QED BY <3>1, SoloVa, ActoresDistintos
  <2> QED BY <2>1, <2>2 DEF CrearHilo
<1>6. Discreto(CP)
  BY <1>5, ActoresDistintos DEF Discreto
<1>7. SinAltas /\ CPAparte
  BY <1>6, DiscretoAparte, ActoresDistintos
<1>8. Admitidos' /\ FinDeOtro'
  BY <1>4, <1>7, AdmitidosSiguen, FinDeOtroSigue DEF Duenos
<1> QED BY <1>1, <1>4, <1>8 DEF Duenos, ParticionesConDueno, Principales

LEMMA FinHiloDuenos ==
    ASSUME IInv, Duenos, FinHilo, UNCHANGED <<creados, nuevos, respuesta>>
    PROVE  Duenos'
<1> DEFINE h == loc[CP].hilo
<1>1. EnPaso(CP, "fin_hilo")
  BY DEF FinHilo, EnPaso, Duenos, FinDeOtro
<1>2. h \in Hilos /\ h[2] # 0
  BY <1>1, PunteroTCB, ActoresDistintos DEF IInv, EnPaso, Duenos, FinDeOtro
<1>3. /\ mem' = mem \ {h} /\ UNCHANGED ocupadas
      /\ Va(CP, "libera_hilo") \/ Va(CP, "fin")
      /\ loc' = [loc EXCEPT ![CP] = [@ EXCEPT !.proceso = NULO, !.sigue = "fin"]]
  BY DEF FinHilo
<1>4. mem' \subseteq Hilos /\ Principales(mem') = Principales(mem)
  BY <1>2, <1>3 DEF Principales, IInv, TypeOK, TipoMemoria
<1>5. SoloMueve(CP) /\ pc'[CP] \in {"libera_hilo", "fin"}
  BY <1>3, SoloVa, ActoresDistintos
<1>6. Discreto(CP)
  BY <1>5, ActoresDistintos DEF Discreto
<1>7. SinAltas /\ CPAparte
  BY <1>6, DiscretoAparte, ActoresDistintos
<1>8. Admitidos' /\ FinDeOtro'
  BY <1>4, <1>7, AdmitidosSiguen, FinDeOtroSigue DEF Duenos
<1> QED BY <1>3, <1>4, <1>8 DEF Duenos, ParticionesConDueno, Principales

\* Every file exists: a partition is taken if and only if thread 0 is known.
LEMMA CrearProcesoDuenos ==
    ASSUME Existe = Archivos, IInv, Lugares, Duenos, CrearProceso, UNCHANGED <<creados, nuevos>>
    PROVE  Duenos'
<1> DEFINE h == loc[LP].hilo
           P == Principales(mem)
           entra == archivo[h] \notin Exceden /\ ocupadas < Cupo
<1>1. /\ pc[LP] = "crear_proceso" /\ h \in Hilos /\ UNCHANGED loc
      /\ SoloMueve(LP) /\ pc'[LP] = "responde"
  BY PunteroTCB, SoloVa, ActoresDistintos DEF IInv, CrearProceso, EnPaso
<1>2. h = <<loc[LP].proceso, 0>>
  BY <1>1, ActoresDistintos DEF Lugares, LPAdmite, Admitiendo
<1>3. h[1] \in ToSet(cola_new)
  <2>1. cola_new \in Seq(Pids) /\ Len(cola_new) = sem_new + 1 /\ sem_new \in Nat
        /\ loc[LP].proceso = cola_new[1]
    BY <1>1 DEF IInv, TypeOK, TipoNuevos, SemNewCuenta, LPTieneCabeza
  <2> QED BY <1>2, <2>1, LenProperties DEF ToSet
<1>4. h \notin P /\ h[1] < pid_counter
  BY <1>1, <1>3 DEF Duenos, Admitidos, Lugares, Dados
<1>5. archivo[h] \in Existe
  BY <1>1 DEF IInv, TypeOK, TipoCreados
<1>6. /\ ocupadas' = IF entra THEN ocupadas + 1 ELSE ocupadas
      /\ mem' = IF entra THEN mem \cup {h} ELSE mem
      /\ entra => respuesta' = "SUCCESS"
  BY <1>5 DEF CrearProceso
<1>7. IsFiniteSet(P) /\ Cardinality(P) \in Nat /\ mem \subseteq Hilos /\ ocupadas = Cardinality(P)
  BY MemFinita DEF IInv, TypeOK, TipoMemoria, Duenos, ParticionesConDueno, Principales
<1>8. FinDeOtro'
  <2>1. CPAparte
    BY <1>1, ActoresDistintos DEF SoloMueve, CPAparte
  <2> QED BY <2>1, FinDeOtroSigue DEF Duenos
<1>9. \A g \in P : g[1] < pid_counter /\ g[1] \notin ToSet(cola_new)
  BY <1>1 DEF Duenos, Admitidos
<1>10. CASE entra
  <2>1. Principales(mem') = P \cup {h} /\ ocupadas' = ocupadas + 1
    BY <1>2, <1>6, <1>10 DEF Principales
  <2>2. ParticionesConDueno'
    BY <1>4, <1>7, <2>1, FS_AddElement DEF ParticionesConDueno, Principales
  <2>3. UNCHANGED <<pid_counter, cola_new>>
    BY DEF creados, nuevos
  <2> HIDE DEF h
  <2>4. Admitidos'
    <3> SUFFICES ASSUME NEW g \in Principales(mem')
                 PROVE  /\ g[1] < pid_counter'
                        /\ \/ g[1] \notin ToSet(cola_new')
                           \/ pc'[LP] = "responde" /\ respuesta' = "SUCCESS" /\ loc'[LP].hilo = g
      BY DEF Admitidos
    <3>1. CASE g \in P
      BY <1>9, <2>3, <3>1
    <3>2. CASE g = h
      BY <1>1, <1>4, <1>6, <1>10, <2>3, <3>2 DEF h
    <3> QED BY <2>1, <3>1, <3>2
  <2> QED BY <1>8, <2>2, <2>4 DEF Duenos
<1>11. CASE ~entra
  <2>1. UNCHANGED <<mem, ocupadas, pid_counter, cola_new>>
    BY <1>6, <1>11 DEF creados, nuevos
  <2>2. Admitidos'
    BY <1>9, <2>1 DEF Admitidos, Principales
  <2> QED BY <1>8, <2>1, <2>2 DEF Duenos, ParticionesConDueno
<1> QED BY <1>10, <1>11

LEMMA AtenderRespuestaDuenos ==
    ASSUME IInv, Lugares, Duenos, AtenderRespuesta, UNCHANGED <<creados, procesos>>
    PROVE  Duenos'
<1> DEFINE p == loc[LP].proceso
           h == loc[LP].hilo
<1>1. pc[LP] = "responde" /\ h \in Hilos /\ UNCHANGED <<memoria, respuesta>>
  BY PunteroTCB, ActoresDistintos DEF IInv, AtenderRespuesta, EnPaso
<1>2. h = <<p, 0>>
  BY <1>1, ActoresDistintos DEF Lugares, LPAdmite, Admitiendo
<1>3. SoloMueve(LP)
  <2>1. CASE Admitir
    BY <2>1, SoloVa, ActoresDistintos DEF Admitir
  <2>2. CASE Postergar
    BY <2>2, SoloVa, ActoresDistintos DEF Postergar
  <2>3. CASE Rechazar
    <3>1. /\ loc' = [loc EXCEPT ![LP] = [@ EXCEPT !.i = 1, !.j = 1, !.sigue = "inicio"]]
          /\ Va(LP, "desencola")
      BY <2>3 DEF Rechazar
    <3> QED BY <3>1, SoloVa, ActoresDistintos
  <2> QED BY <2>1, <2>2, <2>3 DEF AtenderRespuesta
<1>4. CPAparte
  BY <1>3, ActoresDistintos DEF SoloMueve, CPAparte
<1>5. ASSUME NEW g \in Principales(mem)
      PROVE  g[1] < pid_counter' /\ g[1] \notin ToSet(cola_new')
  <2>1. /\ g[1] < pid_counter /\ UNCHANGED pid_counter
        /\ \/ g[1] \notin ToSet(cola_new)
           \/ respuesta = "SUCCESS" /\ g = h
    BY DEF Duenos, Admitidos, creados
  <2>2. CASE cola_new' = cola_new /\ respuesta # "SUCCESS"
    BY <2>1, <2>2
  <2>3. CASE cola_new' = RemoveFirst(cola_new, p)
    <3>1. ToSet(cola_new') = ToSet(cola_new) \ {p}
      BY <2>3, QuitarElementoUnico DEF IInv, TypeOK, TipoNuevos, Lugares, EnNew
    <3> QED BY <1>2, <2>1, <3>1
  <2> QED BY <2>2, <2>3 DEF AtenderRespuesta, Admitir, Postergar, Rechazar
<1>6. Admitidos' /\ FinDeOtro'
  BY <1>1, <1>4, <1>5, FinDeOtroSigue DEF Duenos, Admitidos, memoria, Principales
<1> QED BY <1>1, <1>6 DEF Duenos, ParticionesConDueno, memoria

LEMMA LargoPlazoDuenos ==
    ASSUME Existe = Archivos, IInv, Lugares, Duenos, UNCHANGED <<creados, procesos>>,
           ConsultarLargoPlazo \/ TomarNuevo \/ CrearProceso \/ AtenderRespuesta
    PROVE  Duenos'
<1>1. ASSUME Discreto(LP), UNCHANGED <<pid_counter, cola_new, memoria>> PROVE Duenos'
  <2>1. CPAparte
    BY <1>1, ActoresDistintos DEF Discreto, SoloMueve, CPAparte
  <2>2. SinAltas
    BY <1>1, TiposDeCreados DEF Discreto, SinAltas
  <2> QED BY <1>1, <2>1, <2>2, MemIgual
<1>2. CASE ConsultarLargoPlazo
  <2>1. /\ SoloMueve(LP) /\ pc'[LP] = "sem_new" /\ pc[LP] = "inicio"
        /\ UNCHANGED <<memoria, nuevos>>
    BY <1>2, SoloVa, ActoresDistintos DEF ConsultarLargoPlazo, EnPaso
  <2> QED BY <1>1, <2>1 DEF Discreto, creados, nuevos
<1>3. CASE TomarNuevo
  <2> DEFINE p == cola_new[1]
             h == IF threads[p] = <<>> THEN NULO ELSE threads[p][1]
  <2>1. /\ loc' = [loc EXCEPT ![LP] = [@ EXCEPT !.proceso = p, !.hilo = h]]
        /\ Va(LP, "crear_proceso") /\ pc[LP] = "sem_new" /\ UNCHANGED <<memoria, cola_new>>
    BY <1>3 DEF TomarNuevo, EnPaso
  <2>2. SoloMueve(LP) /\ pc'[LP] = "crear_proceso"
    BY <2>1, SoloVa, ActoresDistintos
  <2> QED BY <1>1, <2>1, <2>2 DEF Discreto, creados
<1>4. CASE CrearProceso
  <2>1. UNCHANGED nuevos
    BY <1>4 DEF CrearProceso
  <2> QED BY <1>4, <2>1, CrearProcesoDuenos
<1> QED BY <1>2, <1>3, <1>4, AtenderRespuestaDuenos

LEMMA HandlerDuenos ==
    ASSUME IInv, Duenos, NEW h \in Hilos, UNCHANGED <<creados, nuevos, memoria, respuesta>>,
           TomarMutexIO(h) \/ SoltarMutexIO(h) \/ FinIO(h) \/ FinDump(h)
    PROVE  Duenos'
<1>1. h \in Actores /\ h # LP
  BY ActoresDistintos
<1>2. ASSUME NEW e \in {"io_duerme", "io_sale", "no"}, Va(h, e), UNCHANGED loc
      PROVE  Discreto(h)
  BY <1>1, <1>2, SoloVa DEF Discreto
<1>3. ASSUME SalirProceso(h, h, "no") PROVE Discreto(h)
  <2> DEFINE p == BuscarProceso(h[1])
  <2>1. /\ Va(h, "fin_proceso")
        /\ loc' = [loc EXCEPT ![h] = [@ EXCEPT !.hilo = h, !.sigue = "no", !.proceso = p]]
    BY <1>3 DEF SalirProceso
  <2>2. SoloMueve(h) /\ pc'[h] = "fin_proceso"
    BY <1>1, <2>1, SoloVa
  <2> QED BY <1>1, <2>2 DEF Discreto
<1>4. Discreto(h)
  BY <1>2, <1>3 DEF TomarMutexIO, SoltarMutexIO, FinIO, FinDump
<1>5. SinAltas /\ CPAparte
  BY <1>1, <1>4, DiscretoAparte
<1> QED BY <1>5, MemIgual

LEMMA NadaDuenos ==
    ASSUME IInv, Duenos, UNCHANGED <<creados, nuevos, memoria, respuesta, pc, loc>>
    PROVE  Duenos'
<1>1. SinAltas /\ CPAparte
  BY TiposDeCreados DEF SinAltas, CPAparte, creados, nuevos
<1> QED BY <1>1, MemIgual

LEMMA InitDuenos == Init => Duenos
<1> SUFFICES ASSUME Init PROVE Duenos
  OBVIOUS
<1>1. mem = {} /\ ocupadas = 0 /\ pc[CP] = "sem_ready"
  BY ActoresDistintos DEF Init
<1>2. Principales(mem) = {}
  BY <1>1 DEF Principales
<1> QED BY <1>1, <1>2, FS_EmptySet DEF Duenos, ParticionesConDueno, Admitidos, FinDeOtro, Principales

LEMMA NextDuenos ==
    ASSUME Existe = Archivos, SinCancelar, IInv, Lugares, Duenos, [Next]_vars
    PROVE  Duenos'
<1>1. CASE PasoCP
  <2>1. CASE /\ \/ EsperaReady \/ HayReady \/ Planificar \/ PonerEnExec \/ EjecutarHilo
                \/ FinEjecucion \/ EsperarQuantum \/ Interrupcion
             /\ UNCHANGED <<bloqueo, creados, procesos, liberados, nuevos, largo_plazo,
                            memoria, respuesta, ctx, fallo>>
    <3>1. Discreto(CP)
      BY <2>1, PasoCortoDiscreto
    <3>2. SinAltas /\ CPAparte
      BY <2>1, <3>1, DiscretoAparte, ActoresDistintos
    <3> QED BY <2>1, <3>2, MemIgual
  <2>2. CASE /\ CrearHilo \/ FinHilo
             /\ UNCHANGED <<bloqueo, creados, procesos, liberados, nuevos, largo_plazo,
                            quantum, respuesta, ctx, fallo>>
    <3>1. UNCHANGED <<creados, nuevos, respuesta>>
      BY <2>2
    <3> QED BY <2>2, <3>1, CrearHiloDuenos, FinHiloDuenos, Zenon
  <2>3. CASE Falla(CP)
    BY <2>3, NadaDuenos DEF Falla
  <2> QED BY <1>1, <2>1, <2>2, <2>3, SyscallDuenos, LiberacionDuenos, ActoresDistintos, Zenon
      DEF PasoCP
<1>2. CASE PasoLP
  <2>1. CASE /\ ConsultarLargoPlazo \/ TomarNuevo \/ CrearProceso \/ AtenderRespuesta
             /\ UNCHANGED <<bloqueo, creados, procesos, liberados, quantum, ctx, fallo>>
    <3>1. UNCHANGED <<creados, procesos>>
      BY <2>1
    <3> QED BY <2>1, <3>1, LargoPlazoDuenos, Zenon
  <2>2. CASE Falla(LP)
    BY <2>2, NadaDuenos DEF Falla
  <2> QED BY <1>2, <2>1, <2>2, LiberacionDuenos, ActoresDistintos, Zenon DEF PasoLP
<1>3. ASSUME NEW h \in Hilos, PasoHandler(h) PROVE Duenos'
  <2>1. CASE /\ TomarMutexIO(h) \/ SoltarMutexIO(h) \/ FinIO(h) \/ FinDump(h)
             /\ UNCHANGED <<bloqueo, creados, procesos, liberados, nuevos, largo_plazo,
                            quantum, memoria, respuesta, ctx, fallo>>
    <3>1. UNCHANGED <<creados, nuevos, memoria, respuesta>>
      BY <2>1
    <3> QED BY <2>1, <3>1, HandlerDuenos, Zenon
  <2>2. CASE Falla(h)
    BY <2>2, NadaDuenos DEF Falla
  <2> QED BY <1>3, <2>1, <2>2, LiberacionDuenos, ActoresDistintos, Zenon DEF PasoHandler
<1>4. CASE PasoQuantum \/ UNCHANGED vars
  <2>1. UNCHANGED <<creados, nuevos, memoria, respuesta, pc, loc>>
    BY <1>4 DEF PasoQuantum, vars, colas
  <2> QED BY <2>1, NadaDuenos
<1> QED BY <1>1, <1>2, <1>3, <1>4, Zenon DEF Next

(* With every pseudocode file in place and no THREAD_CANCEL, and as long as *)
(* the thread that runs is of an existing process and no owner of a mutex   *)
(* dies, a partition is taken exactly for each process whose thread 0       *)
(* memoria knows: admissions, exits, failed dumps and rejections by any     *)
(* actor, in any order, leak none and give none back twice.                 *)
THEOREM KernelParticionesConDueno ==
    ASSUME Existe = Archivos, SinCancelar
    PROVE  Spec /\ []EnOrden => []ParticionesConDueno
<1> DEFINE Inv == IInv /\ Lugares /\ Seguro /\ Duenos
<1>1. Init => Inv
  BY InitIInv, InitLugares, InitSeguro, InitDuenos
<1>2. Inv /\ EnOrden /\ [Next]_vars => Inv'
  BY NextIInv, NextLugares, NextSeguro, NextDuenos DEF Seguro, EnOrden
<1>3. Inv => ParticionesConDueno
  BY DEF Duenos
<1> HIDE DEF Inv
<1> QED BY <1>1, <1>2, <1>3, PTL DEF Spec
=============================================================================
