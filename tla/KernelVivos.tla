----------------------------- MODULE KernelVivos -----------------------------
(***************************************************************************)
(* No thread is lost, what is READY can be run, and mutexes are handed     *)
(* over in order, for programs that cancel no thread.  Every step either   *)
(* only moves threads between queues (Quieto) or is one of those that      *)
(* bring threads and processes in or take them out (Cambia).  The first    *)
(* part shows that memoria has the contexts of the threads that are        *)
(* queued, running or in somebody's hands (Vida); the second that          *)
(* hilo_en_exec is NULL unless CP is about to run it, or is running it     *)
(* (ExecDe); the third that each thread of an admitted process is          *)
(* somewhere (Ubicados); the last that whoever is somewhere is listed in   *)
(* its process (Propios), and so is the owner of each mutex (Cerrojos).    *)
(***************************************************************************)
EXTENDS KernelColas

-----------------------------------------------------------------------------
(* Vocabulary: processes in the system, their threads, who is ending them. *)

Vivos == ToSet(procesos_en_sistema)

Suyos(p) == ToSet(threads[p])

\* Threads that somebody queues, runs or will wake up.
Activos == EnColas \cup Elegidos \cup EnManos \cup Esperan

\* Some actor is inside process_exit_thread or liberar_pcb of process p;
\* Borrando: past the FIN_PROCESO it sent to memoria.
Terminando(p) == \E a \in Actores : EnSalida(a) /\ loc[a].proceso = p

Borrando(p) ==
    \E a \in Actores : EnSalida(a) /\ pc[a] # "fin_proceso" /\ loc[a].proceso = p

\* The thread CP is creating, or ending together with its process.
Limbo(h) == loc[CP].hilo = h /\ (EnSalida(CP) \/ pc[CP] = "crear_hilo")

\* Labels at which an actor holds a thread or a process of its own.
Salidas == {"fin_proceso", "desencola", "libera", "libera_hilo", "joins", "mutex"}

Reservadas(a) ==
    Salidas \cup (IF a = CP THEN {"crear_hilo", "fin_hilo", "cancela"} ELSE {})

Fase(e) ==
    CASE e \in {"desencola", "libera"} -> "libera"
      [] e \in {"joins", "mutex"} -> "joins"
      [] OTHER -> e

MismosDatos(a) ==
    /\ Fase(pc'[a]) = Fase(pc[a])
    /\ loc'[a].hilo = loc[a].hilo /\ loc'[a].proceso = loc[a].proceso
    /\ loc'[a].dueno = loc[a].dueno

MismaVida(a) ==
    /\ pc[a] \in Reservadas(a) => MismosDatos(a)
    /\ pc'[a] \in Reservadas(a) => MismosDatos(a)
    /\ a = LP /\ pc'[a] \in {"crear_proceso", "responde"} => MismosDatos(a)

Mapa == <<procesos_en_sistema, threads, creados, mem, cola_new, respuesta>>

\* Nobody leaves the queues, but threads of a process that is ending.
Queda ==
    /\ fallo' = "ninguno" => fallo = "ninguno"
    /\ fallo' = "ninguno" /\ ExecEsSuyo =>
        \A h \in EnColas \cup Elegidos : h \in EnColas' \cup Elegidos' \/ Terminando(h[1])

\* A step that only moves threads from one queue to another.
Quieto ==
    /\ UNCHANGED Mapa /\ Activos' \subseteq Activos /\ Queda
    /\ \A a \in Actores : MismaVida(a)

-----------------------------------------------------------------------------
(* What the moves between queues do to EnColas.                            *)

LEMMA EfectoDesencolar ==
    ASSUME TipoColas, UnSoloLugar, NEW h \in Hilos, Desencolar(h)
    PROVE  /\ EnColas' \subseteq EnColas \ {h}
           /\ hilo_en_exec' \in {hilo_en_exec, NULO} /\ hilo_en_exec' # h
           /\ \A g \in EnColas \ {h} :
                 g \in EnColas' \/ (g = hilo_en_exec /\ estado[h] = "EXEC")
<1>1. /\ cola_ready' = ReadySin(h) /\ cola_blocked' = BlockedSin(h)
      /\ hilo_en_exec' = ExecSin(h) /\ estado' = estado
  BY DEF Desencolar
<1>2. /\ ToSet(cola_ready') = ToSet(cola_ready) \ {h}
      /\ ToSet(cola_blocked') = ToSet(cola_blocked) \ {h}
      /\ hilo_en_exec' \in {hilo_en_exec, NULO} /\ hilo_en_exec' # h
  BY <1>1, SinLugar
<1>3. estado[h] = "EXEC" \/ hilo_en_exec' = hilo_en_exec
  BY <1>1 DEF ExecSin
<1> QED BY <1>2, <1>3 DEF EnColas

LEMMA EfectoAReady ==
    ASSUME TipoColas, UnSoloLugar, NEW h \in Hilos, PasarAReady(h),
           estado[h] = "EXEC" => hilo_en_exec \in {h, NULO}
    PROVE  /\ EnColas' = EnColas \cup {h}
           /\ hilo_en_exec' \in {hilo_en_exec, NULO} /\ hilo_en_exec' # h
<1>1. /\ cola_ready' = Append(ReadySin(h), h) /\ cola_blocked' = BlockedSin(h)
      /\ hilo_en_exec' = ExecSin(h)
  BY DEF PasarAReady
<1>2. /\ ToSet(ReadySin(h)) = ToSet(cola_ready) \ {h}
      /\ ToSet(cola_blocked') = ToSet(cola_blocked) \ {h}
      /\ hilo_en_exec' \in {hilo_en_exec, NULO} /\ hilo_en_exec' # h
      /\ ReadySin(h) \in Seq(Hilos)
  BY <1>1, SinLugar, SinTipo
<1>3. ToSet(cola_ready') = ToSet(cola_ready) \cup {h}
  BY <1>1, <1>2, AgregarElemento
<1>4. hilo_en_exec' = hilo_en_exec \/ hilo_en_exec \in {h, NULO}
  BY <1>1 DEF ExecSin
<1>5. h # NULO
  BY ActoresDistintos
<1> QED BY <1>2, <1>3, <1>4, <1>5 DEF EnColas

LEMMA EfectoABlocked ==
    ASSUME TipoColas, UnSoloLugar, NEW h \in Hilos, NEW m, PasarABlocked(h, m),
           hilo_en_exec = h
    PROVE  EnColas' = EnColas /\ hilo_en_exec' = NULO
<1>1. /\ cola_ready' = ReadySin(h) /\ cola_blocked' = Append(BlockedSin(h), h)
      /\ hilo_en_exec' = ExecSin(h)
  BY DEF PasarABlocked
<1>2. /\ ToSet(cola_ready') = ToSet(cola_ready) \ {h}
      /\ ToSet(BlockedSin(h)) = ToSet(cola_blocked) \ {h}
      /\ hilo_en_exec' \in {hilo_en_exec, NULO} /\ hilo_en_exec' # h
      /\ BlockedSin(h) \in Seq(Hilos)
  BY <1>1, SinLugar, SinTipo
<1>3. ToSet(cola_blocked') = ToSet(cola_blocked) \cup {h}
  BY <1>1, <1>2, AgregarElemento
<1>4. h # NULO
  BY ActoresDistintos
<1> QED BY <1>2, <1>3, <1>4 DEF EnColas

LEMMA EfectoEncolar ==
    ASSUME TipoColas, NEW h \in Hilos, EncolarEnReady(h)
    PROVE  EnColas' = EnColas \cup {h} /\ hilo_en_exec' = hilo_en_exec
<1>1. /\ cola_ready' = Append(cola_ready, h) /\ cola_blocked' = cola_blocked
      /\ hilo_en_exec' = hilo_en_exec /\ cola_ready \in Seq(Hilos)
  BY DEF EncolarEnReady, TipoColas
<1>2. ToSet(cola_ready') = ToSet(cola_ready) \cup {h}
  BY <1>1, AgregarElemento
<1> QED BY <1>1, <1>2 DEF EnColas

\* hilo_en_exec is really EXEC, so leaving the queues it leaves hilo_en_exec.
LEMMA ExecEnColas ==
    ASSUME IInv, Lugares, hilo_en_exec \in Hilos
    PROVE  hilo_en_exec \in EnColas /\ estado[hilo_en_exec] = "EXEC"
<1>1. hilo_en_exec # NULO
  BY ActoresDistintos
<1> QED BY <1>1 DEF EnColas, Lugares, UnSoloLugar

-----------------------------------------------------------------------------
(* Steps that only move threads between queues.                            *)

LEMMA PasoQuietoDe ==
    ASSUME IInv, NEW a \in Actores, SoloMueve(a), UNCHANGED Mapa, MismaVida(a),
           pc[a] # "saca", pc'[a] # "saca", pc'[a] \in Manos => pc[a] \in Manos,
           Esperan' \subseteq Activos, EnColas' \subseteq Activos,
           fallo = "ninguno",
           fallo' = "ninguno" /\ ExecEsSuyo =>
              \A h \in EnColas : h \in EnColas' \/ Terminando(h[1])
    PROVE  Quieto
<1>1. EnManos' \subseteq EnManos
  BY DEF EnManos, SoloMueve, Actores
<1>2. Elegidos' = Elegidos
  <2>1. CASE a = CP
    BY <2>1 DEF Elegidos
  <2>2. CASE a # CP
    BY <2>2, ActoresDistintos DEF Elegidos, SoloMueve
  <2> QED BY <2>1, <2>2
<1>3. Activos' \subseteq Activos
  BY <1>1, <1>2 DEF Activos
<1>4. Queda
  BY <1>2 DEF Queda
<1>5. \A b \in Actores : MismaVida(b)
  BY DEF SoloMueve, MismaVida, MismosDatos
<1> QED BY <1>3, <1>4, <1>5 DEF Quieto

\* CP holds no thread of its own at these labels.
LEMMA VidaAjena ==
    ASSUME NEW a \in Actores, pc[a] \notin Reservadas(a),
           pc'[a] \notin Reservadas(a) \cup {"crear_proceso", "responde"}
    PROVE  MismaVida(a)
  BY DEF MismaVida

LEMMA EsperanSigue ==
    ASSUME UNCHANGED mutex
    PROVE  Esperan' \subseteq Activos
  BY DEF Esperan, Activos

\* hilo_en_exec is NULL wherever CP is not about to run it or running it.
ExecDe ==
    hilo_en_exec # NULO =>
        /\ \/ pc[CP] \in {"cambio", "cpu", "crear_hilo"}
           \/ EnSalida(CP) /\ loc[CP].sigue = "cambio"
        /\ pc[CP] = "crear_hilo" => hilo_en_exec[1] = loc[CP].hilo[1]

LEMMA PlanificarQuieto ==
    ASSUME IInv, Lugares, Planificar, UNCHANGED Mapa, UNCHANGED mutex, UNCHANGED fallo
    PROVE  Quieto
<1>1. /\ pc[CP] = "planifica" /\ fallo = "ninguno" /\ CP \in Actores
      /\ UNCHANGED <<cola_blocked, hilo_en_exec>>
  BY ActoresDistintos DEF Planificar, EnPaso
<1>2. cola_ready # <<>>
  BY HayQuien
<1> DEFINE k == IF Algoritmo = "FIFO" THEN 1 ELSE MayorPrioridad
           h == cola_ready[k]
<1>3. /\ loc' = [loc EXCEPT ![CP].hilo = h] /\ cola_ready' = RemoveAt(cola_ready, k)
      /\ Va(CP, "saca")
  BY <1>2 DEF Planificar
<1>4. cola_ready \in Seq(Hilos) /\ Len(cola_ready) \in Nat \ {0}
  BY <1>2, LenProperties, EmptySeq DEF IInv, TypeOK, TipoColas
<1>5. k \in 1..Len(cola_ready)
  BY <1>2, <1>4, MayorPrioridadTipo
<1> HIDE DEF k
<1>6. ToSet(cola_ready') = ToSet(cola_ready) \ {h} /\ h \in ToSet(cola_ready) /\ h \in Hilos
  <2>1. ToSet(cola_ready') = ToSet(cola_ready) \ {h}
    BY <1>3, <1>4, <1>5, QuitarPosicionUnica, LugarListas DEF Lugares, IInv, TypeOK
  <2>2. h \in ToSet(cola_ready) /\ h \in Hilos
    BY <1>4, <1>5, LenProperties, ElementOfSeq DEF ToSet
  <2> QED BY <2>1, <2>2
<1> HIDE DEF h
<1>7. SoloMueve(CP) /\ pc'[CP] = "saca"
  BY <1>1, <1>3, SoloVa
<1>8. loc'[CP].hilo = h
  BY <1>3, <1>1 DEF IInv, TypeOK, TipoActores, Locales
<1>9. Elegidos' = {h} /\ Elegidos = {}
  BY <1>1, <1>6, <1>7, <1>8 DEF Elegidos
<1>10. EnManos' \subseteq EnManos
  BY <1>1, <1>7, ManosSiguen DEF Manos
<1>11. EnColas' \cup {h} = EnColas
  BY <1>1, <1>6 DEF EnColas
<1>12. Activos' \subseteq Activos
  BY <1>9, <1>10, <1>11, EsperanSigue DEF Activos
<1>13. Queda
  BY <1>1, <1>9, <1>11 DEF Queda
<1>14. MismaVida(CP)
  BY <1>1, <1>7, VidaAjena DEF Reservadas, Salidas
<1>15. \A b \in Actores : MismaVida(b)
  BY <1>7, <1>14 DEF SoloMueve, MismaVida, MismosDatos
<1> QED BY <1>12, <1>13, <1>15 DEF Quieto

LEMMA PonerEnExecQuieto ==
    ASSUME IInv, Lugares, ExecDe, PonerEnExec, UNCHANGED Mapa, UNCHANGED mutex,
           UNCHANGED fallo
    PROVE  Quieto
<1> DEFINE h == loc[CP].hilo
<1>1. /\ pc[CP] = "saca" /\ fallo = "ninguno" /\ CP \in Actores
      /\ UNCHANGED <<cola_ready, cola_blocked>> /\ hilo_en_exec' = h
      /\ SoloMueve(CP) /\ pc'[CP] = "cambio"
  BY SoloVa, ActoresDistintos DEF PonerEnExec, EnPaso
<1>2. h \in Hilos /\ hilo_en_exec = NULO
  BY <1>1 DEF Lugares, Eligiendo, ExecDe, EnSalida
<1>3. Elegidos = {h} /\ Elegidos' = {}
  BY <1>1, <1>2 DEF Elegidos
<1>4. EnColas' = EnColas \cup {h}
  BY <1>1, <1>2, ActoresDistintos DEF EnColas
<1>5. EnManos' \subseteq EnManos
  BY <1>1, ManosSiguen DEF Manos
<1>6. Activos' \subseteq Activos
  BY <1>3, <1>4, <1>5, EsperanSigue DEF Activos
<1>7. Queda
  BY <1>1, <1>3, <1>4 DEF Queda
<1>8. MismaVida(CP)
  BY <1>1, VidaAjena DEF Reservadas, Salidas
<1>9. \A b \in Actores : MismaVida(b)
  BY <1>1, <1>8 DEF SoloMueve, MismaVida, MismosDatos
<1> QED BY <1>6, <1>7, <1>9 DEF Quieto

\* The other steps of the short-term scheduler.
LEMMA PasoCortoQuieto ==
    ASSUME IInv, Lugares, ExecDe, UNCHANGED Mapa, UNCHANGED mutex, UNCHANGED fallo,
           \/ EsperaReady \/ HayReady \/ Planificar \/ PonerEnExec \/ EjecutarHilo
           \/ FinEjecucion \/ EsperarQuantum \/ Interrupcion
    PROVE  Quieto
<1>0. CP \in Actores
  BY ActoresDistintos
<1>1. ASSUME SoloMueve(CP), fallo = "ninguno",
             pc[CP] \in {"sem_ready", "hay_ready", "cambio", "fin", "join_rr", "cpu"},
             pc'[CP] \in {"hay_ready", "planifica", "join_rr", "sem_ready", "fin", "cpu"},
             EnColas' = EnColas
      PROVE  Quieto
  <2>1. MismaVida(CP)
    BY <1>0, <1>1, VidaAjena DEF Reservadas, Salidas
  <2>2. EnColas' \subseteq Activos
    BY <1>1 DEF Activos
  <2> QED BY <1>0, <1>1, <2>1, <2>2, EsperanSigue, PasoQuietoDe DEF Manos
<1>2. ASSUME hilo_en_exec \in Hilos, PasarAReady(hilo_en_exec)
      PROVE  EnColas' = EnColas
  <2>1. EnColas' = EnColas \cup {hilo_en_exec}
    BY <1>2, EfectoAReady DEF IInv, TypeOK, Lugares
  <2> QED BY <1>2, <2>1, ExecEnColas
<1>3. CASE EsperaReady
  <2>1. EnColas' = EnColas
    BY <1>3 DEF EsperaReady, EnColas
  <2> QED BY <1>0, <1>1, <1>3, <2>1, SoloVa DEF EsperaReady, EnPaso
<1>4. CASE FinEjecucion
  <2>1. EnColas' = EnColas
    BY <1>4 DEF FinEjecucion, EnPaso, EnColas, ExecDe, EnSalida
  <2> QED BY <1>0, <1>1, <1>4, <2>1, SoloVa DEF FinEjecucion, EnPaso
<1>5. CASE EsperarQuantum
  <2>1. EnColas' = EnColas
    BY <1>5 DEF EsperarQuantum, EnColas, colas
  <2> QED BY <1>0, <1>1, <1>5, <2>1, SoloVa DEF EsperarQuantum, EnPaso
<1>6. CASE EjecutarHilo
  <2>1. hilo_en_exec \in Hilos /\ pc[CP] = "cambio" /\ fallo = "ninguno"
    BY <1>6, PunteroExec DEF IInv, EjecutarHilo, EnPaso
  <2>2. /\ SoloMueve(CP) /\ pc'[CP] \in {"fin", "cpu"}
        /\ PasarAReady(hilo_en_exec) \/ UNCHANGED colas
    BY <1>6, SoloVa, ActoresDistintos DEF EjecutarHilo
  <2>3. EnColas' = EnColas
    BY <1>2, <2>1, <2>2 DEF EnColas, colas
  <2> QED BY <1>1, <2>1, <2>2, <2>3
<1>7. CASE Interrupcion
  <2>1. hilo_en_exec \in Hilos /\ pc[CP] = "cpu" /\ fallo = "ninguno"
    BY <1>7, PunteroExec DEF IInv, Interrupcion, CPUContesta, EnPaso
  <2>2. SoloMueve(CP) /\ pc'[CP] = "fin" /\ PasarAReady(hilo_en_exec)
    BY <1>7, SoloVa, ActoresDistintos DEF Interrupcion
  <2> QED BY <1>1, <1>2, <2>1, <2>2
<1>8. CASE HayReady
  BY <1>1, <1>8, MiraReady DEF EnColas, colas
<1> QED BY <1>3, <1>4, <1>5, <1>6, <1>7, <1>8, PlanificarQuieto, PonerEnExecQuieto

-----------------------------------------------------------------------------
(* System calls that only move threads.                                    *)

\* A handler that is ending a process is of no thread that will run again.
SalientesFuera == \A h \in Hilos : EnSalida(h) => h \notin Activos

LEMMA ExecQueda ==
    ASSUME IInv, Lugares, EnSyscall, NEW m, PasarABlocked(hilo_en_exec, m)
    PROVE  EnColas' = EnColas /\ EnColas' \subseteq Activos
<1>1. EnColas' = EnColas
  BY EfectoABlocked DEF EnSyscall, IInv, TypeOK, Lugares
<1> QED BY <1>1 DEF Activos

LEMMA DetachQuieto ==
    ASSUME IInv, Lugares, SalientesFuera, EnSyscall, NEW m, PasarABlocked(hilo_en_exec, m),
           NEW e \in {"dump", "io_espera"},
           pc' = [pc EXCEPT ![CP] = "fin", ![hilo_en_exec] = e],
           loc' = [loc EXCEPT ![hilo_en_exec].hilo = hilo_en_exec],
           UNCHANGED Mapa, UNCHANGED mutex, UNCHANGED fallo
    PROVE  Quieto
<1> DEFINE h == hilo_en_exec
<1>1. h \in Hilos /\ h \in Activos /\ pc[CP] = "cpu" /\ CP \in Actores /\ h \in Actores /\ h # CP
      /\ h # LP
  BY ExecEnColas, ActoresDistintos DEF EnSyscall, Activos
<1>2. /\ pc'[CP] = "fin" /\ pc'[h] = e
      /\ \A b \in Actores \ {CP, h} : pc'[b] = pc[b]
      /\ \A b \in Actores \ {h} : loc'[b] = loc[b]
  BY <1>1 DEF IInv, TypeOK, TipoActores
<1>3. EnColas' = EnColas
  BY ExecQueda
<1>4. ~EnSalida(h)
  BY <1>1 DEF SalientesFuera
<1> HIDE DEF h
<1>5. EnManos' \subseteq EnManos \cup {h}
  BY <1>2, ActoresDistintos DEF EnManos
<1>6. Elegidos' = {} /\ Elegidos = {}
  BY <1>1, <1>2 DEF Elegidos
<1>7. Activos' \subseteq Activos
  BY <1>1, <1>3, <1>5, <1>6, EsperanSigue DEF Activos
<1>8. Queda
  BY <1>3, <1>6 DEF Queda
<1>9. ASSUME NEW b \in Actores PROVE MismaVida(b)
  <2>1. CASE b = h
    <3>1. pc[h] \notin Reservadas(h) /\ pc'[h] \notin Reservadas(h) \cup {"crear_proceso", "responde"}
      BY <1>1, <1>2, <1>4 DEF EnSalida, Reservadas, Salidas
    <3> QED BY <1>1, <2>1, <3>1, VidaAjena
  <2>2. CASE b = CP
    <3>1. pc[CP] \notin Reservadas(CP) /\ pc'[CP] \notin Reservadas(CP) \cup {"crear_proceso", "responde"}
      BY <1>1, <1>2 DEF Reservadas, Salidas
    <3> QED BY <1>1, <2>2, <3>1, VidaAjena
  <2>3. CASE b \notin {h, CP}
    BY <1>2, <2>3 DEF MismaVida, MismosDatos
  <2> QED BY <2>1, <2>2, <2>3
<1> QED BY <1>7, <1>8, <1>9 DEF Quieto

\* A system call that leaves everybody where it was, and CP at "fin" or at
\* "cambio" again.
LEMMA SyscallQueda ==
    ASSUME IInv, Lugares, EnSyscall, fallo = "ninguno", UNCHANGED Mapa, SoloMueve(CP),
           pc'[CP] \in {"cpu", "fin", "cambio"}, Esperan' \subseteq Activos,
           EnColas' \subseteq Activos, EnColas \subseteq EnColas' \/ fallo' # "ninguno"
    PROVE  Quieto
<1>0. CP \in Actores /\ pc[CP] = "cpu"
  BY ActoresDistintos DEF EnSyscall
<1>1. MismaVida(CP)
  BY <1>0, VidaAjena DEF Reservadas, Salidas
<1> QED BY <1>0, <1>1, PasoQuietoDe DEF Manos

\* One wait list changes, and gains nobody outside S.
LEMMA EsperanGana ==
    ASSUME TipoProcesos, NEW p \in Pids, NEW k \in DOMAIN mutex[p], NEW r, NEW S,
           mutex' = [mutex EXCEPT ![p] = [@ EXCEPT ![k] = r]],
           Esperan \subseteq S, ToSet(r.hilos) \cap Hilos \subseteq S
    PROVE  Esperan' \subseteq S
<1>1. /\ mutex'[p] = [mutex[p] EXCEPT ![k] = r]
      /\ \A q \in Pids : q # p => mutex'[q] = mutex[q]
  BY DEF TipoProcesos
<1>2. /\ DOMAIN mutex'[p] = DOMAIN mutex[p] /\ mutex'[p][k] = r
      /\ \A m \in DOMAIN mutex[p] : m # k => mutex'[p][m] = mutex[p][m]
  BY <1>1
<1> QED BY <1>1, <1>2 DEF Esperan

LEMMA ThreadJoinQuieto ==
    ASSUME IInv, Lugares, EnSyscall, fallo = "ninguno", NEW s, ThreadJoin(s), UNCHANGED Mapa
    PROVE  Quieto
<1>1. /\ UNCHANGED <<loc, mutex>>
      /\ Va(CP, "fin") \/ Va(CP, "cambio")
      /\ PasarABlocked(hilo_en_exec, "THREAD_JOIN") \/ UNCHANGED colas
  BY Zenon DEF ThreadJoin, procesos
<1>2. SoloMueve(CP) /\ pc'[CP] \in {"fin", "cambio"}
  BY <1>1, SoloVa, ActoresDistintos
<1>3. EnColas' = EnColas /\ EnColas' \subseteq Activos
  <2>1. CASE UNCHANGED colas
    BY <2>1 DEF colas, EnColas, Activos
  <2> QED BY <1>1, <2>1, ExecQueda
<1>4. Esperan' \subseteq Activos
  BY <1>1, EsperanSigue
<1> QED BY <1>2, <1>3, <1>4, SyscallQueda

LEMMA MutexCreateQuieto ==
    ASSUME IInv, Lugares, EnSyscall, fallo = "ninguno", NEW s, MutexCreate(s), UNCHANGED Mapa
    PROVE  Quieto
<1> DEFINE p == BuscarProceso(hilo_en_exec[1])
           r == [nombre |-> s.recurso, owner |-> Nadie, hilos |-> <<>>]
<1>1. SoloMueve(CP) /\ pc'[CP] = "cambio"
  BY SoloVa, ActoresDistintos DEF MutexCreate
<1>2. EnColas' = EnColas /\ EnColas' \subseteq Activos
  BY DEF MutexCreate, colas, EnColas, Activos
<1>3. mutex' = [mutex EXCEPT ![p] = Append(@, r)] /\ p \in Pids /\ r.hilos = <<>>
  BY DEF MutexCreate, EnSyscall
<1> HIDE DEF p, r
<1>4. mutex[p] \in Seq(Mutexes) /\ mutex \in [Pids -> Seq(Mutexes)]
  BY <1>3 DEF IInv, TypeOK, TipoProcesos
<1>5. /\ mutex'[p] = Append(mutex[p], r)
      /\ \A q \in Pids : q # p => mutex'[q] = mutex[q]
  BY <1>3, <1>4, Zenon
<1>6. \A k \in DOMAIN mutex'[p] :
          mutex'[p][k] = r \/ (k \in DOMAIN mutex[p] /\ mutex'[p][k] = mutex[p][k])
  <2>1. r \in Mutexes \cup {r} /\ mutex[p] \in Seq(Mutexes \cup {r})
    BY <1>4
  <2>2. /\ DOMAIN mutex'[p] = 1..(Len(mutex[p]) + 1) /\ mutex'[p][Len(mutex[p]) + 1] = r
        /\ \A k \in 1..Len(mutex[p]) : mutex'[p][k] = mutex[p][k]
        /\ DOMAIN mutex[p] = 1..Len(mutex[p]) /\ Len(mutex[p]) \in Nat
    BY <1>5, <2>1, AppendProperties, LenProperties
  <2> QED BY <2>2
<1>7. ToSet(r.hilos) = {}
  BY <1>3 DEF ToSet
<1>8. Esperan' \subseteq Esperan
  BY <1>5, <1>6, <1>7 DEF Esperan
<1>9. Esperan' \subseteq Activos
  BY <1>8 DEF Activos
<1> QED BY <1>1, <1>2, <1>9, SyscallQueda

LEMMA MutexLockQuieto ==
    ASSUME IInv, Lugares, EnSyscall, fallo = "ninguno", NEW s, MutexLock(s), UNCHANGED Mapa
    PROVE  Quieto
<1> DEFINE h == hilo_en_exec
           p == BuscarProceso(h[1])
           k == BuscarRecurso(p, s.recurso)
<1>1. TipoProcesos /\ h \in Hilos /\ p \in Pids /\ h \in Activos
  BY ExecEnColas DEF EnSyscall, IInv, TypeOK, Activos
<1>2. SoloMueve(CP) /\ pc'[CP] \in {"fin", "cambio"}
  BY SoloVa, ActoresDistintos DEF MutexLock, Libre
<1>3. k # 0 => k \in DOMAIN mutex[p]
  BY <1>1, BuscarRecursoTipo
<1>4. EnColas' = EnColas /\ EnColas' \subseteq Activos
  <2>1. UNCHANGED colas \/ PasarABlocked(h, "MUTEX")
    BY Zenon DEF MutexLock
  <2>2. CASE UNCHANGED colas
    BY <2>2 DEF colas, EnColas, Activos
  <2> QED BY <2>1, <2>2, ExecQueda
<1>5. Esperan \subseteq Activos
  BY DEF Activos
<1>6. \/ UNCHANGED mutex
      \/ k # 0 /\ mutex' = [mutex EXCEPT ![p][k].owner = h[2]]
      \/ k # 0 /\ mutex' = [mutex EXCEPT ![p][k].hilos = Append(@, h)]
  BY Zenon DEF MutexLock
<1> HIDE DEF k, p, h
<1>7. Esperan' \subseteq Activos
  <2>1. CASE UNCHANGED mutex
    BY <2>1, EsperanSigue
  <2>2. CASE k # 0 /\ mutex' = [mutex EXCEPT ![p][k].owner = h[2]]
    <3> DEFINE r == [mutex[p][k] EXCEPT !.owner = h[2]]
    <3>1. mutex' = [mutex EXCEPT ![p] = [@ EXCEPT ![k] = r]]
      BY <2>2
    <3>2. r.hilos = mutex[p][k].hilos
      BY <1>1, <1>3, <2>2, MutexTipo DEF Mutexes
    <3> HIDE DEF r
    <3>3. ToSet(r.hilos) \cap Hilos \subseteq Activos
      BY <1>1, <1>3, <1>5, <2>2, <3>2 DEF Esperan
    <3>4. k \in DOMAIN mutex[p]
      BY <1>3, <2>2
    <3> QED BY <1>1, <1>5, <3>1, <3>3, <3>4, EsperanGana
  <2>3. CASE k # 0 /\ mutex' = [mutex EXCEPT ![p][k].hilos = Append(@, h)]
    <3> DEFINE r == [mutex[p][k] EXCEPT !.hilos = Append(@, h)]
    <3>1. mutex' = [mutex EXCEPT ![p] = [@ EXCEPT ![k] = r]]
      BY <2>3
    <3>2. r.hilos = Append(mutex[p][k].hilos, h) /\ mutex[p][k].hilos \in Seq(Hilos)
      BY <1>1, <1>3, <2>3, MutexTipo DEF Mutexes
    <3> HIDE DEF r
    <3>3. ToSet(r.hilos) = ToSet(mutex[p][k].hilos) \cup {h}
      BY <1>1, <3>2, AgregarElemento
    <3>4. ToSet(r.hilos) \cap Hilos \subseteq Activos
      BY <1>1, <1>3, <1>5, <2>3, <3>3 DEF Esperan
    <3>5. k \in DOMAIN mutex[p]
      BY <1>3, <2>3
    <3> QED BY <1>1, <1>5, <3>1, <3>4, <3>5, EsperanGana
  <2> QED BY <1>6, <2>1, <2>2, <2>3
<1> QED BY <1>2, <1>4, <1>7, SyscallQueda

LEMMA MutexUnlockQuieto ==
    ASSUME IInv, Lugares, Seguro, EnSyscall, fallo = "ninguno", NEW s, MutexUnlock(s),
           UNCHANGED Mapa
    PROVE  Quieto
<1> DEFINE h == hilo_en_exec
           p == BuscarProceso(h[1])
           k == BuscarRecurso(p, s.recurso)
           n == mutex[p][k].hilos[1]
<1>1. TipoProcesos /\ p \in Pids
  BY DEF EnSyscall, IInv, TypeOK
<1>2. SoloMueve(CP) /\ pc'[CP] = "cambio"
  BY SoloVa, ActoresDistintos DEF MutexUnlock
<1>3. k # 0 => /\ k \in DOMAIN mutex[p] /\ mutex[p][k] \in Mutexes
               /\ mutex[p][k].hilos \in Seq(Hilos)
               /\ mutex[p][k].hilos # <<>> => n \in Hilos
  BY <1>1, BuscarRecursoTipo, MutexTipo
<1>4. Esperan \subseteq Activos
  BY DEF Activos
<1>5. ASSUME UNCHANGED colas, Esperan' \subseteq Activos PROVE Quieto
  <2>1. EnColas' = EnColas /\ EnColas' \subseteq Activos
    BY <1>5 DEF colas, EnColas, Activos
  <2> QED BY <1>2, <1>5, <2>1, SyscallQueda
<1>6. CASE UNCHANGED <<colas, mutex>>
  BY <1>5, <1>6, EsperanSigue
<1>7. CASE k # 0 /\ UNCHANGED colas /\ mutex' = [mutex EXCEPT ![p][k].owner = Nadie]
  <2> DEFINE r == [mutex[p][k] EXCEPT !.owner = Nadie]
  <2>1. mutex' = [mutex EXCEPT ![p] = [@ EXCEPT ![k] = r]]
    BY <1>7
  <2>2. r.hilos = mutex[p][k].hilos /\ k \in DOMAIN mutex[p]
    BY <1>3, <1>7 DEF Mutexes
  <2> HIDE DEF r, p, k
  <2>3. ToSet(r.hilos) \cap Hilos \subseteq Activos
    BY <1>1, <1>4, <2>2 DEF Esperan
  <2>4. Esperan' \subseteq Activos
    BY <1>1, <1>4, <2>1, <2>2, <2>3, EsperanGana
  <2> QED BY <1>5, <1>7, <2>4
<1>8. CASE /\ k # 0 /\ mutex[p][k].hilos # <<>> /\ PasarAReady(n)
           /\ mutex' = [mutex EXCEPT ![p][k] = Entregado(@)]
  <2> DEFINE r == Entregado(mutex[p][k])
             l == mutex[p][k].hilos
  <2>1. n \in Hilos /\ n[2] \in Tids /\ Tail(l) \in Seq(Hilos) /\ k \in DOMAIN mutex[p]
    BY <1>3, <1>8, Pares, HeadTailProperties
  <2>2. r.hilos = Tail(l)
    BY <1>3, <1>8, <2>1 DEF Mutexes, Entregado
  <2>3. mutex' = [mutex EXCEPT ![p] = [@ EXCEPT ![k] = r]]
    BY <1>8
  <2>4. l \in Seq(Hilos) /\ l # <<>> /\ SinDobles(l) /\ k \in DOMAIN mutex[p]
    BY <1>1, <1>3, <1>8 DEF Seguro, Atados, EsperaUnica
  <2> HIDE DEF r, l
  <2>5. n = l[1]
    BY DEF l
  <2>6. ToSet(Tail(l)) = ToSet(l) \ {n}
    BY <2>4, <2>5, ColaUnica
  <2>7. n \in ToSet(l)
    BY <2>4, <2>5, LenProperties, EmptySeq DEF ToSet
  <2> HIDE DEF n, p, k
  <2>8. n \in Esperan /\ ToSet(l) \subseteq Esperan
    BY <1>1, <2>4, <2>7, ElementosDeLista DEF Esperan, l
  <2>9. Esperan' \subseteq Activos
    <3>1. ToSet(r.hilos) \cap Hilos \subseteq Activos
      BY <1>4, <2>2, <2>6, <2>8
    <3> QED BY <1>1, <1>4, <2>3, <2>4, <3>1, EsperanGana
  <2>10. estado[n] = "BLOCKED"
    BY <2>8 DEF Seguro, Atados
  <2>11. EnColas' = EnColas \cup {n}
    BY <1>8, <2>1, <2>10, EfectoAReady DEF IInv, TypeOK, Lugares
  <2>12. EnColas' \subseteq Activos
    BY <2>8, <2>11 DEF Activos
  <2> QED BY <1>2, <2>9, <2>11, <2>12, SyscallQueda
<1> QED BY <1>6, <1>7, <1>8, Zenon DEF MutexUnlock

\* The exit of the main thread.
LEMMA ThreadExitQuieto ==
    ASSUME IInv, Lugares, EnSyscall, fallo = "ninguno", NEW s, ThreadExit(s), UNCHANGED Mapa,
           fallo' # "ninguno", UNCHANGED <<pc, loc>>
    PROVE  Quieto
<1>1. SoloMueve(CP) /\ pc'[CP] = "cpu" /\ UNCHANGED mutex
  BY DEF SoloMueve, EnSyscall, ThreadExit, procesos
<1>2. EnColas' \subseteq Activos
  BY EfectoDesencolar DEF ThreadExit, EnSyscall, IInv, TypeOK, Lugares, Activos
<1> QED BY <1>1, <1>2, EsperanSigue, SyscallQueda

-----------------------------------------------------------------------------
(* Handlers, and the loops of liberar_pcb and liberar_hilo.                *)

LEMMA HandlerQuieto ==
    ASSUME IInv, Lugares, Seguro, NEW h \in Hilos, UNCHANGED Mapa, UNCHANGED mutex, UNCHANGED fallo,
           \/ TomarMutexIO(h) \/ SoltarMutexIO(h) \/ FinIO(h)
           \/ FinDump(h) /\ PasarAReady(h) /\ Va(h, "no") /\ UNCHANGED loc
    PROVE  Quieto
<1>1. /\ h \in Actores /\ h # CP /\ h # LP /\ pc[h] \in Manos /\ fallo = "ninguno"
      /\ h \in EnManos /\ h \in Activos
  BY ActoresDistintos
  DEF TomarMutexIO, SoltarMutexIO, FinIO, FinDump, EnPaso, Manos, EnManos, Activos
<1>2. \/ UNCHANGED <<colas, loc>> /\ (Va(h, "io_duerme") \/ Va(h, "io_sale"))
      \/ PasarAReady(h) /\ Va(h, "no") /\ UNCHANGED loc
  BY DEF TomarMutexIO, SoltarMutexIO, FinIO
<1>3. SoloMueve(h) /\ pc'[h] \in {"io_duerme", "io_sale", "no"}
  BY <1>1, <1>2, SoloVa
<1>4. EnColas \subseteq EnColas' /\ EnColas' \subseteq Activos
  <2>1. CASE UNCHANGED colas
    BY <2>1 DEF colas, EnColas, Activos
  <2>2. CASE PasarAReady(h)
    <3>1. estado[h] = "BLOCKED"
      BY <1>1 DEF Seguro, Atados
    <3>2. EnColas' = EnColas \cup {h}
      BY <2>2, <3>1, EfectoAReady DEF IInv, TypeOK, Lugares
    <3> QED BY <1>1, <3>2 DEF Activos
  <2> QED BY <1>2, <2>1, <2>2
<1>5. MismaVida(h)
  BY <1>1, <1>3, VidaAjena DEF Manos, Reservadas, Salidas
<1>6. pc[h] # "saca" /\ pc'[h] # "saca"
  BY <1>1, <1>3 DEF Manos
<1> QED BY <1>1, <1>3, <1>4, <1>5, <1>6, EsperanSigue, PasoQuietoDe

\* The labels of an actor inside liberar_pcb and liberar_hilo.
LEMMA MismaFase ==
    ASSUME NEW a \in Actores, pc[a] \in Salidas, MismosDatos(a), pc'[a] \in Salidas,
           SoloMueve(a), IInv, UNCHANGED Mapa, fallo = "ninguno", Esperan' \subseteq Activos,
           EnColas' \subseteq Activos,
           fallo' = "ninguno" /\ ExecEsSuyo =>
              \A h \in EnColas : h \in EnColas' \/ Terminando(h[1])
    PROVE  Quieto
<1>1. MismaVida(a)
  BY DEF MismaVida
<1> QED BY <1>1, PasoQuietoDe DEF Salidas, Manos

\* The TCBs of a process are its own, and its list holds each of them once.
HilosDe ==
    /\ SinDobles(procesos_en_sistema)
    /\ \A p \in Pids : SinDobles(threads[p])
    /\ \A p \in Pids : \A h \in Suyos(p) : h[1] = p /\ h[2] < tid_contador[p]

LEMMA DesencolarTodosQuieto ==
    ASSUME IInv, Lugares, HilosDe, NEW a \in Actores, DesencolarTodos(a),
           UNCHANGED <<creados, nuevos, respuesta, fallo>>
    PROVE  Quieto
<1> DEFINE p == loc[a].proceso
           j == loc[a].j
           t == threads[p]
<1>1. /\ pc[a] = "desencola" /\ fallo = "ninguno" /\ UNCHANGED <<Mapa, mutex>>
      /\ loc[a].j \in Nat \ {0} /\ p \in Pids
  BY PunteroPCB, LocTipo
  DEF DesencolarTodos, EnPaso, bloqueo, procesos, memoria, nuevos, Mapa, IInv, TypeOK
<1>2. EnSalida(a) /\ pc[a] \in Salidas
  BY <1>1 DEF EnSalida, Salidas
<1>3. CASE j <= Len(t)
  <2>1. UNCHANGED pc /\ loc' = [loc EXCEPT ![a].j = @ + 1] /\ Desencolar(t[j])
    BY <1>3 DEF DesencolarTodos
  <2>2. SoloMueve(a) /\ pc'[a] = "desencola"
    BY <1>1, <2>1, SoloLoc
  <2>3. MismosDatos(a)
    BY <1>1, <2>1, <2>2 DEF MismosDatos, IInv, TypeOK, TipoActores, Locales
  <2>4. /\ t \in Seq(Hilos) /\ j \in DOMAIN t /\ t[j] \in Hilos /\ t[j] \in Suyos(p)
        /\ t[j] \in EnLista(t, j)
    <3>1. t \in Seq(Hilos)
      BY <1>1 DEF IInv, TypeOK, TipoProcesos
    <3>2. j \in 1..Len(t) /\ DOMAIN t = 1..Len(t)
      BY <1>1, <1>3, <3>1, LenProperties
    <3> QED BY <3>1, <3>2, ElementOfSeq DEF ToSet, Suyos, EnLista
  <2>5. Terminando(t[j][1])
    BY <1>1, <1>2, <2>4 DEF Terminando, HilosDe
  <2>6. ExecEsSuyo => (estado[t[j]] = "EXEC" => hilo_en_exec \in {t[j], NULO})
    BY <1>1, <2>4, Zenon DEF ExecEsSuyo
  <2> DEFINE h == t[j]
  <2> HIDE DEF h
  <2>7. /\ EnColas' \subseteq EnColas
        /\ \A g \in EnColas \ {h} : g \in EnColas' \/ (g = hilo_en_exec /\ estado[h] = "EXEC")
    BY <2>1, <2>4, EfectoDesencolar DEF IInv, TypeOK, Lugares, h
  <2>8. NULO \notin EnColas
    BY LugarListas, ActoresDistintos DEF IInv, TypeOK
  <2>9. ExecEsSuyo => \A g \in EnColas : g \in EnColas' \/ Terminando(g[1])
    BY <2>5, <2>6, <2>7, <2>8 DEF h
  <2>10. EnColas' \subseteq Activos
    BY <2>7 DEF Activos
  <2> QED BY <1>1, <1>2, <2>2, <2>3, <2>9, <2>10, EsperanSigue, MismaFase DEF Salidas
<1>4. CASE ~(j <= Len(t))
  <2>1. UNCHANGED <<colas, loc>> /\ Va(a, "libera")
    BY <1>4 DEF DesencolarTodos
  <2>2. SoloMueve(a) /\ pc'[a] = "libera"
    BY <2>1, SoloVa
  <2>3. MismosDatos(a)
    BY <1>1, <2>1, <2>2 DEF MismosDatos, Fase
  <2>4. EnColas' = EnColas /\ EnColas' \subseteq Activos
    BY <2>1 DEF colas, EnColas, Activos
  <2> QED BY <1>1, <1>2, <2>2, <2>3, <2>4, EsperanSigue, MismaFase DEF Salidas
<1> QED BY <1>3, <1>4

LEMMA DespertarJoinsQuieto ==
    ASSUME IInv, Lugares, NEW a \in Actores, DespertarJoins(a),
           UNCHANGED <<creados, nuevos, respuesta, fallo>>
    PROVE  Quieto
<1> DEFINE j == loc[a].j
           b == cola_blocked[j]
<1>1. /\ pc[a] = "joins" /\ fallo = "ninguno" /\ UNCHANGED <<Mapa, mutex>>
      /\ j \in Nat \ {0} /\ cola_blocked \in Seq(Hilos) /\ pc[a] \in Salidas
  BY LocTipo
  DEF DespertarJoins, EnPaso, procesos, memoria, nuevos, Mapa, IInv, TypeOK, TipoColas, Salidas
<1>2. CASE j <= Len(cola_blocked)
  <2>1. /\ loc' = [loc EXCEPT ![a].j = @ + 1] /\ UNCHANGED pc
        /\ UNCHANGED colas \/ PasarAReady(b)
    BY <1>2 DEF DespertarJoins
  <2>2. SoloMueve(a) /\ pc'[a] = "joins"
    BY <1>1, <2>1, SoloLoc
  <2>3. MismosDatos(a)
    BY <1>1, <2>1, <2>2 DEF MismosDatos, IInv, TypeOK, TipoActores, Locales
  <2>4. b \in Hilos /\ b \in ToSet(cola_blocked)
    BY <1>1, <1>2, ElementOfSeq, LenProperties DEF ToSet
  <2> HIDE DEF b
  <2>5. EnColas' = EnColas
    <3>1. CASE UNCHANGED colas
      BY <3>1 DEF colas, EnColas
    <3>2. CASE PasarAReady(b)
      <4>1. estado[b] = "BLOCKED" /\ b \in EnColas
        BY <2>4 DEF Lugares, UnSoloLugar, EnColas
      <4>2. EnColas' = EnColas \cup {b}
        BY <2>4, <3>2, <4>1, EfectoAReady DEF IInv, TypeOK, Lugares
      <4> QED BY <4>1, <4>2
    <3> QED BY <2>1, <3>1, <3>2
  <2>6. EnColas' \subseteq Activos
    BY <2>5 DEF Activos
  <2> QED BY <1>1, <2>2, <2>3, <2>5, <2>6, EsperanSigue, MismaFase
<1>3. CASE ~(j <= Len(cola_blocked))
  <2>1. /\ loc' = [loc EXCEPT ![a] = [@ EXCEPT !.j = 1]] /\ Va(a, "mutex")
        /\ UNCHANGED colas
    BY <1>3 DEF DespertarJoins
  <2>2. SoloMueve(a) /\ pc'[a] = "mutex"
    BY <2>1, SoloVa
  <2>3. MismosDatos(a)
    BY <1>1, <2>1, <2>2 DEF MismosDatos, Fase, IInv, TypeOK, TipoActores, Locales
  <2>4. EnColas' = EnColas /\ EnColas' \subseteq Activos
    BY <2>1 DEF colas, EnColas, Activos
  <2> QED BY <1>1, <2>2, <2>3, <2>4, EsperanSigue, MismaFase DEF Salidas
<1> QED BY <1>2, <1>3

\* One mutex of the thread that is being freed: nobody inherits it.
LEMMA HeredarMutexQuieto ==
    ASSUME IInv, SinHerederos, NEW a \in Actores, HeredarMutex(a),
           loc[a].dueno # NULO, loc[a].j <= Len(mutex[loc[a].dueno]),
           UNCHANGED <<creados, nuevos, respuesta, fallo>>
    PROVE  Quieto
<1> DEFINE p == loc[a].dueno
           j == loc[a].j
           q == mutex[p][j]
<1>1. /\ pc[a] = "mutex" /\ fallo = "ninguno" /\ UNCHANGED Mapa /\ pc[a] \in Salidas
      /\ TipoProcesos /\ j \in Nat \ {0} /\ p \in Pids
  BY LocTipo DEF HeredarMutex, EnPaso, memoria, nuevos, Mapa, IInv, TypeOK, Salidas
<1>2. j \in DOMAIN mutex[p]
  BY <1>1, LenProperties DEF TipoProcesos
<1>3. ~(q.owner = loc[a].hilo[2] /\ q.hilos # <<>>)
  <2>1. Herederos(loc[a].dueno, loc[a].j, loc[a].hilo) = {}
    BY <1>1 DEF SinHerederos
  <2> QED BY <1>2, <2>1 DEF Herederos
<1>4. /\ loc' = [loc EXCEPT ![a].j = @ + 1] /\ UNCHANGED <<pc, colas>>
      /\ UNCHANGED mutex \/ mutex' = [mutex EXCEPT ![p][j].owner = Nadie]
  BY <1>3 DEF HeredarMutex
<1>5. SoloMueve(a) /\ pc'[a] = "mutex"
  BY <1>1, <1>4, SoloLoc
<1>6. MismosDatos(a)
  BY <1>1, <1>4, <1>5 DEF MismosDatos, IInv, TypeOK, TipoActores, Locales
<1>7. EnColas' = EnColas /\ EnColas' \subseteq Activos
  BY <1>4 DEF colas, EnColas, Activos
<1>8. Esperan' \subseteq Activos
  <2>1. CASE UNCHANGED mutex
    BY <2>1, EsperanSigue
  <2>2. CASE mutex' = [mutex EXCEPT ![p][j].owner = Nadie]
    <3> DEFINE r == [mutex[p][j] EXCEPT !.owner = Nadie]
    <3>1. mutex' = [mutex EXCEPT ![p] = [@ EXCEPT ![j] = r]]
      BY <2>2
    <3>2. r.hilos = mutex[p][j].hilos
      BY <1>1, <1>2, MutexTipo DEF Mutexes
    <3> HIDE DEF r, p, j
    <3>3. Esperan \subseteq Activos
      BY DEF Activos
    <3>4. ToSet(r.hilos) \cap Hilos \subseteq Activos
      BY <1>1, <1>2, <3>2, <3>3 DEF Esperan
    <3> QED BY <1>1, <1>2, <3>1, <3>3, <3>4, EsperanGana
  <2> QED BY <1>4, <2>1, <2>2
<1> QED BY <1>1, <1>5, <1>6, <1>7, <1>8, MismaFase

\* LP goes to sleep, or puts off a process that does not fit.
LEMMA LargoPlazoQuieto ==
    ASSUME IInv, UNCHANGED <<bloqueo, creados, procesos, fallo>>,
           ConsultarLargoPlazo \/ (AtenderRespuesta /\ Postergar)
    PROVE  Quieto
<1>1. /\ LP \in Actores /\ LP # CP /\ pc[LP] \in {"inicio", "responde"} /\ fallo = "ninguno"
      /\ UNCHANGED <<Mapa, mutex, colas, loc>> /\ (Va(LP, "sem_new") \/ Va(LP, "inicio"))
  BY ActoresDistintos
  DEF ConsultarLargoPlazo, AtenderRespuesta, Postergar, EnPaso, nuevos, memoria, procesos, Mapa
<1>2. SoloMueve(LP) /\ pc'[LP] \in {"sem_new", "inicio"}
  BY <1>1, SoloVa
<1>3. MismaVida(LP)
  BY <1>1, <1>2, VidaAjena DEF Reservadas, Salidas
<1>4. EnColas' = EnColas /\ EnColas' \subseteq Activos
  BY <1>1 DEF colas, EnColas, Activos
<1> QED BY <1>1, <1>2, <1>3, <1>4, EsperanSigue, PasoQuietoDe DEF Manos

LEMMA NadaQuieto ==
    ASSUME UNCHANGED <<colas, creados, procesos, mem, cola_new, respuesta, pc, loc>>,
           fallo = "ninguno" \/ UNCHANGED fallo
    PROVE  Quieto
<1>1. Activos' = Activos
  BY DEF Activos, EnColas, Elegidos, EnManos, Esperan, colas, procesos
<1>2. Queda
  BY DEF Queda, EnColas, Elegidos, colas
<1> QED BY <1>1, <1>2 DEF Quieto, MismaVida, MismosDatos, Mapa, procesos

-----------------------------------------------------------------------------
(* What memoria knows of the threads that are alive.                       *)

\* The thread that CP frees on its own, without its process, is nowhere else.
SueltoFuera ==
    pc[CP] = "fin_hilo" \/ (EnSalida(CP) /\ loc[CP].proceso = NULO) =>
        loc[CP].hilo \in Hilos /\ loc[CP].hilo \notin Activos /\ Visto(loc[CP].hilo)

\* The thread an actor is freeing, and the process it is taken from.
Saliente(a) ==
    LET h == loc[a].hilo IN
    h \in Hilos =>
        /\ h[2] < tid_contador[h[1]]
        /\ loc[a].proceso = h[1] \/ h[1] \notin Vivos \/ (a = CP /\ loc[a].proceso = NULO)
        /\ pc[a] \in {"joins", "mutex"} =>
              (h \notin Suyos(h[1]) /\ loc[a].dueno = h[1]) \/ h[1] \notin Vivos

SalientesSuyos == \A a \in Actores : EnSalida(a) => Saliente(a)

\* memoria has the contexts of an admitted process until FIN_PROCESO.
ConContexto ==
    \A p \in Vivos \ ToSet(cola_new) : ~Borrando(p) =>
        <<p, 0>> \in mem /\ \A h \in Suyos(p) : h \in mem \/ Limbo(h)

\* So it has them of the process whose admission LP has not read.
AdmitidoConContexto ==
    LET p == loc[LP].proceso IN
    pc[LP] = "responde" /\ respuesta = "SUCCESS" /\ p \in Vivos /\ ~Borrando(p) =>
        <<p, 0>> \in mem

\* Whoever may run has a context, but for the threads of a process being freed.
ActivosConContexto == \A h \in Activos : h \in mem \/ h[1] \notin Vivos \/ Borrando(h[1])

Vida ==
    /\ HilosDe /\ FinDeOtro
    /\ SalientesFuera /\ SueltoFuera /\ SalientesSuyos
    /\ ConContexto /\ AdmitidoConContexto /\ ActivosConContexto

\* Nothing that existed is created again.
Viejos ==
    /\ \A p \in Pids : tid_contador[p] <= tid_contador'[p]
    /\ \A h \in Hilos : h[2] < tid_contador[h[1]] =>
          /\ h[1] \in Vivos' => h[1] \in Vivos
          /\ h \in Suyos(h[1])' => h \in Suyos(h[1])
          /\ h[1] \in ToSet(cola_new') => h[1] \in ToSet(cola_new)

BorrandoSigue == \A p \in Vivos' : Borrando(p) => Borrando(p)'

LEMMA CreaViejos ==
    ASSUME IInv, NoCrea
    PROVE  Viejos
<1>1. \A p \in Pids : tid_contador'[p] = tid_contador[p] /\ tid_contador[p] \in Int
  BY TiposDeCreados DEF NoCrea, creados, IInv, TypeOK, TipoCreados
<1>2. \A h \in Hilos : h[1] \in Pids
  BY Pares
<1> QED BY <1>1, <1>2 DEF Viejos, NoCrea, Vivos, Suyos

LEMMA MapaCrea ==
    ASSUME Lugares, UNCHANGED <<creados, procesos_en_sistema, threads, cola_new>>
    PROVE  NoCrea
  BY DEF Lugares, EnNew, NoCrea

LEMMA DeActor ==
    ASSUME NEW a \in Actores, SoloMueve(a),
           EnSalida(a) /\ pc[a] # "fin_proceso" /\ loc[a].proceso \in Vivos' =>
               EnSalida(a)' /\ pc'[a] # "fin_proceso" /\ loc'[a].proceso = loc[a].proceso
    PROVE  BorrandoSigue
  BY DEF BorrandoSigue, Borrando, SoloMueve, EnSalida

LEMMA R1Sigue ==
    ASSUME SalientesFuera, NEW X, Activos' \subseteq Activos \cup X, X \cap Ocupados = {},
           \A h \in Hilos : EnSalida(h)' => EnSalida(h) \/ h \notin Activos'
    PROVE  SalientesFuera'
<1>1. \A h \in Hilos : EnSalida(h) => h \in Ocupados
  BY DEF EnSalida, Ocupados, Atendidos
<1> QED BY <1>1 DEF SalientesFuera

LEMMA VistoSigue ==
    ASSUME TipoCreados, TipoCreados', Viejos, NEW h \in Hilos, Visto(h), pc'[CP] # "crear_hilo"
    PROVE  Visto(h)'
<1>1. h[1] \in Pids /\ h[2] \in Int
  BY Pares
<1>2. tid_contador[h[1]] \in Int /\ tid_contador'[h[1]] \in Int
  BY <1>1, ConstantesKernel DEF TipoCreados
<1> QED BY <1>1, <1>2 DEF Visto, Viejos

\* What CP holds on its own after the step, it held before.
MismaSuelta ==
    LET suelta == pc[CP] = "fin_hilo" \/ (EnSalida(CP) /\ loc[CP].proceso = NULO)
    IN  suelta' => suelta /\ loc'[CP].hilo = loc[CP].hilo

LEMMA R2Sigue ==
    ASSUME IInv, IInv', SueltoFuera, Viejos, NEW X, Activos' \subseteq Activos \cup X,
           X \cap Ocupados = {},
           \A h \in X : ~Visto(h), MismaSuelta
    PROVE  SueltoFuera'
<1> SUFFICES ASSUME pc'[CP] = "fin_hilo" \/ (EnSalida(CP)' /\ loc'[CP].proceso = NULO)
             PROVE  loc'[CP].hilo \in Hilos /\ loc'[CP].hilo \notin Activos' /\ Visto(loc[CP].hilo)'
  BY DEF SueltoFuera
<1>1. /\ loc'[CP].hilo = loc[CP].hilo
      /\ loc[CP].hilo \in Hilos /\ loc[CP].hilo \notin Activos /\ Visto(loc[CP].hilo)
  BY DEF SueltoFuera, MismaSuelta
<1>2. pc'[CP] # "crear_hilo"
  BY DEF EnSalida
<1>3. PICK h \in Hilos : h = loc[CP].hilo /\ Visto(h) /\ h \notin Activos
  BY <1>1
<1>4. Visto(h)'
  BY <1>2, <1>3, VistoSigue DEF IInv, TypeOK
<1>5. Visto(loc[CP].hilo)'
  BY <1>1, <1>3, <1>4 DEF Visto
<1> QED BY <1>1, <1>3, <1>5

\* What the others are freeing does not come back.
LEMMA SalienteSigue ==
    ASSUME IInv, IInv', Viejos, NEW a \in Actores, Saliente(a), EnSalida(a), EnSalida(a)',
           loc'[a].hilo = loc[a].hilo, loc'[a].proceso = loc[a].proceso,
           pc'[a] \in {"joins", "mutex"} =>
              pc[a] \in {"joins", "mutex"} /\ loc'[a].dueno = loc[a].dueno
    PROVE  Saliente(a)'
<1> DEFINE h == loc[a].hilo
<1> SUFFICES ASSUME h \in Hilos
             PROVE  /\ h[2] < tid_contador'[h[1]]
                    /\ loc[a].proceso = h[1] \/ h[1] \notin Vivos' \/ (a = CP /\ loc[a].proceso = NULO)
                    /\ pc'[a] \in {"joins", "mutex"} =>
                          (h \notin Suyos(h[1])' /\ loc'[a].dueno = h[1]) \/ h[1] \notin Vivos'
  BY DEF Saliente, Suyos
<1>1. h[1] \in Pids /\ h[2] \in Int
  BY Pares
<1>2. tid_contador[h[1]] \in Int /\ tid_contador'[h[1]] \in Int
  BY <1>1, ConstantesKernel DEF IInv, TypeOK, TipoCreados
<1>3. h[2] < tid_contador[h[1]]
  BY DEF Saliente
<1> QED BY <1>1, <1>2, <1>3 DEF Saliente, Viejos

LEMMA V5Sigue ==
    ASSUME IInv, IInv', SalientesSuyos, Viejos, NEW a \in Actores, SoloMueve(a),
           EnSalida(a)' => Saliente(a)'
    PROVE  SalientesSuyos'
<1> SUFFICES ASSUME NEW b \in Actores, EnSalida(b)' PROVE Saliente(b)'
  BY DEF SalientesSuyos
<1>1. CASE b = a
  BY <1>1
<1>2. CASE b # a
  BY <1>2, SalienteSigue DEF SalientesSuyos, SoloMueve, EnSalida
<1> QED BY <1>1, <1>2

\* What memoria forgets is of a process that is ending, or the thread that
\* CP frees.
MemSigue ==
    \A h \in mem \ mem' :
        \/ Borrando(h[1])'
        \/ h[2] # 0 /\ h \notin Activos' /\ Limbo(h)'

LimboSigue ==
    \A h : Limbo(h) =>
        \/ Limbo(h)' \/ h \in mem' \/ Borrando(h[1])'
        \/ h \notin Suyos(h[1])' \/ h[1] \notin Vivos' \ ToSet(cola_new')

AltasSiguen ==
    \A p \in Vivos' \ ToSet(cola_new') :
        \/ Borrando(p)'
        \/ <<p, 0>> \in mem' /\ Suyos(p)' \subseteq mem'
        \/ /\ p \in Vivos \ ToSet(cola_new)
           /\ \A h \in Suyos(p)' : h \in Suyos(p) \/ h \in mem' \/ Limbo(h)'

LEMMA V6Sigue ==
    ASSUME ConContexto, HilosDe', BorrandoSigue, MemSigue, LimboSigue, AltasSiguen, IInv'
    PROVE  ConContexto'
<1> SUFFICES ASSUME NEW p \in Vivos' \ ToSet(cola_new'), ~Borrando(p)',
                    p \in Vivos \ ToSet(cola_new),
                    \A h \in Suyos(p)' : h \in Suyos(p) \/ h \in mem' \/ Limbo(h)'
             PROVE  <<p, 0>> \in mem' /\ \A h \in Suyos(p)' : h \in mem' \/ Limbo(h)'
  BY DEF ConContexto, AltasSiguen
<1>1. ~Borrando(p)
  BY DEF BorrandoSigue
<1>2. <<p, 0>> \in mem /\ \A h \in Suyos(p) : h \in mem \/ Limbo(h)
  BY <1>1 DEF ConContexto
<1>3. <<p, 0>> \in mem'
  BY <1>2 DEF MemSigue
<1>4. ASSUME NEW h \in Suyos(p)', h \in Suyos(p), h \notin mem' PROVE Limbo(h)'
  <2>1. h[1] = p
    <3>1. p \in Pids
      BY ElementosDeLista DEF Vivos, IInv, TypeOK, TipoProcesos
    <3> QED BY <3>1 DEF HilosDe, Suyos
  <2>2. CASE h \in mem
    BY <1>4, <2>1, <2>2 DEF MemSigue
  <2>3. CASE Limbo(h)
    BY <1>4, <2>1, <2>3 DEF LimboSigue
  <2> QED BY <1>2, <1>4, <2>2, <2>3
<1> QED BY <1>3, <1>4

LEMMA JSigue ==
    ASSUME IInv, Lugares, AdmitidoConContexto, Viejos, BorrandoSigue,
           pc'[LP] = "responde" => pc[LP] = "responde" /\ loc'[LP] = loc[LP] /\ UNCHANGED respuesta,
           \A p \in Vivos' : ~Borrando(p)' => {<<p, 0>>} \cap mem \subseteq mem'
    PROVE  AdmitidoConContexto'
<1> DEFINE p == loc[LP].proceso
<1> SUFFICES ASSUME pc'[LP] = "responde", respuesta' = "SUCCESS", loc'[LP].proceso \in Vivos',
                    ~Borrando(loc[LP].proceso)'
             PROVE  <<loc'[LP].proceso, 0>> \in mem'
  BY DEF AdmitidoConContexto
<1>1. pc[LP] = "responde" /\ loc'[LP] = loc[LP] /\ respuesta = "SUCCESS"
  OBVIOUS
<1>2. p \in ToSet(cola_new) /\ p \in Pids
  <2>1. cola_new \in Seq(Pids) /\ Len(cola_new) = sem_new + 1 /\ sem_new \in Nat
        /\ p = cola_new[1]
    BY <1>1 DEF IInv, TypeOK, TipoNuevos, SemNewCuenta, LPTieneCabeza
  <2> QED BY <2>1, LenProperties, ElementOfSeq DEF ToSet
<1>3. tid_contador[p] = 1
  BY <1>2 DEF Lugares, Dados
<1>4. <<p, 0>> \in Hilos
  <2>1. 0 \in Tids
    BY ConstantesKernel DEF Tids
  <2> QED BY <1>2, <2>1, Pares
<1>5. p \in Vivos
  BY <1>1, <1>3, <1>4 DEF Viejos
<1>6. ~Borrando(p)
  BY <1>1 DEF BorrandoSigue
<1>7. <<p, 0>> \in mem
  BY <1>1, <1>5, <1>6 DEF AdmitidoConContexto
<1> QED BY <1>1, <1>7

LEMMA ACSigue ==
    ASSUME IInv, Lugares, ActivosConContexto, Viejos, BorrandoSigue, NEW X,
           Activos' \subseteq Activos \cup X,
           \A h \in X : h \in mem' \/ h[1] \notin Vivos' \/ Borrando(h[1])',
           \A h \in Activos \cap mem : h \in mem' \/ h[1] \notin Vivos' \/ Borrando(h[1])' \/ h \notin Activos'
    PROVE  ActivosConContexto'
<1> SUFFICES ASSUME NEW h \in Activos', h \in Activos
             PROVE  h \in mem' \/ h[1] \notin Vivos' \/ Borrando(h[1])'
  BY DEF ActivosConContexto
<1>1. h \in Hilos /\ h \in Ocupados
  BY LugarListas DEF IInv, TypeOK, Activos, Ocupados, Elegidos, EnManos, Manos, Esperan, Atendidos
<1>2. h[2] < tid_contador[h[1]]
  BY <1>1 DEF Lugares, Vistos, Visto
<1> QED BY <1>1, <1>2 DEF ActivosConContexto, Viejos, BorrandoSigue

\* What MismaVida keeps.
LEMMA VidaIgual ==
    ASSUME NEW a \in Actores, MismaVida(a)
    PROVE  /\ EnSalida(a)' <=> EnSalida(a)
           /\ EnSalida(a) => /\ loc'[a].hilo = loc[a].hilo /\ loc'[a].proceso = loc[a].proceso
                             /\ loc'[a].dueno = loc[a].dueno
                             /\ pc'[a] = "fin_proceso" <=> pc[a] = "fin_proceso"
                             /\ pc'[a] \in {"joins", "mutex"} <=> pc[a] \in {"joins", "mutex"}
           /\ a = CP => /\ pc'[a] = "crear_hilo" <=> pc[a] = "crear_hilo"
                        /\ pc'[a] = "fin_hilo" <=> pc[a] = "fin_hilo"
                        /\ pc'[a] = "cancela" <=> pc[a] = "cancela"
                        /\ pc[a] \in {"crear_hilo", "fin_hilo"} => loc'[a].hilo = loc[a].hilo
           /\ a = LP /\ pc'[a] = "responde" =>
                  pc[a] = "responde" /\ loc'[a].hilo = loc[a].hilo /\ loc'[a].proceso = loc[a].proceso
           /\ a = LP /\ pc'[a] = "crear_proceso" => pc[a] = "crear_proceso" /\ loc'[a].hilo = loc[a].hilo
<1>1. CASE pc[a] \in Reservadas(a) \/ pc'[a] \in Reservadas(a)
  <2>1. MismosDatos(a)
    BY <1>1 DEF MismaVida
  <2> QED BY <2>1 DEF MismosDatos, Fase, EnSalida
<1>2. CASE a = LP /\ pc'[a] \in {"crear_proceso", "responde"}
  <2>1. MismosDatos(a)
    BY <1>2 DEF MismaVida
  <2> QED BY <2>1 DEF MismosDatos, Fase, EnSalida
<1>3. CASE /\ pc[a] \notin Reservadas(a) /\ pc'[a] \notin Reservadas(a)
           /\ ~(a = LP /\ pc'[a] \in {"crear_proceso", "responde"})
  BY <1>3 DEF Reservadas, Salidas, EnSalida
<1> QED BY <1>1, <1>2, <1>3

LEMMA QuietoVida ==
    ASSUME IInv, IInv', Lugares, Vida, Quieto
    PROVE  Vida'
<1>1. UNCHANGED <<procesos_en_sistema, threads, creados, tid_contador, mem, cola_new, respuesta>>
  BY DEF Quieto, Mapa, creados
<1>2. Viejos
  BY <1>1, MapaCrea, CreaViejos
<1>3. \A a \in Actores : EnSalida(a)' <=> EnSalida(a)
  BY VidaIgual DEF Quieto
<1>4. \A a \in Actores : EnSalida(a) =>
          /\ loc'[a].hilo = loc[a].hilo /\ loc'[a].proceso = loc[a].proceso
          /\ loc'[a].dueno = loc[a].dueno
          /\ pc'[a] = "fin_proceso" <=> pc[a] = "fin_proceso"
          /\ pc'[a] \in {"joins", "mutex"} <=> pc[a] \in {"joins", "mutex"}
  BY VidaIgual DEF Quieto
<1>5. /\ pc'[CP] = "crear_hilo" <=> pc[CP] = "crear_hilo"
      /\ pc'[CP] = "fin_hilo" <=> pc[CP] = "fin_hilo"
      /\ pc'[CP] = "cancela" <=> pc[CP] = "cancela"
      /\ pc[CP] \in {"crear_hilo", "fin_hilo"} => loc'[CP].hilo = loc[CP].hilo
  BY VidaIgual, ActoresDistintos DEF Quieto
<1>6. pc'[LP] = "responde" => pc[LP] = "responde" /\ loc'[LP].proceso = loc[LP].proceso
  BY VidaIgual, ActoresDistintos DEF Quieto
<1>7. \A p : Borrando(p)' <=> Borrando(p)
  BY <1>3, <1>4 DEF Borrando
<1>8. Activos' \subseteq Activos
  BY DEF Quieto
<1>9. HilosDe'
  BY <1>1 DEF Vida, HilosDe, Suyos
<1>10. FinDeOtro'
  BY <1>5 DEF Vida, FinDeOtro
<1>11. SalientesFuera'
  BY <1>3, <1>8, ActoresDistintos DEF Vida, SalientesFuera
<1>12. MismaSuelta
  BY <1>3, <1>4, <1>5, ActoresDistintos DEF MismaSuelta
<1>13. SueltoFuera'
  <2>1. Activos' \subseteq Activos \cup {} /\ {} \cap Ocupados = {} /\ \A h \in {} : ~Visto(h)
    BY <1>8
  <2> QED BY <1>2, <1>12, <2>1, R2Sigue DEF Vida
<1>14. SalientesSuyos'
  <2> SUFFICES ASSUME NEW a \in Actores, EnSalida(a)' PROVE Saliente(a)'
    BY DEF SalientesSuyos
  <2> QED BY <1>2, <1>3, <1>4, SalienteSigue DEF Vida, SalientesSuyos
<1>15. ConContexto'
  <2>1. \A h : Limbo(h)' <=> Limbo(h)
    BY <1>3, <1>4, <1>5, ActoresDistintos DEF Limbo
  <2> QED BY <1>1, <1>7, <2>1 DEF Vida, ConContexto, Vivos, Suyos
<1>16. AdmitidoConContexto'
  BY <1>1, <1>6, <1>7 DEF Vida, AdmitidoConContexto, Vivos
<1>17. ActivosConContexto'
  BY <1>1, <1>7, <1>8 DEF Vida, ActivosConContexto, Vivos
<1> QED BY <1>9, <1>10, <1>11, <1>13, <1>14, <1>15, <1>16, <1>17 DEF Vida

LEMMA VidaSigue ==
    ASSUME IInv, IInv', Lugares, Vida, Viejos, HilosDe', FinDeOtro',
           NEW a \in Actores, SoloMueve(a),
           EnSalida(a) /\ pc[a] # "fin_proceso" /\ loc[a].proceso \in Vivos' =>
               EnSalida(a)' /\ pc'[a] # "fin_proceso" /\ loc'[a].proceso = loc[a].proceso,
           NEW X, Activos' \subseteq Activos \cup X, X \cap Ocupados = {}, \A h \in X : ~Visto(h),
           \A h \in X : h \in mem' \/ h[1] \notin Vivos' \/ Borrando(h[1])',
           MemSigue, LimboSigue, AltasSiguen,
           a \in Hilos /\ EnSalida(a)' => EnSalida(a) \/ a \notin Activos',
           SueltoFuera' \/ MismaSuelta, EnSalida(a)' => Saliente(a)',
           AdmitidoConContexto' \/ (a # LP /\ UNCHANGED respuesta)
    PROVE  Vida'
<1>1. BorrandoSigue
  BY DeActor
<1>2. SalientesFuera'
  <2>1. \A h \in Hilos : EnSalida(h)' => EnSalida(h) \/ h \notin Activos'
    BY DEF SoloMueve, EnSalida, Actores
  <2> QED BY <2>1, R1Sigue DEF Vida
<1>3. SueltoFuera'
  BY R2Sigue DEF Vida
<1>4. SalientesSuyos'
  BY V5Sigue DEF Vida
<1>5. ConContexto'
  BY <1>1, V6Sigue DEF Vida
<1>6. AdmitidoConContexto'
  <2>1. CASE a # LP /\ UNCHANGED respuesta
    <3>1. pc'[LP] = "responde" => pc[LP] = "responde" /\ loc'[LP] = loc[LP]
      BY <2>1, ActoresDistintos DEF SoloMueve
    <3>2. \A p \in Vivos' : ~Borrando(p)' => {<<p, 0>>} \cap mem \subseteq mem'
      BY DEF MemSigue
    <3> QED BY <1>1, <2>1, <3>1, <3>2, JSigue DEF Vida
  <2> QED BY <2>1
<1>7. ActivosConContexto'
  <2>1. \A h \in Activos \cap mem :
            h \in mem' \/ h[1] \notin Vivos' \/ Borrando(h[1])' \/ h \notin Activos'
    BY DEF MemSigue
  <2> QED BY <1>1, <2>1, ACSigue DEF Vida
<1> QED BY <1>2, <1>3, <1>4, <1>5, <1>6, <1>7 DEF Vida

\* When the step puts nobody in a queue.
LEMMA VidaSigueIgual ==
    ASSUME IInv, IInv', Lugares, Vida, Viejos, HilosDe', FinDeOtro',
           NEW a \in Actores, SoloMueve(a),
           EnSalida(a) /\ pc[a] # "fin_proceso" /\ loc[a].proceso \in Vivos' =>
               EnSalida(a)' /\ pc'[a] # "fin_proceso" /\ loc'[a].proceso = loc[a].proceso,
           Activos' \subseteq Activos, MemSigue, LimboSigue, AltasSiguen,
           a \in Hilos /\ EnSalida(a)' => EnSalida(a) \/ a \notin Activos',
           SueltoFuera' \/ MismaSuelta, EnSalida(a)' => Saliente(a)',
           AdmitidoConContexto' \/ (a # LP /\ UNCHANGED respuesta)
    PROVE  Vida'
<1>1. /\ Activos' \subseteq Activos \cup {} /\ {} \cap Ocupados = {} /\ \A h \in {} : ~Visto(h)
      /\ \A h \in {} : h \in mem' \/ h[1] \notin Vivos' \/ Borrando(h[1])'
  OBVIOUS
<1> QED BY <1>1, VidaSigue

LEMMA AltaTCB ==
    ASSUME IInv, HilosDe, NEW p \in Pids, NEW h \in Hilos, h \notin Suyos(p),
           threads' = [threads EXCEPT ![p] = Append(@, h)]
    PROVE  /\ Suyos(p)' = Suyos(p) \cup {h} /\ SinDobles(threads'[p])
           /\ \A q \in Pids : q # p => threads'[q] = threads[q]
<1>1. threads[p] \in Seq(Hilos) /\ threads \in [Pids -> Seq(Hilos)]
  BY TiposDeCreados
<1>2. /\ threads'[p] = Append(threads[p], h)
      /\ \A q \in Pids : q # p => threads'[q] = threads[q]
  BY <1>1
<1>3. SinDobles(threads[p]) /\ h \notin ToSet(threads[p])
  BY DEF HilosDe, Suyos
<1>4. ToSet(threads'[p]) = ToSet(threads[p]) \cup {h} /\ SinDobles(threads'[p])
  BY <1>1, <1>2, <1>3, AgregarElemento
<1> QED BY <1>2, <1>4 DEF Suyos

\* crear_pcb: a new process, in cola_new, that nobody has seen.
LEMMA IniciarProcesoVida ==
    ASSUME IInv, IInv', Lugares, Vida, EnSyscall, NEW s, IniciarProceso(s),
           UNCHANGED <<mem, respuesta>>
    PROVE  Vida'
<1>0. pid_counter \in Pids
  BY ConstantesKernel DEF IniciarProceso, IInv, TypeOK, TipoCreados, Pids
<1>1. PICK p \in Pids :
      /\ p = pid_counter /\ procesos_en_sistema' = Append(procesos_en_sistema, p)
      /\ cola_new' = Append(cola_new, p)
      /\ threads' = [threads EXCEPT ![p] = Append(@, <<p, tid_contador[p]>>)]
      /\ tid_contador' = [tid_contador EXCEPT ![p] = @ + 1]
      /\ UNCHANGED <<colas, mutex, loc>> /\ Va(CP, "cambio")
  BY <1>0 DEF IniciarProceso, TcbNuevo
<1> DEFINE h == <<p, 0>>
<1>2. /\ tid_contador \in [Pids -> 0..MaxTid]
      /\ procesos_en_sistema \in Seq(Pids) /\ cola_new \in Seq(Pids)
      /\ ToSet(procesos_en_sistema) \subseteq Pids
      /\ Pids \subseteq Nat /\ \A g \in Hilos : g[1] \in Pids /\ g[2] \in Nat
      /\ \A q \in Pids : tid_contador[q] \in Nat
  BY TiposDeCreados
<1>3. tid_contador[p] = 0 /\ Suyos(p) = {} /\ p \notin ToSet(procesos_en_sistema)
  <2>1. p >= pid_counter /\ ~(p < pid_counter)
    BY <1>1, <1>2
  <2> QED BY <2>1 DEF Lugares, Dados, EnNew, Suyos
<1>4. h \in Hilos
  <2>1. 0 \in Tids
    BY ConstantesKernel DEF Tids
  <2> QED BY <2>1, Pares
<1>5. /\ Vivos' = Vivos \cup {p} /\ ToSet(cola_new') = ToSet(cola_new) \cup {p}
      /\ SinDobles(procesos_en_sistema')
  <2>1. SinDobles(procesos_en_sistema)
    BY DEF Vida, HilosDe
  <2> QED BY <1>1, <1>2, <1>3, <2>1, AgregarElemento DEF Vivos
<1>6. tid_contador'[p] = 1 /\ \A q \in Pids : q # p => tid_contador'[q] = tid_contador[q]
  BY <1>1, <1>2, <1>3
<1>7. /\ Suyos(p)' = {h} /\ SinDobles(threads'[p])
      /\ \A q \in Pids : q # p => threads'[q] = threads[q]
  BY <1>1, <1>3, <1>4, AltaTCB DEF Vida
<1>8. HilosDe'
  BY <1>5, <1>6, <1>7 DEF Vida, HilosDe, Suyos
<1>9. Viejos
  <2>1. \A q \in Pids : tid_contador[q] <= tid_contador'[q]
    BY <1>2, <1>3, <1>6
  <2>2. ASSUME NEW g \in Hilos, g[2] < tid_contador[g[1]] PROVE g[1] \in Pids /\ g[1] # p
    BY <1>2, <1>3, <2>2
  <2> QED BY <1>5, <1>7, <2>1, <2>2 DEF Viejos, Suyos
<1>10. /\ SoloMueve(CP) /\ pc'[CP] = "cambio" /\ pc[CP] = "cpu" /\ CP \in Actores
       /\ CP \notin Hilos /\ CP # LP
  BY <1>1, SoloVa, ActoresDistintos DEF EnSyscall
<1>11. FinDeOtro' /\ ~EnSalida(CP)' /\ ~EnSalida(CP) /\ MismaSuelta
  BY <1>10 DEF FinDeOtro, EnSalida, MismaSuelta
<1>12. Activos' \subseteq Activos
  <2>1. EnManos' \subseteq EnManos /\ Elegidos' = {}
    BY <1>10, ManosSiguen, SinSaca DEF Manos
  <2> QED BY <1>1, <2>1 DEF Activos, EnColas, Esperan, colas
<1>13. MemSigue /\ LimboSigue
  BY <1>10, <1>11 DEF MemSigue, LimboSigue, Limbo
<1>14. AltasSiguen
  BY <1>2, <1>5, <1>7 DEF AltasSiguen, Vivos, Suyos
<1> QED BY <1>8, <1>9, <1>10, <1>11, <1>12, <1>13, <1>14, VidaSigueIgual

\* crear_tcb: the thread is in no queue, and CP is to ask memoria for its context.
LEMMA ThreadCreateVida ==
    ASSUME IInv, IInv', Lugares, Vida, ProcesoVive, EnSyscall, NEW s, ThreadCreate(s),
           UNCHANGED <<mem, respuesta>>
    PROVE  Vida'
<1>1. PICK p \in Pids :
      /\ pc[CP] = "cpu" /\ UNCHANGED <<colas, mutex, cola_new>>
      /\ UNCHANGED <<pid_counter, procesos_en_sistema>> /\ tid_contador[p] < MaxTid
      /\ threads' = [threads EXCEPT ![p] = Append(@, <<p, tid_contador[p]>>)]
      /\ tid_contador' = [tid_contador EXCEPT ![p] = @ + 1]
      /\ loc' = [loc EXCEPT ![CP] = [@ EXCEPT !.hilo = <<p, tid_contador[p]>>]]
      /\ Va(CP, "crear_hilo")
  BY DEF ThreadCreate, TcbNuevo, EnSyscall, nuevos
<1>2. /\ tid_contador \in [Pids -> 0..MaxTid] /\ threads \in [Pids -> Seq(Hilos)]
      /\ ToSet(procesos_en_sistema) \subseteq Pids
      /\ \A g \in Hilos : g[1] \in Pids /\ g[2] \in Nat
      /\ \A q \in Pids : tid_contador[q] \in Nat
  BY TiposDeCreados
<1>3. <<p, tid_contador[p]>> \in Hilos
  <2>1. tid_contador[p] \in Tids
    BY <1>1, <1>2, ConstantesKernel DEF Tids
  <2> QED BY <2>1, Pares
<1>4. PICK h \in Hilos : h = <<p, tid_contador[p]>>
  BY <1>3
<1>5. tid_contador[p] \in Nat /\ h[1] = p /\ h[2] = tid_contador[p]
  BY <1>2, <1>4
<1>6. /\ tid_contador'[p] = tid_contador[p] + 1
      /\ \A q \in Pids : q # p => tid_contador'[q] = tid_contador[q]
  BY <1>1, <1>2
<1>7. /\ Suyos(p)' = Suyos(p) \cup {h} /\ SinDobles(threads'[p])
      /\ \A q \in Pids : q # p => threads'[q] = threads[q]
  <2>1. h \notin Suyos(p)
    BY <1>5 DEF Vida, HilosDe
  <2>2. threads' = [threads EXCEPT ![p] = Append(@, h)]
    BY <1>1, <1>4
  <2> QED BY <2>1, <2>2, AltaTCB DEF Vida
<1>8. loc'[CP].hilo = h /\ SoloMueve(CP) /\ pc'[CP] = "crear_hilo" /\ CP \in Actores
      /\ CP \notin Hilos /\ CP # LP
  <2>1. loc'[CP].hilo = h
    BY <1>1, <1>4, ActoresDistintos DEF IInv, TypeOK, TipoActores, Locales
  <2> QED BY <1>1, <2>1, SoloVa, ActoresDistintos
<1>9. HilosDe'
  <2>1. ASSUME NEW q \in Pids, NEW g \in Suyos(q)' PROVE g[1] = q /\ g[2] < tid_contador'[q]
    <3>1. CASE q # p
      BY <1>6, <1>7, <3>1 DEF Vida, HilosDe, Suyos
    <3>2. CASE q = p /\ g = h
      BY <1>5, <1>6, <3>2
    <3>3. CASE q = p /\ g \in Suyos(p)
      <4>1. g \in Hilos /\ g[1] = p /\ g[2] < tid_contador[p]
        BY <1>2, <3>3, ElementosDeLista DEF Vida, HilosDe, Suyos
      <4> QED BY <1>2, <1>5, <1>6, <3>3, <4>1
    <3> QED BY <1>7, <3>1, <3>2, <3>3
  <2>2. \A q \in Pids : SinDobles(threads'[q])
    BY <1>7 DEF Vida, HilosDe
  <2> QED BY <1>1, <2>1, <2>2 DEF Vida, HilosDe
<1>10. Viejos
  <2>1. ASSUME NEW q \in Pids PROVE tid_contador[q] <= tid_contador'[q]
    <3>1. tid_contador[q] \in Nat
      BY <1>2
    <3> QED BY <1>5, <1>6, <3>1
  <2>2. ASSUME NEW g \in Hilos, g[2] < tid_contador[g[1]] PROVE g # h /\ g[1] \in Pids
    BY <1>2, <1>5, <2>2
  <2> QED BY <1>1, <1>7, <2>1, <2>2 DEF Viejos, Suyos, Vivos
<1>11. FinDeOtro' /\ ~EnSalida(CP)' /\ ~EnSalida(CP) /\ MismaSuelta
  BY <1>1, <1>8 DEF FinDeOtro, EnSalida, MismaSuelta
<1>12. Activos' \subseteq Activos
  <2>1. EnManos' \subseteq EnManos /\ Elegidos' = {}
    BY <1>8, ManosSiguen, SinSaca DEF Manos
  <2> QED BY <1>1, <2>1 DEF Activos, EnColas, Esperan, colas
<1>13. MemSigue /\ LimboSigue
  BY <1>1, <1>11 DEF MemSigue, LimboSigue, Limbo
<1>14. AltasSiguen
  <2>1. Limbo(h)'
    BY <1>8 DEF Limbo
  <2> QED BY <1>1, <1>2, <1>7, <2>1 DEF AltasSiguen, Vivos, Suyos
<1> QED BY <1>8, <1>9, <1>10, <1>11, <1>12, <1>13, <1>14, VidaSigueIgual

\* process_exit_thread: the thread leaves the queues, CP or a handler goes on.
LEMMA SaleVida ==
    ASSUME IInv, IInv', Lugares, Vida, NEW a \in Actores, NEW h \in Hilos, NEW e,
           SalirProceso(a, h, e), UNCHANGED <<creados, procesos, mem, cola_new, respuesta>>,
           pc[a] \in Etiquetas \ (Salidas \cup {"fin_hilo", "saca"}), a # LP,
           h[2] < tid_contador[h[1]],
           pc[a] = "crear_hilo" /\ a = CP => loc[CP].hilo = h,
           a \in Hilos => a = h /\ h \notin EnColas' \cup Elegidos \cup Esperan,
           a = CP /\ Vivos = {} =>
               h[1] \notin ToSet(cola_new) /\ h \notin EnColas' \cup EnManos \cup Esperan
    PROVE  Vida'
<1>1. /\ SoloMueve(a) /\ pc'[a] = "fin_proceso" /\ loc'[a].hilo = h
      /\ loc'[a].proceso = BuscarProceso(h[1]) /\ Desencolar(h)
  <2> DEFINE l == [loc[a] EXCEPT !.hilo = h, !.sigue = e, !.proceso = BuscarProceso(h[1])]
  <2>1. loc' = [loc EXCEPT ![a] = l] /\ Va(a, "fin_proceso")
    BY DEF SalirProceso
  <2> HIDE DEF l
  <2>2. SoloMueve(a) /\ pc'[a] = "fin_proceso"
    BY <2>1, SoloVa
  <2> QED BY <2>1, <2>2 DEF SalirProceso, IInv, TypeOK, TipoActores, Locales
<1>2. UNCHANGED <<procesos_en_sistema, threads, mutex, tid_contador>>
  BY DEF procesos, creados
<1>3. Viejos /\ HilosDe'
  <2>1. NoCrea
    BY <1>2, MapaCrea
  <2> QED BY <1>2, <2>1, CreaViejos DEF Vida, HilosDe, Suyos
<1>4. ~EnSalida(a) /\ EnSalida(a)' /\ FinDeOtro'
  BY <1>1, ActoresDistintos DEF EnSalida, Salidas, FinDeOtro, SoloMueve, Vida
<1>5. EnColas' \subseteq EnColas
  BY <1>1, EfectoDesencolar DEF Lugares, IInv, TypeOK
<1>6. EnManos' \subseteq EnManos /\ Esperan' = Esperan /\ Elegidos' \subseteq Elegidos
      /\ (a = CP => Elegidos' = {}) /\ a \notin EnManos'
  BY <1>1, <1>2, ManosSiguen, ActoresDistintos
  DEF Manos, Esperan, Elegidos, SoloMueve, EnManos
<1>7. Activos' \subseteq Activos
  BY <1>5, <1>6 DEF Activos
<1>8. a \in Hilos /\ EnSalida(a)' => EnSalida(a) \/ a \notin Activos'
  BY <1>6 DEF Activos
<1>9. MemSigue /\ AltasSiguen
  BY <1>2 DEF MemSigue, AltasSiguen, Vivos, Suyos
<1>10. LimboSigue
  <2>1. CASE a = CP
    BY <1>1, <1>4, <2>1 DEF LimboSigue, Limbo
  <2>2. CASE a # CP
    BY <1>1, <2>2, ActoresDistintos DEF LimboSigue, Limbo, SoloMueve, EnSalida
  <2> QED BY <2>1, <2>2
<1>11. Saliente(a)'
  BY <1>1, <1>2 DEF Saliente, BuscarProceso, Vivos
<1>12. SueltoFuera' \/ MismaSuelta
  <2>1. CASE a = CP /\ loc'[CP].proceso = NULO
    <3>1. Vivos = {}
      <4>1. h[1] \notin Vivos /\ Ultimo(procesos_en_sistema) = NULO
        BY <1>1, <2>1, Pares, ActoresDistintos DEF BuscarProceso, Vivos
      <4>2. procesos_en_sistema \in Seq(Pids)
        BY TiposDeCreados
      <4>3. procesos_en_sistema = <<>>
        BY <4>1, <4>2, LenProperties, ElementOfSeq, EmptySeq, ActoresDistintos DEF Ultimo
      <4> QED BY <4>3 DEF Vivos, ToSet
    <3>2. h \notin Activos'
      BY <1>5, <1>6, <2>1, <3>1 DEF Activos
    <3>3. Visto(h)'
      BY <1>1, <1>2, <2>1, <3>1 DEF Visto
    <3>4. loc'[CP].hilo = h
      BY <1>1, <2>1
    <3> QED BY <3>2, <3>3, <3>4 DEF SueltoFuera, Visto
  <2>2. CASE ~(a = CP /\ loc'[CP].proceso = NULO)
    BY <1>1, <2>2, ActoresDistintos DEF MismaSuelta, SoloMueve, EnSalida
  <2> QED BY <2>1, <2>2
<1> QED BY <1>1, <1>3, <1>4, <1>7, <1>8, <1>9, <1>10, <1>11, <1>12, VidaSigueIgual

LEMMA ProcessExitVida ==
    ASSUME IInv, IInv', Lugares, Vida, ProcesoVive, EnSyscall, NEW s, ProcessExit(s),
           UNCHANGED <<mem, respuesta>>
    PROVE  Vida'
<1>1. PICK h \in Hilos : h = hilo_en_exec
  BY DEF EnSyscall
<1>2. h \in Ocupados /\ h # NULO
  BY <1>1, ActoresDistintos DEF Ocupados, EnColas
<1>3. h[2] < tid_contador[h[1]] /\ Vivos # {}
  BY <1>1, <1>2 DEF Lugares, Vistos, Visto, ProcesoVive, EnSyscall, Vivos
<1>4. /\ SalirProceso(CP, h, "fin") /\ pc[CP] = "cpu" /\ CP # LP /\ CP \notin Hilos
      /\ CP \in Actores /\ UNCHANGED <<creados, procesos, cola_new>>
  BY <1>1, ActoresDistintos DEF ProcessExit, EnSyscall, nuevos
<1> QED BY <1>3, <1>4, SaleVida DEF Etiquetas, Salidas

\* The main thread's exit stops at NULL; another's goes to fin_hilo.
LEMMA ThreadExitVida ==
    ASSUME IInv, IInv', Lugares, Seguro, Vida, EnSyscall, NEW s, ThreadExit(s),
           UNCHANGED <<mem, respuesta>>, hilo_en_exec[2] # 0
    PROVE  Vida'
<1>1. PICK h \in Hilos :
      /\ h = hilo_en_exec /\ h[2] # 0 /\ Desencolar(h) /\ pc[CP] = "cpu" /\ Va(CP, "fin_hilo")
      /\ loc' = [loc EXCEPT ![CP] = [@ EXCEPT !.hilo = h]]
  BY DEF EnSyscall, ThreadExit
<1>2. /\ CP \in Actores /\ CP \notin Hilos /\ CP # LP /\ SoloMueve(CP) /\ pc'[CP] = "fin_hilo"
      /\ loc'[CP].hilo = h /\ h # NULO
  <2>1. CP \in Actores /\ CP \notin Hilos /\ CP # LP /\ h # NULO
    BY ActoresDistintos
  <2>2. SoloMueve(CP) /\ pc'[CP] = "fin_hilo"
    BY <1>1, <2>1, SoloVa
  <2> QED BY <1>1, <2>1, <2>2 DEF IInv, TypeOK, TipoActores, Locales
<1>3. UNCHANGED <<procesos_en_sistema, threads, mutex, tid_contador, cola_new, creados>>
  BY DEF ThreadExit, procesos, creados, nuevos
<1>4. Viejos /\ HilosDe'
  <2>1. NoCrea
    BY <1>3, MapaCrea
  <2> QED BY <1>3, <2>1, CreaViejos DEF Vida, HilosDe, Suyos
<1>5. ~EnSalida(CP) /\ ~EnSalida(CP)' /\ FinDeOtro'
  BY <1>1, <1>2 DEF EnSalida, FinDeOtro
<1>6. EnColas' \subseteq EnColas \ {h}
  BY <1>1, EfectoDesencolar DEF Lugares, IInv, TypeOK
<1>7. EnManos' \subseteq EnManos /\ Esperan' = Esperan /\ Elegidos' = {}
  BY <1>2, <1>3, ManosSiguen, SinSaca DEF Manos, Esperan
<1>8. Activos' \subseteq Activos \ {h}
  <2>1. h \notin Esperan \cup EnManos
    BY <1>1, ExecNoAtado DEF Seguro
  <2> QED BY <1>6, <1>7, <2>1 DEF Activos
<1>9. SueltoFuera'
  <2>1. Visto(h)
    BY <1>1, <1>2 DEF Lugares, Vistos, Ocupados, EnColas
  <2> QED BY <1>2, <1>3, <1>8, <2>1 DEF SueltoFuera, Visto
<1>10. MemSigue /\ LimboSigue /\ AltasSiguen
  BY <1>1, <1>3, <1>5 DEF MemSigue, LimboSigue, Limbo, AltasSiguen, Vivos, Suyos
<1> QED BY <1>2, <1>4, <1>5, <1>8, <1>9, <1>10, VidaSigueIgual

\* memoria has the context before the thread is queued, or the process ends.
LEMMA CrearHiloVida ==
    ASSUME IInv, IInv', Lugares, Vida, CrearHilo,
           UNCHANGED <<creados, procesos, nuevos, respuesta>>
    PROVE  Vida'
<1>1. PICK h \in Hilos : h = loc[CP].hilo /\ pc[CP] = "crear_hilo" /\ h # NULO
  BY PunteroTCB, ActoresDistintos DEF IInv, CrearHilo, EnPaso
<1>2. /\ CP \in Actores /\ CP \notin Hilos /\ CP # LP
      /\ UNCHANGED <<procesos_en_sistema, threads, mutex, tid_contador, cola_new, creados>>
  BY ActoresDistintos DEF procesos, creados, nuevos
<1>3. h \notin Ocupados /\ ~Visto(h) /\ h[2] < tid_contador[h[1]] /\ h[1] \notin ToSet(cola_new)
  BY <1>1 DEF Lugares, Vistos, Visto, Creando
<1>4. CASE archivo[h] \in Existe
  <2>1. mem' = mem \cup {h} /\ EncolarEnReady(h) /\ Va(CP, "cambio") /\ UNCHANGED loc
    BY <1>1, <1>4 DEF CrearHilo
  <2>2. SoloMueve(CP) /\ pc'[CP] = "cambio"
    BY <1>2, <2>1, SoloVa
  <2>3. Viejos /\ HilosDe'
    <3>1. NoCrea
      BY <1>2, MapaCrea
    <3> QED BY <1>2, <3>1, CreaViejos DEF Vida, HilosDe, Suyos
  <2>4. ~EnSalida(CP) /\ ~EnSalida(CP)' /\ FinDeOtro' /\ MismaSuelta
    BY <1>1, <2>2 DEF EnSalida, FinDeOtro, MismaSuelta
  <2>5. EnColas' = EnColas \cup {h}
    BY <2>1, EfectoEncolar DEF IInv, TypeOK
  <2>6. EnManos' \subseteq EnManos /\ Esperan' = Esperan /\ Elegidos' = {}
    BY <1>2, <2>2, ManosSiguen, SinSaca DEF Manos, Esperan
  <2>7. Activos' \subseteq Activos \cup {h}
    BY <2>5, <2>6 DEF Activos
  <2>8. MemSigue /\ AltasSiguen
    BY <1>2, <2>1 DEF MemSigue, AltasSiguen, Vivos, Suyos
  <2>9. LimboSigue
    BY <1>1, <2>1, <2>4 DEF LimboSigue, Limbo
  <2>10. /\ {h} \cap Ocupados = {} /\ \A g \in {h} : ~Visto(g)
         /\ \A g \in {h} : g \in mem' \/ g[1] \notin Vivos' \/ Borrando(g[1])'
    BY <1>3, <2>1
  <2> QED BY <1>2, <2>2, <2>3, <2>4, <2>7, <2>8, <2>9, <2>10, VidaSigue
<1>5. CASE archivo[h] \notin Existe
  <2>1. SalirProceso(CP, h, "cambio") /\ UNCHANGED mem
    BY <1>1, <1>5 DEF CrearHilo
  <2>2. EnColas' \subseteq EnColas
    BY <2>1, EfectoDesencolar DEF SalirProceso, Lugares, IInv, TypeOK
  <2>3. h \notin EnColas' \cup EnManos \cup Esperan
    BY <1>3, <2>2 DEF Ocupados, Atendidos, EnManos, Manos
  <2>4. pc[CP] \in Etiquetas \ (Salidas \cup {"fin_hilo", "saca"})
    BY <1>1 DEF Etiquetas, Salidas
  <2> QED BY <1>1, <1>2, <1>3, <2>1, <2>3, <2>4, SaleVida
<1> QED BY <1>4, <1>5

\* The handler whose dump failed: nobody else holds its thread.
LEMMA FinDumpVida ==
    ASSUME IInv, IInv', Lugares, Seguro, Vida, NEW h \in Hilos, pc[h] = "dump",
           SalirProceso(h, h, "no"), UNCHANGED <<creados, procesos, mem, cola_new, respuesta>>
    PROVE  Vida'
<1>1. h \in EnManos /\ h \in Actores /\ h # CP /\ h # LP
  BY ActoresDistintos DEF EnManos, Manos, Actores
<1>2. h \notin Esperan /\ estado[h] = "BLOCKED"
  BY <1>1 DEF Seguro, Atados
<1>3. h \notin Elegidos
  BY <1>2 DEF Elegidos, Lugares, Eligiendo
<1>4. h \notin EnColas'
  BY EfectoDesencolar DEF SalirProceso, Lugares, IInv, TypeOK
<1>5. h[2] < tid_contador[h[1]]
  BY <1>1 DEF Lugares, Vistos, Visto, Ocupados, Atendidos, EnManos, Manos
<1>6. pc[h] \in Etiquetas \ (Salidas \cup {"fin_hilo", "saca"})
  BY DEF Etiquetas, Salidas
<1> QED BY <1>1, <1>2, <1>3, <1>4, <1>5, <1>6, SaleVida

\* THREAD_EXIT's request: the thread, not the main one, is CP's alone.
LEMMA FinHiloVida ==
    ASSUME IInv, IInv', Lugares, Vida, FinHilo,
           UNCHANGED <<creados, procesos, nuevos, respuesta>>
    PROVE  Vida'
<1>1. PICK h \in Hilos :
      /\ h = loc[CP].hilo /\ pc[CP] = "fin_hilo" /\ h # NULO /\ h[2] # 0
      /\ h \notin Activos /\ Visto(h)
  <2>1. pc[CP] = "fin_hilo"
    BY DEF FinHilo, EnPaso, Vida, FinDeOtro
  <2>2. loc[CP].hilo \in Hilos
    BY <2>1 DEF Vida, SueltoFuera
  <2>3. loc[CP].hilo # NULO
    BY <2>2, ActoresDistintos
  <2> QED BY <2>1, <2>2, <2>3 DEF Vida, SueltoFuera, FinDeOtro
<1>2. /\ CP \in Actores /\ CP \notin Hilos /\ CP # LP
      /\ UNCHANGED <<procesos_en_sistema, threads, mutex, tid_contador, cola_new, creados>>
  BY ActoresDistintos DEF procesos, creados, nuevos
<1>3. /\ mem' = mem \ {h} /\ UNCHANGED colas /\ Va(CP, IF h \in mem THEN "libera_hilo" ELSE "fin")
      /\ loc' = [loc EXCEPT ![CP] = [@ EXCEPT !.proceso = NULO, !.sigue = "fin"]]
  BY <1>1 DEF FinHilo, EnPaso
<1>4. /\ SoloMueve(CP) /\ pc'[CP] = (IF h \in mem THEN "libera_hilo" ELSE "fin")
      /\ loc'[CP].hilo = h /\ loc'[CP].proceso = NULO
  <2>1. SoloMueve(CP) /\ pc'[CP] = (IF h \in mem THEN "libera_hilo" ELSE "fin")
    BY <1>2, <1>3, SoloVa
  <2> QED BY <1>1, <1>2, <1>3, <2>1 DEF IInv, TypeOK, TipoActores, Locales
<1>5. Viejos /\ HilosDe'
  <2>1. NoCrea
    BY <1>2, MapaCrea
  <2> QED BY <1>2, <2>1, CreaViejos DEF Vida, HilosDe, Suyos
<1>6. ~EnSalida(CP) /\ (EnSalida(CP)' <=> h \in mem) /\ FinDeOtro'
  BY <1>1, <1>4 DEF EnSalida, FinDeOtro
<1>7. Activos' \subseteq Activos
  <2>1. EnManos' \subseteq EnManos /\ Elegidos' = {}
    BY <1>2, <1>4, ManosSiguen, SinSaca DEF Manos
  <2> QED BY <1>2, <1>3, <2>1 DEF Activos, EnColas, Esperan, colas
<1>8. SueltoFuera'
  BY <1>1, <1>2, <1>4, <1>7 DEF SueltoFuera, Visto
<1>9. Saliente(CP)'
  BY <1>1, <1>2, <1>4, ActoresDistintos DEF Saliente, Visto
<1>10. MemSigue
  BY <1>1, <1>3, <1>4, <1>6, <1>7 DEF MemSigue, Limbo
<1>11. LimboSigue /\ AltasSiguen
  BY <1>1, <1>2, <1>3, <1>6 DEF LimboSigue, Limbo, AltasSiguen, Vivos, Suyos
<1> QED BY <1>2, <1>4, <1>5, <1>6, <1>7, <1>8, <1>9, <1>10, <1>11, VidaSigueIgual

\* What a step of liberar_pcb or liberar_hilo keeps.
LEMMA LiberaVida ==
    ASSUME IInv, IInv', Lugares, Vida, NEW a \in Actores, SoloMueve(a), EnSalida(a),
           UNCHANGED <<creados, cola_new, respuesta, colas, mutex>>, HilosDe',
           Vivos' \subseteq Vivos, \A p \in Pids : Suyos(p)' \subseteq Suyos(p),
           pc'[a] \notin {"saca", "crear_hilo", "fin_hilo", "cancela", "responde"} \cup Manos,
           loc[a].proceso \in Vivos' /\ pc[a] # "fin_proceso" =>
               EnSalida(a)' /\ pc'[a] # "fin_proceso" /\ loc'[a].proceso = loc[a].proceso,
           MemSigue, a = CP => LimboSigue, MismaSuelta, EnSalida(a)' => Saliente(a)'
    PROVE  Vida'
<1>1. FinDeOtro'
  BY ActoresDistintos DEF Vida, FinDeOtro, SoloMueve
<1>2. NoCrea
  BY DEF NoCrea, Lugares, EnNew, Vivos, Suyos
<1>3. Viejos
  BY <1>2, CreaViejos
<1>4. Activos' \subseteq Activos
  <2>1. EnManos' \subseteq EnManos
    BY ManosSiguen
  <2>2. Elegidos' \subseteq Elegidos
    BY ActoresDistintos DEF Elegidos, SoloMueve
  <2> QED BY <2>1, <2>2 DEF Activos, EnColas, Esperan, colas
<1>5. LimboSigue
  <2>1. CASE a # CP
    BY <2>1, ActoresDistintos DEF LimboSigue, Limbo, SoloMueve, EnSalida
  <2> QED BY <2>1
<1>6. AltasSiguen
  BY TiposDeCreados DEF AltasSiguen, Vivos, Suyos
<1>7. AdmitidoConContexto' \/ (a # LP /\ UNCHANGED respuesta)
  BY DEF AdmitidoConContexto
<1> QED BY <1>1, <1>3, <1>4, <1>5, <1>6, <1>7, VidaSigueIgual

\* Whoever CP is freeing with its process p, FIN_PROCESO of p covers.
LEMMA LimboDeProceso ==
    ASSUME IInv', Vida, HilosDe', NEW p \in Pids, loc[CP].proceso = p, EnSalida(CP),
           p \notin Vivos' \ ToSet(cola_new') \/ Borrando(p)', Vivos' \subseteq Vivos
    PROVE  LimboSigue
<1> SUFFICES ASSUME NEW h, Limbo(h), h \in Suyos(h[1])', h[1] \in Vivos' \ ToSet(cola_new')
             PROVE  h \in mem' \/ Borrando(h[1])'
  BY DEF LimboSigue
<1>1. h[1] \in Pids
  BY ElementosDeLista DEF Vivos, IInv, TypeOK, TipoProcesos
<1>2. h \in Hilos
  BY <1>1, ElementosDeLista DEF Suyos, IInv, TypeOK, TipoProcesos
<1>3. h[1] = p
  <2>1. CP \in Actores /\ p # NULO
    BY ActoresDistintos, ConstantesKernel
  <2> QED BY <1>2, <2>1 DEF Vida, SalientesSuyos, Saliente, Limbo
<1> QED BY <1>3

LEMMA FinProcesoVida ==
    ASSUME IInv, IInv', Lugares, Vida, NEW a \in Actores, FinProceso(a),
           UNCHANGED <<creados, nuevos, respuesta>>
    PROVE  Vida'
<1>1. PICK p \in Pids : p = loc[a].proceso /\ pc[a] = "fin_proceso"
  BY PunteroPCB DEF FinProceso, EnPaso, IInv
<1> DEFINE suyos == {h \in mem : h[1] = p}
<1>2. /\ mem' = mem \ suyos /\ UNCHANGED <<colas, mutex, procesos_en_sistema, threads, cola_new>>
      /\ loc' = [loc EXCEPT ![a] = [@ EXCEPT !.i = 1, !.j = 1]]
      /\ Va(a, IF suyos = {} THEN loc[a].sigue ELSE "desencola")
  BY <1>1 DEF FinProceso, procesos, nuevos
<1>3. /\ SoloMueve(a) /\ pc'[a] = (IF suyos = {} THEN loc[a].sigue ELSE "desencola")
      /\ loc'[a].hilo = loc[a].hilo /\ loc'[a].proceso = p
  <2>1. SoloMueve(a) /\ pc'[a] = (IF suyos = {} THEN loc[a].sigue ELSE "desencola")
    BY <1>2, SoloVa
  <2> QED BY <1>1, <1>2, <2>1 DEF IInv, TypeOK, TipoActores, Locales
<1>4. loc[a].sigue \in {"fin", "cambio", "inicio", "no"}
  BY LocTipo DEF IInv, TypeOK
<1>5. /\ EnSalida(a) /\ (EnSalida(a)' <=> suyos # {}) /\ p # NULO
      /\ pc'[a] \notin {"saca", "crear_hilo", "fin_hilo", "cancela", "responde"} \cup Manos
  BY <1>1, <1>3, <1>4, ConstantesKernel DEF EnSalida, Manos
<1>6. HilosDe' /\ Vivos' = Vivos /\ \A q \in Pids : Suyos(q)' = Suyos(q)
  BY <1>2 DEF Vida, HilosDe, Vivos, Suyos, creados
<1>7. MemSigue
  <2>1. suyos # {} => Borrando(p)'
    BY <1>3, <1>5 DEF Borrando
  <2>2. ASSUME NEW h \in mem \ mem' PROVE h[1] = p /\ suyos # {}
    BY <1>2
  <2>3. ASSUME NEW h \in mem \ mem' PROVE Borrando(h[1])'
    BY <2>1, <2>2
  <2> QED BY <2>3 DEF MemSigue, Borrando
<1>8. MismaSuelta
  <2>1. a = CP => ~(pc'[CP] = "fin_hilo" \/ (EnSalida(CP)' /\ loc'[CP].proceso = NULO))
    BY <1>3, <1>5
  <2>2. a # CP => pc'[CP] = pc[CP] /\ loc'[CP] = loc[CP]
    BY <1>3, ActoresDistintos DEF SoloMueve
  <2> QED BY <2>1, <2>2 DEF MismaSuelta, EnSalida
<1>9. EnSalida(a)' => Saliente(a)'
  <2>1. ASSUME EnSalida(a)' PROVE pc'[a] = "desencola"
    BY <1>3, <1>5, <2>1
  <2>2. Saliente(a)
    BY <1>5 DEF Vida, SalientesSuyos
  <2> QED BY <1>1, <1>2, <1>3, <2>1, <2>2 DEF Saliente, Vivos, creados
<1>10. ASSUME a = CP PROVE LimboSigue
  <2>1. CASE suyos # {}
    BY <1>1, <1>3, <1>5, <1>10, <2>1 DEF LimboSigue, Limbo
  <2>2. CASE suyos = {}
    <3>1. <<p, 0>> \notin mem
      BY <2>2
    <3>2. \A q : Borrando(q) => Borrando(q)'
      BY <1>1, <1>3 DEF Borrando, SoloMueve, EnSalida
    <3>3. p \notin Vivos' \ ToSet(cola_new') \/ Borrando(p)'
      BY <1>2, <1>6, <3>1, <3>2 DEF Vida, ConContexto
    <3> QED BY <1>1, <1>5, <1>6, <1>10, <3>3, LimboDeProceso
  <2> QED BY <2>1, <2>2
<1>11. a = CP => LimboSigue
  BY <1>10
<1>12. UNCHANGED <<creados, cola_new, respuesta, colas, mutex>> /\ loc[a].proceso = p
  BY <1>1, <1>2
<1> HIDE DEF suyos
<1> QED BY <1>1, <1>3, <1>5, <1>6, <1>7, <1>8, <1>9, <1>11, <1>12, LiberaVida

LEMMA BajaTCB ==
    ASSUME IInv, HilosDe, NEW p \in Pids, NEW h \in Hilos,
           UNCHANGED <<procesos_en_sistema, tid_contador>>,
           threads' = [threads EXCEPT ![p] = RemoveFirst(@, h)]
    PROVE  HilosDe' /\ h \notin Suyos(p)' /\ \A q \in Pids : Suyos(q)' \subseteq Suyos(q)
<1>1. threads[p] \in Seq(Hilos) /\ threads \in [Pids -> Seq(Hilos)] /\ SinDobles(threads[p])
  BY TiposDeCreados DEF HilosDe
<1>2. /\ threads'[p] = RemoveFirst(threads[p], h)
      /\ \A q \in Pids : q # p => threads'[q] = threads[q]
  BY <1>1
<1>3. ToSet(threads'[p]) = ToSet(threads[p]) \ {h} /\ SinDobles(threads'[p])
  BY <1>1, <1>2, QuitarElementoUnico
<1>4. \A q \in Pids : Suyos(q)' \subseteq Suyos(q) /\ SinDobles(threads'[q])
  BY <1>2, <1>3 DEF Suyos, HilosDe
<1> QED BY <1>3, <1>4 DEF Suyos, HilosDe

\* liberar_pcb: the next thread of the list, or the PCB itself.
LEMMA LiberarPcbVida ==
    ASSUME IInv, IInv', Lugares, Vida, NEW a \in Actores, LiberarPcb(a),
           UNCHANGED <<creados, nuevos, respuesta>>
    PROVE  Vida'
<1>1. PICK p \in Pids : p = loc[a].proceso /\ pc[a] = "libera"
  BY PunteroPCB DEF LiberarPcb, EnPaso, IInv
<1>2. /\ UNCHANGED <<colas, mutex, mem, cola_new, creados, tid_contador, respuesta>>
      /\ p # NULO /\ EnSalida(a) /\ loc[a].proceso = p
  BY <1>1, ConstantesKernel DEF LiberarPcb, memoria, nuevos, creados, EnSalida
<1>3. MemSigue
  BY <1>2 DEF MemSigue
<1>4. threads \in [Pids -> Seq(Hilos)] /\ threads[p] \in Seq(Hilos) /\ procesos_en_sistema \in Seq(Pids)
  BY TiposDeCreados
<1>5. HilosDe
  BY DEF Vida
<1>6. CASE loc[a].i <= Len(threads[p])
  <2>0. loc[a].i \in Nat \ {0}
    BY LocTipo DEF IInv, TypeOK
  <2>1. PICK h \in Hilos : h = threads[p][loc[a].i] /\ h \in ToSet(threads[p])
    BY <1>4, <1>6, <2>0, LenProperties, ElementOfSeq DEF ToSet
  <2>2. /\ threads' = [threads EXCEPT ![p] = RemoveFirst(@, h)]
        /\ UNCHANGED procesos_en_sistema /\ Va(a, "libera_hilo")
        /\ loc' = [loc EXCEPT ![a] = [@ EXCEPT !.hilo = h, !.i = loc[a].i + 1]]
    BY <1>1, <1>6, <2>1 DEF LiberarPcb
  <2>3. SoloMueve(a) /\ pc'[a] = "libera_hilo" /\ loc'[a].hilo = h /\ loc'[a].proceso = p
    <3>1. SoloMueve(a) /\ pc'[a] = "libera_hilo"
      BY <2>2, SoloVa
    <3> QED BY <1>2, <2>2, <3>1 DEF IInv, TypeOK, TipoActores, Locales
  <2>4. HilosDe' /\ Vivos' = Vivos /\ \A q \in Pids : Suyos(q)' \subseteq Suyos(q)
    BY <1>2, <1>5, <2>2, BajaTCB DEF Vivos
  <2>5. EnSalida(a)' /\ Borrando(p)'
    BY <2>3 DEF EnSalida, Borrando
  <2>6. MismaSuelta
    BY <1>2, <2>3, ActoresDistintos DEF MismaSuelta, SoloMueve, EnSalida
  <2>7. Saliente(a)'
    <3>1. h[1] = p /\ h[2] < tid_contador[p]
      BY <1>5, <2>1 DEF HilosDe, Suyos
    <3> QED BY <1>2, <2>3, <3>1 DEF Saliente
  <2>8. a = CP => LimboSigue
    BY <1>2, <2>4, <2>5, LimboDeProceso
  <2>9. pc'[a] \notin {"saca", "crear_hilo", "fin_hilo", "cancela", "responde"} \cup Manos
    BY <2>3 DEF Manos
  <2>10. Vivos' \subseteq Vivos
    BY <2>4
  <2> QED BY <1>2, <1>3, <2>3, <2>4, <2>5, <2>6, <2>7, <2>8, <2>9, <2>10, LiberaVida
<1>7. CASE ~(loc[a].i <= Len(threads[p]))
  <2>1. /\ procesos_en_sistema' = RemoveFirst(procesos_en_sistema, p)
        /\ Va(a, loc[a].sigue) /\ UNCHANGED <<threads, loc>>
    BY <1>1, <1>7 DEF LiberarPcb
  <2>2. SoloMueve(a) /\ pc'[a] \in {"fin", "cambio", "inicio", "no"}
    BY <2>1, SoloVa, LocTipo DEF IInv, TypeOK
  <2>3. Vivos' = Vivos \ {p} /\ SinDobles(procesos_en_sistema')
    BY <1>4, <1>5, <2>1, QuitarElementoUnico DEF HilosDe, Vivos
  <2>4. HilosDe' /\ \A q \in Pids : Suyos(q)' \subseteq Suyos(q)
    BY <1>2, <1>5, <2>1, <2>3 DEF HilosDe, Suyos
  <2>5. ~EnSalida(a)' /\ MismaSuelta
    BY <2>1, <2>2, ActoresDistintos DEF EnSalida, MismaSuelta, SoloMueve
  <2>6. a = CP => LimboSigue
    BY <1>2, <2>3, <2>4, LimboDeProceso
  <2>7. pc'[a] \notin {"saca", "crear_hilo", "fin_hilo", "cancela", "responde"} \cup Manos
    BY <2>2 DEF Manos
  <2>8. Vivos' \subseteq Vivos /\ loc[a].proceso \notin Vivos'
    BY <1>2, <2>3
  <2> QED BY <1>2, <1>3, <2>2, <2>4, <2>5, <2>6, <2>7, <2>8, LiberaVida
<1> QED BY <1>6, <1>7

\* liberar_hilo: the TCB leaves the list of its process.
LEMMA LiberarHiloVida ==
    ASSUME IInv, IInv', Lugares, Vida, NEW a \in Actores, LiberarHilo(a),
           UNCHANGED <<creados, nuevos, respuesta>>
    PROVE  Vida'
<1>1. PICK h \in Hilos : h = loc[a].hilo /\ pc[a] = "libera_hilo"
  BY PunteroTCB DEF LiberarHilo, EnPaso, IInv
<1>2. BuscarProceso(h[1]) \in Pids \cup {NULO}
  BY BuscarProcesoTipo DEF IInv, TypeOK
<1>3. PICK p \in Pids \cup {NULO} : p = BuscarProceso(h[1])
  BY <1>2
<1>4. /\ UNCHANGED <<colas, mutex, mem, cola_new, creados, tid_contador, respuesta>>
      /\ UNCHANGED procesos_en_sistema /\ Va(a, "joins") /\ EnSalida(a)
      /\ threads' = IF p = NULO THEN threads ELSE [threads EXCEPT ![p] = RemoveFirst(@, h)]
      /\ loc' = [loc EXCEPT ![a] = [@ EXCEPT !.dueno = p, !.j = 1]]
  BY <1>1, <1>3 DEF LiberarHilo, EnPaso, memoria, nuevos, creados, EnSalida
<1>5. /\ SoloMueve(a) /\ pc'[a] = "joins" /\ loc'[a].hilo = h /\ loc'[a].dueno = p
      /\ loc'[a].proceso = loc[a].proceso
  <2>1. SoloMueve(a) /\ pc'[a] = "joins"
    BY <1>4, SoloVa
  <2> QED BY <1>1, <1>4, <2>1 DEF IInv, TypeOK, TipoActores, Locales
<1>6. HilosDe
  BY DEF Vida
<1>7. /\ HilosDe' /\ Vivos' = Vivos /\ \A q \in Pids : Suyos(q)' \subseteq Suyos(q)
      /\ p # NULO => h \notin Suyos(p)'
  <2>1. CASE p = NULO
    BY <1>4, <1>6, <2>1 DEF HilosDe, Vivos, Suyos
  <2>2. CASE p # NULO
    BY <1>4, <1>6, <2>2, BajaTCB DEF Vivos
  <2> QED BY <2>1, <2>2
<1>8. EnSalida(a)' /\ MismaSuelta /\ MemSigue
  BY <1>1, <1>4, <1>5, ActoresDistintos DEF EnSalida, MismaSuelta, SoloMueve, MemSigue
<1>9. Saliente(a)'
  <2>1. h[1] \in Vivos => p = h[1] /\ p # NULO
    BY <1>3, Pares, ConstantesKernel DEF BuscarProceso, Vivos
  <2>2. Saliente(a)
    BY <1>4 DEF Vida, SalientesSuyos
  <2> QED BY <1>1, <1>4, <1>5, <1>7, <2>1, <2>2 DEF Saliente
<1>10. a = CP => LimboSigue
  BY <1>1, <1>5, <1>8 DEF LimboSigue, Limbo
<1>11. pc'[a] \notin {"saca", "crear_hilo", "fin_hilo", "cancela", "responde"} \cup Manos
  BY <1>5 DEF Manos
<1>12. Vivos' \subseteq Vivos /\ pc'[a] # "fin_proceso"
  BY <1>5, <1>7
<1> QED BY <1>4, <1>5, <1>7, <1>8, <1>9, <1>10, <1>11, <1>12, LiberaVida

\* The thread is freed; its process, if it is ending too, goes on.
LEMMA HeredarMutexVida ==
    ASSUME IInv, IInv', Lugares, Vida, NEW a \in Actores, HeredarMutex(a),
           ~(loc[a].dueno # NULO /\ loc[a].j <= Len(mutex[loc[a].dueno])),
           UNCHANGED <<creados, nuevos, respuesta>>
    PROVE  Vida'
<1>1. /\ pc[a] = "mutex" /\ EnSalida(a) /\ UNCHANGED <<colas, mutex, loc, mem, threads>>
      /\ UNCHANGED <<procesos_en_sistema, cola_new, creados, tid_contador, respuesta>>
      /\ Va(a, IF loc[a].proceso = NULO THEN loc[a].sigue ELSE "libera")
  BY DEF HeredarMutex, EnPaso, EnSalida, memoria, nuevos, creados
<1>2. loc[a].sigue \in {"fin", "cambio", "inicio", "no"}
  BY LocTipo DEF IInv, TypeOK
<1>3. /\ SoloMueve(a) /\ loc'[a] = loc[a]
      /\ pc'[a] = (IF loc[a].proceso = NULO THEN loc[a].sigue ELSE "libera")
  BY <1>1, SoloVa
<1>4. /\ EnSalida(a)' => loc[a].proceso # NULO /\ pc'[a] = "libera"
      /\ loc[a].proceso # NULO => EnSalida(a)' /\ pc'[a] # "fin_proceso"
      /\ pc'[a] \notin {"saca", "crear_hilo", "fin_hilo", "cancela", "responde"} \cup Manos
  BY <1>2, <1>3 DEF EnSalida, Manos
<1>5. HilosDe' /\ Vivos' = Vivos /\ \A q \in Pids : Suyos(q)' = Suyos(q)
  BY <1>1 DEF Vida, HilosDe, Vivos, Suyos
<1>6. NULO \notin Vivos'
  BY <1>5, TiposDeCreados, ConstantesKernel DEF Vivos
<1>7. MemSigue /\ MismaSuelta
  BY <1>1, <1>3, <1>4, ActoresDistintos DEF MemSigue, MismaSuelta, SoloMueve, EnSalida
<1>8. Saliente(a)
  BY <1>1 DEF Vida, SalientesSuyos
<1>9. EnSalida(a)' => Saliente(a)'
  BY <1>1, <1>3, <1>4, <1>5, <1>8 DEF Saliente
<1>10. ASSUME a = CP PROVE LimboSigue
  <2>1. CASE loc[a].proceso # NULO
    BY <1>3, <1>4, <1>10, <2>1 DEF LimboSigue, Limbo
  <2>2. CASE loc[a].proceso = NULO
    <3> SUFFICES ASSUME NEW h, h = loc[CP].hilo, h \in Suyos(h[1])', h[1] \in Vivos' PROVE FALSE
      BY DEF LimboSigue, Limbo
    <3>1. h[1] \in Pids
      BY ElementosDeLista DEF Vivos, IInv, TypeOK, TipoProcesos
    <3>2. h \in Hilos /\ h \in Suyos(h[1]) /\ h[1] \in Vivos
      BY <1>5, <3>1, ElementosDeLista DEF Suyos, IInv, TypeOK, TipoProcesos
    <3> QED BY <1>1, <1>8, <1>10, <3>2 DEF Saliente
  <2> QED BY <2>1, <2>2
<1>11. a = CP => LimboSigue
  BY <1>10
<1>12. Vivos' \subseteq Vivos /\ \A q \in Pids : Suyos(q)' \subseteq Suyos(q)
  BY <1>5
<1>13. loc[a].proceso \in Vivos' => EnSalida(a)' /\ pc'[a] # "fin_proceso"
  BY <1>4, <1>6
<1> QED BY <1>1, <1>3, <1>4, <1>5, <1>7, <1>9, <1>11, <1>12, <1>13, LiberaVida

-----------------------------------------------------------------------------
(* The long-term scheduler.                                                *)

\* What a step of LP keeps when it queues nobody and frees nobody.
LEMMA LargoVida ==
    ASSUME IInv, IInv', Lugares, Vida, SoloMueve(LP), ~EnSalida(LP), HilosDe',
           UNCHANGED <<creados, procesos, colas>>, mem \subseteq mem',
           ToSet(cola_new') \subseteq ToSet(cola_new), SinDobles(cola_new'),
           AltasSiguen, EnSalida(LP)' => Saliente(LP)', AdmitidoConContexto'
    PROVE  Vida'
<1>1. LP \in Actores /\ LP \notin Hilos /\ LP # CP
  BY ActoresDistintos
<1>2. pc'[CP] = pc[CP] /\ loc'[CP] = loc[CP]
  BY <1>1, ActoresDistintos DEF SoloMueve
<1>3. FinDeOtro' /\ MismaSuelta /\ LimboSigue
  BY <1>2 DEF Vida, FinDeOtro, MismaSuelta, LimboSigue, Limbo, EnSalida
<1>4. NoCrea
  BY DEF NoCrea, procesos
<1>5. Viejos
  BY <1>4, CreaViejos
<1>6. Activos' \subseteq Activos
  BY <1>1, <1>2 DEF Activos, EnManos, Elegidos, EnColas, Esperan, SoloMueve, Actores, colas,
                    procesos
<1>7. MemSigue
  BY DEF MemSigue
<1> QED BY <1>1, <1>3, <1>5, <1>6, <1>7, VidaSigueIgual

LEMMA ProcesosVida ==
    ASSUME Vida, UNCHANGED <<creados, procesos>>
    PROVE  HilosDe' /\ Vivos' = Vivos /\ \A p : Suyos(p)' = Suyos(p)
  BY DEF Vida, HilosDe, Vivos, Suyos, creados, procesos

LEMMA TomarNuevoVida ==
    ASSUME IInv, IInv', Lugares, Vida, TomarNuevo, UNCHANGED <<creados, procesos>>
    PROVE  Vida'
<1> DEFINE p == cola_new[1]
           h == IF threads[p] = <<>> THEN NULO ELSE threads[p][1]
           l == [loc[LP] EXCEPT !.proceso = p, !.hilo = h]
<1>1. /\ pc[LP] = "sem_new" /\ loc' = [loc EXCEPT ![LP] = l] /\ Va(LP, "crear_proceso")
      /\ UNCHANGED <<colas, cola_new, mem>>
  BY DEF TomarNuevo, EnPaso, memoria
<1> HIDE DEF l
<1>2. SoloMueve(LP) /\ pc'[LP] = "crear_proceso"
  BY <1>1, SoloVa, ActoresDistintos
<1>3. AdmitidoConContexto' /\ ~EnSalida(LP) /\ ~EnSalida(LP)'
  BY <1>1, <1>2 DEF AdmitidoConContexto, EnSalida
<1>4. HilosDe' /\ Vivos' = Vivos /\ \A q : Suyos(q)' = Suyos(q)
  BY ProcesosVida
<1>5. AltasSiguen
  BY <1>1, <1>4 DEF AltasSiguen
<1>6. SinDobles(cola_new') /\ ToSet(cola_new') \subseteq ToSet(cola_new)
  BY <1>1 DEF Lugares, EnNew
<1> QED BY <1>1, <1>2, <1>3, <1>4, <1>5, <1>6, LargoVida

\* SUCCESS: memoria has the context of thread 0.
LEMMA CrearProcesoVida ==
    ASSUME IInv, IInv', Lugares, Vida, CrearProceso, UNCHANGED <<creados, procesos>>
    PROVE  Vida'
<1>1. PICK h \in Hilos : h = loc[LP].hilo /\ pc[LP] = "crear_proceso" /\ h # NULO
  BY PunteroTCB, ActoresDistintos DEF IInv, CrearProceso, EnPaso
<1>2. /\ UNCHANGED <<colas, cola_new, loc>> /\ Va(LP, "responde") /\ mem \subseteq mem'
      /\ respuesta' = "SUCCESS" => h \in mem'
  BY <1>1 DEF CrearProceso, nuevos
<1>3. SoloMueve(LP) /\ pc'[LP] = "responde" /\ loc'[LP] = loc[LP]
  BY <1>2, SoloVa, ActoresDistintos
<1>4. h = <<loc[LP].proceso, 0>>
  BY <1>1 DEF Lugares, LPAdmite, Admitiendo
<1>5. AdmitidoConContexto' /\ ~EnSalida(LP) /\ ~EnSalida(LP)'
  BY <1>1, <1>2, <1>3, <1>4 DEF AdmitidoConContexto, EnSalida
<1>6. HilosDe' /\ Vivos' = Vivos /\ \A q : Suyos(q)' = Suyos(q)
  BY ProcesosVida
<1>7. AltasSiguen
  BY <1>2, <1>6 DEF AltasSiguen
<1>8. SinDobles(cola_new') /\ ToSet(cola_new') \subseteq ToSet(cola_new)
  BY <1>2 DEF Lugares, EnNew
<1> QED BY <1>2, <1>3, <1>5, <1>6, <1>7, <1>8, LargoVida

\* The head of cola_new, with its thread 0 when it has one.
LEMMA CabezaDeNew ==
    ASSUME IInv, Lugares, pc[LP] = "responde"
    PROVE  /\ loc[LP].proceso \in Pids /\ loc[LP].proceso \in ToSet(cola_new)
           /\ tid_contador[loc[LP].proceso] = 1
           /\ Suyos(loc[LP].proceso) \subseteq {<<loc[LP].proceso, 0>>}
           /\ loc[LP].hilo \in {NULO, <<loc[LP].proceso, 0>>}
<1>1. loc[LP].proceso \in ToSet(cola_new)
  <2>1. cola_new \in Seq(Pids) /\ Len(cola_new) = sem_new + 1 /\ sem_new \in Nat
        /\ loc[LP].proceso = cola_new[1]
    BY DEF IInv, TypeOK, TipoNuevos, SemNewCuenta, LPTieneCabeza
  <2> QED BY <2>1, LenProperties DEF ToSet
<1>2. loc[LP].proceso \in Pids
  BY <1>1, TiposDeCreados
<1> QED BY <1>1, <1>2 DEF Lugares, Dados, EnNew, LPAdmite, Admitiendo, Suyos

\* The process was the head of cola_new: nobody had seen its thread 0.
LEMMA AdmitirVida ==
    ASSUME IInv, IInv', Lugares, Vida, AtenderRespuesta, Admitir, UNCHANGED <<creados, procesos>>
    PROVE  Vida'
<1>1. pc[LP] = "responde" /\ loc[LP].hilo \in Hilos
  BY PunteroTCB, ActoresDistintos DEF AtenderRespuesta, EnPaso, IInv
<1>2. PICK p \in Pids :
        /\ p = loc[LP].proceso /\ p \in ToSet(cola_new) /\ tid_contador[p] = 1
        /\ Suyos(p) \subseteq {<<p, 0>>} /\ loc[LP].hilo \in {NULO, <<p, 0>>}
  BY <1>1, CabezaDeNew
<1>3. PICK h \in Hilos : h = loc[LP].hilo /\ h = <<p, 0>>
  BY <1>1, <1>2, ActoresDistintos
<1>4. /\ cola_new' = RemoveFirst(cola_new, p) /\ EncolarEnReady(h) /\ Va(LP, "inicio")
      /\ UNCHANGED <<loc, mem, respuesta, mutex>> /\ respuesta = "SUCCESS"
  BY <1>2, <1>3 DEF AtenderRespuesta, Admitir, memoria, procesos
<1>5. SoloMueve(LP) /\ pc'[LP] = "inicio" /\ LP \in Actores /\ LP \notin Hilos /\ LP # CP
  BY <1>4, SoloVa, ActoresDistintos
<1>6. HilosDe' /\ Vivos' = Vivos /\ \A q : Suyos(q)' = Suyos(q)
  BY ProcesosVida
<1>7. Viejos
  <2>1. NoCrea
    BY <1>4, SacarDeNew
  <2> QED BY <2>1, CreaViejos
<1>8. pc'[CP] = pc[CP] /\ loc'[CP] = loc[CP]
  BY <1>5, ActoresDistintos DEF SoloMueve
<1>9. FinDeOtro' /\ MismaSuelta /\ LimboSigue /\ MemSigue
  BY <1>4, <1>8 DEF Vida, FinDeOtro, MismaSuelta, LimboSigue, Limbo, EnSalida, MemSigue
<1>10. Activos' \subseteq Activos \cup {h}
  <2>1. EnColas' = EnColas \cup {h}
    BY <1>4, EfectoEncolar DEF IInv, TypeOK
  <2>2. EnManos' = EnManos /\ Elegidos' = Elegidos /\ Esperan' = Esperan
    BY <1>4, <1>5, <1>8 DEF EnManos, Elegidos, Esperan, SoloMueve, Actores
  <2> QED BY <2>1, <2>2 DEF Activos
<1>11. h[1] \in ToSet(cola_new) /\ ~Visto(h) /\ h \notin Ocupados
  BY <1>2, <1>3 DEF Lugares, Vistos, Visto
<1>12. ~EnSalida(LP) /\ ~EnSalida(LP)' /\ AdmitidoConContexto'
  BY <1>1, <1>5 DEF EnSalida, AdmitidoConContexto
<1>13. \A q : Borrando(q) => Borrando(q)'
  BY <1>5, <1>12 DEF Borrando, SoloMueve, EnSalida
<1>14. p \in Vivos => Borrando(p)' \/ h \in mem'
  BY <1>1, <1>2, <1>3, <1>4, <1>13 DEF Vida, AdmitidoConContexto
<1>15. h \in mem' \/ h[1] \notin Vivos' \/ Borrando(h[1])'
  BY <1>3, <1>6, <1>14
<1>16. AltasSiguen
  <2>1. ToSet(cola_new') = ToSet(cola_new) \ {p}
    BY <1>4, QuitarElementoUnico DEF IInv, TypeOK, TipoNuevos, Lugares, EnNew
  <2> QED BY <1>2, <1>3, <1>6, <1>14, <2>1 DEF AltasSiguen
<1>17. /\ {h} \cap Ocupados = {} /\ \A g \in {h} : ~Visto(g)
       /\ \A g \in {h} : g \in mem' \/ g[1] \notin Vivos' \/ Borrando(g[1])'
  BY <1>11, <1>15
<1> QED BY <1>5, <1>6, <1>7, <1>9, <1>10, <1>12, <1>16, <1>17, VidaSigue

\* It cannot be created: LP frees it as process_exit would.
LEMMA RechazarVida ==
    ASSUME IInv, IInv', Lugares, Vida, AtenderRespuesta, Rechazar, UNCHANGED <<creados, procesos>>
    PROVE  Vida'
<1>1. pc[LP] = "responde"
  BY DEF AtenderRespuesta, EnPaso
<1>2. PICK p \in Pids :
        /\ p = loc[LP].proceso /\ p \in ToSet(cola_new) /\ tid_contador[p] = 1
        /\ Suyos(p) \subseteq {<<p, 0>>} /\ loc[LP].hilo \in {NULO, <<p, 0>>}
  BY <1>1, CabezaDeNew
<1>3. /\ cola_new' = RemoveFirst(cola_new, p) /\ Va(LP, "desencola")
      /\ loc' = [loc EXCEPT ![LP] = [@ EXCEPT !.i = 1, !.j = 1, !.sigue = "inicio"]]
      /\ UNCHANGED <<colas, mem, tid_contador>>
  BY <1>2 DEF AtenderRespuesta, Rechazar, memoria, creados
<1>4. /\ SoloMueve(LP) /\ pc'[LP] = "desencola" /\ LP \in Actores /\ loc'[LP].proceso = p
      /\ loc'[LP].hilo = loc[LP].hilo
  <2>1. SoloMueve(LP) /\ pc'[LP] = "desencola" /\ LP \in Actores
    BY <1>3, SoloVa, ActoresDistintos
  <2> QED BY <1>2, <1>3, <2>1 DEF IInv, TypeOK, TipoActores, Locales
<1>5. HilosDe' /\ Vivos' = Vivos /\ \A q : Suyos(q)' = Suyos(q)
  BY ProcesosVida
<1>6. ToSet(cola_new') = ToSet(cola_new) \ {p} /\ SinDobles(cola_new')
  BY <1>3, QuitarElementoUnico DEF IInv, TypeOK, TipoNuevos, Lugares, EnNew
<1>7. ~EnSalida(LP) /\ Borrando(p)' /\ AdmitidoConContexto'
  BY <1>1, <1>4 DEF EnSalida, Borrando, AdmitidoConContexto
<1>8. Saliente(LP)'
  BY <1>2, <1>3, <1>4, ActoresDistintos DEF Saliente
<1>9. AltasSiguen
  BY <1>5, <1>6, <1>7 DEF AltasSiguen
<1> QED BY <1>3, <1>4, <1>5, <1>6, <1>7, <1>8, <1>9, LargoVida

-----------------------------------------------------------------------------
(* Every step moves threads between queues, or is one of these.            *)

Altera ==
    /\ EnSyscall
    /\ \E s : \/ IniciarProceso(s) \/ ThreadCreate(s) \/ ProcessExit(s)
              \/ ThreadExit(s) /\ hilo_en_exec[2] # 0
    /\ UNCHANGED <<mem, respuesta>>

PideAMemoria == CrearHilo \/ FinHilo

Suelta1(a) ==
    \/ FinProceso(a) \/ LiberarPcb(a) \/ LiberarHilo(a)
    \/ /\ HeredarMutex(a)
       /\ ~(loc[a].dueno # NULO /\ loc[a].j <= Len(mutex[loc[a].dueno]))

Admite == TomarNuevo \/ CrearProceso \/ (AtenderRespuesta /\ (Admitir \/ Rechazar))

FallaDump(h) == pc[h] = "dump" /\ SalirProceso(h, h, "no")

Cambia ==
    \/ Altera
    \/ PideAMemoria /\ UNCHANGED <<creados, procesos, nuevos, respuesta, fallo>>
    \/ (\E a \in Actores : Suelta1(a)) /\ UNCHANGED <<creados, nuevos, respuesta, fallo>>
    \/ Admite /\ UNCHANGED <<creados, procesos, fallo>>
    \/ /\ \E h \in Hilos : FallaDump(h)
       /\ UNCHANGED <<creados, procesos, mem, cola_new, respuesta, fallo>>

LEMMA CambiaVida ==
    ASSUME IInv, IInv', Lugares, Seguro, ProcesoVive, Vida, Cambia
    PROVE  Vida'
<1>1. CASE Altera
  BY <1>1, IniciarProcesoVida, ThreadCreateVida, ProcessExitVida, ThreadExitVida DEF Altera
<1>2. CASE PideAMemoria /\ UNCHANGED <<creados, procesos, nuevos, respuesta, fallo>>
  BY <1>2, CrearHiloVida, FinHiloVida DEF PideAMemoria
<1>3. CASE (\E a \in Actores : Suelta1(a)) /\ UNCHANGED <<creados, nuevos, respuesta, fallo>>
  BY <1>3, FinProcesoVida, LiberarPcbVida, LiberarHiloVida, HeredarMutexVida DEF Suelta1
<1>4. CASE Admite /\ UNCHANGED <<creados, procesos, fallo>>
  BY <1>4, TomarNuevoVida, CrearProcesoVida, AdmitirVida, RechazarVida DEF Admite
<1>5. CASE /\ \E h \in Hilos : FallaDump(h)
           /\ UNCHANGED <<creados, procesos, mem, cola_new, respuesta, fallo>>
  BY <1>5, FinDumpVida DEF FallaDump
<1> QED BY <1>1, <1>2, <1>3, <1>4, <1>5 DEF Cambia

\* A system call, THREAD_CANCEL apart.
LEMMA UnSyscall ==
    ASSUME IInv, SinCancelar, Syscall
    PROVE  /\ EnSyscall /\ fallo = "ninguno" /\ UNCHANGED <<mem, respuesta>>
           /\ \E s : \/ DumpMemory(s) \/ PeticionIO(s) \/ IniciarProceso(s) \/ ThreadCreate(s)
                     \/ ThreadJoin(s) \/ MutexCreate(s) \/ MutexLock(s)
                     \/ MutexUnlock(s) \/ ThreadExit(s) \/ ProcessExit(s)
<1> DEFINE script == Programa[archivo[loc[CP].hilo]]
           linea  == ctx[loc[CP].hilo]
<1>1. /\ EnSyscall /\ linea \in DOMAIN script /\ UNCHANGED <<mem, respuesta>>
      /\ fallo = "ninguno"
  BY AlAtender DEF Syscall, memoria, CPUContesta, EnPaso
<1>2. PICK s \in script[linea] :
        \/ DumpMemory(s) \/ PeticionIO(s) \/ IniciarProceso(s) \/ ThreadCreate(s)
        \/ ThreadJoin(s) \/ ThreadCancel(s) \/ MutexCreate(s) \/ MutexLock(s)
        \/ MutexUnlock(s) \/ ThreadExit(s) \/ ProcessExit(s)
  BY Zenon DEF Syscall
<1>3. loc[CP].hilo \in Hilos
  BY LocTipo, ActoresDistintos DEF Syscall, CPUContesta, IInv, TypeOK, TipoMemoria
<1>4. ~ThreadCancel(s)
  <2>1. archivo[loc[CP].hilo] \in Archivos
    BY <1>3 DEF IInv, TypeOK, TipoCreados
  <2>2. s.op # "THREAD_CANCEL"
    BY <1>1, <1>2, <2>1 DEF SinCancelar
  <2> QED BY <2>2 DEF ThreadCancel
<1> HIDE DEF script, linea
<1> QED BY <1>1, <1>2, <1>4, Zenon

LEMMA SyscallQuietoOCambia ==
    ASSUME IInv, Lugares, Seguro, Vida, SinCancelar, Syscall
    PROVE  Quieto \/ Cambia
<1>1. /\ EnSyscall /\ fallo = "ninguno" /\ UNCHANGED <<mem, respuesta>>
      /\ \E s : \/ DumpMemory(s) \/ PeticionIO(s) \/ IniciarProceso(s) \/ ThreadCreate(s)
                \/ ThreadJoin(s) \/ MutexCreate(s) \/ MutexLock(s)
                \/ MutexUnlock(s) \/ ThreadExit(s) \/ ProcessExit(s)
  BY UnSyscall
<1>2. PICK s :  \/ DumpMemory(s) \/ PeticionIO(s) \/ IniciarProceso(s) \/ ThreadCreate(s)
                \/ ThreadJoin(s) \/ MutexCreate(s) \/ MutexLock(s)
                \/ MutexUnlock(s) \/ ThreadExit(s) \/ ProcessExit(s)
  BY <1>1
<1>3. CASE IniciarProceso(s) \/ ThreadCreate(s) \/ ProcessExit(s)
  <2>1. Altera
    BY <1>1, <1>3 DEF Altera
  <2> QED BY <2>1 DEF Cambia
<1>4. CASE ThreadExit(s)
  <2>1. CASE hilo_en_exec[2] # 0
    <3>1. Altera
      BY <1>1, <1>4, <2>1 DEF Altera
    <3> QED BY <3>1 DEF Cambia
  <2>2. CASE hilo_en_exec[2] = 0
    <3>1. fallo' # "ninguno" /\ UNCHANGED <<pc, loc, Mapa>>
      BY <1>1, <1>4, <2>2 DEF ThreadExit, Mapa, procesos, nuevos
    <3> QED BY <1>1, <1>4, <3>1, ThreadExitQuieto
  <2> QED BY <2>1, <2>2
<1>5. CASE DumpMemory(s) \/ PeticionIO(s)
  <2>1. UNCHANGED <<Mapa, fallo, mutex>>
    BY <1>1, <1>5 DEF DumpMemory, PeticionIO, Mapa, procesos, nuevos
  <2> QED BY <1>1, <1>5, <2>1, DetachQuieto DEF DumpMemory, PeticionIO, Vida
<1>6. CASE ThreadJoin(s) \/ MutexCreate(s) \/ MutexLock(s) \/ MutexUnlock(s)
  <2>1. UNCHANGED Mapa
    BY <1>1, <1>6 DEF ThreadJoin, MutexCreate, MutexLock, MutexUnlock, Mapa, procesos, nuevos
  <2> QED BY <1>1, <1>6, <2>1, ThreadJoinQuieto, MutexCreateQuieto, MutexLockQuieto,
             MutexUnlockQuieto
<1> QED BY <1>2, <1>3, <1>4, <1>5, <1>6

LEMMA LiberacionQuietoOCambia ==
    ASSUME IInv, Lugares, SinHerederos, Vida, NEW a \in Actores, Liberacion(a)
    PROVE  Quieto \/ Cambia
<1>1. UNCHANGED <<creados, nuevos, respuesta, fallo>>
  BY DEF Liberacion
<1>2. CASE Suelta1(a)
  BY <1>1, <1>2 DEF Cambia
<1>3. CASE DesencolarTodos(a)
  BY <1>1, <1>3, DesencolarTodosQuieto DEF Vida
<1>4. CASE DespertarJoins(a)
  BY <1>1, <1>4, DespertarJoinsQuieto
<1>5. CASE HeredarMutex(a) /\ ~Suelta1(a)
  BY <1>1, <1>5, HeredarMutexQuieto DEF Suelta1
<1> QED BY <1>2, <1>3, <1>4, <1>5 DEF Liberacion, Suelta1

LEMMA NextQuietoOCambia ==
    ASSUME IInv, Lugares, Seguro, SinHerederos, Vida, ExecDe, SinCancelar, [Next]_vars
    PROVE  Quieto \/ Cambia
<1>0. CP \in Actores /\ LP \in Actores /\ Hilos \subseteq Actores
  BY DEF Actores
<1>1. ASSUME NEW a \in Actores, Falla(a) PROVE Quieto
  BY <1>1, NadaQuieto DEF Falla, memoria, nuevos
<1>2. CASE PasoCP
  <2>1. CASE /\ \/ EsperaReady \/ HayReady \/ Planificar \/ PonerEnExec \/ EjecutarHilo
                \/ FinEjecucion \/ EsperarQuantum \/ Interrupcion
             /\ UNCHANGED <<bloqueo, creados, procesos, liberados, nuevos, largo_plazo,
                            memoria, respuesta, ctx, fallo>>
    <3>1. UNCHANGED Mapa /\ UNCHANGED mutex /\ UNCHANGED fallo
      BY <2>1 DEF Mapa, procesos, nuevos, memoria
    <3> QED BY <2>1, <3>1, PasoCortoQuieto
  <2>2. CASE /\ CrearHilo \/ FinHilo
             /\ UNCHANGED <<bloqueo, creados, procesos, liberados, nuevos, largo_plazo,
                            quantum, respuesta, ctx, fallo>>
    BY <2>2 DEF Cambia, PideAMemoria
  <2> QED BY <1>0, <1>1, <1>2, <2>1, <2>2, SyscallQuietoOCambia, LiberacionQuietoOCambia
      DEF PasoCP
<1>3. CASE PasoLP
  <2>1. CASE /\ ConsultarLargoPlazo \/ TomarNuevo \/ CrearProceso \/ AtenderRespuesta
             /\ UNCHANGED <<bloqueo, creados, procesos, liberados, quantum, ctx, fallo>>
    <3>1. CASE Admite
      BY <2>1, <3>1 DEF Cambia
    <3>2. CASE ConsultarLargoPlazo \/ (AtenderRespuesta /\ Postergar)
      BY <2>1, <3>2, LargoPlazoQuieto
    <3> QED BY <2>1, <3>1, <3>2 DEF Admite, AtenderRespuesta
  <2> QED BY <1>0, <1>1, <1>3, <2>1, LiberacionQuietoOCambia DEF PasoLP
<1>4. ASSUME NEW h \in Hilos, PasoHandler(h) PROVE Quieto \/ Cambia
  <2>1. CASE /\ TomarMutexIO(h) \/ SoltarMutexIO(h) \/ FinIO(h) \/ FinDump(h)
             /\ UNCHANGED <<bloqueo, creados, procesos, liberados, nuevos, largo_plazo,
                            quantum, memoria, respuesta, ctx, fallo>>
    <3>1. UNCHANGED Mapa /\ UNCHANGED mutex /\ UNCHANGED fallo
          /\ UNCHANGED <<creados, procesos, mem, cola_new, respuesta, fallo>>
      BY <2>1 DEF Mapa, procesos, nuevos, memoria
    <3>2. CASE FinDump(h) /\ SalirProceso(h, h, "no")
      <4>1. FallaDump(h)
        BY <3>2 DEF FinDump, EnPaso, FallaDump
      <4> QED BY <3>1, <4>1 DEF Cambia
    <3>3. CASE /\ FinDump(h) => PasarAReady(h) /\ Va(h, "no") /\ UNCHANGED loc
      BY <2>1, <3>1, <3>3, HandlerQuieto
    <3> QED BY <2>1, <3>2, <3>3 DEF FinDump
  <2> QED BY <1>0, <1>1, <1>4, <2>1, LiberacionQuietoOCambia DEF PasoHandler
<1>5. CASE PasoQuantum \/ UNCHANGED vars
  BY <1>5, NadaQuieto DEF PasoQuantum, vars, memoria, nuevos
<1> QED BY <1>2, <1>3, <1>4, <1>5 DEF Next

LEMMA NextVida ==
    ASSUME IInv, IInv', Lugares, Seguro, ProcesoVive, SinHerederos, Vida, ExecDe, SinCancelar,
           [Next]_vars
    PROVE  Vida'
  BY NextQuietoOCambia, CambiaVida, QuietoVida


-----------------------------------------------------------------------------
(* From main.c on.                                                         *)

LEMMA InitVida == Init => Vida /\ ExecDe
<1> SUFFICES ASSUME Init PROVE Vida /\ ExecDe
  OBVIOUS
<1>1. IInv /\ Lugares /\ N0 \in Nat
  BY InitIInv, InitLugares, ConstantesKernel, LenProperties DEF N0
<1>2. /\ hilo_en_exec = NULO /\ mem = {} /\ cola_new = procesos_en_sistema
      /\ cola_ready = <<>> /\ cola_blocked = <<>>
  BY DEF Init
<1>3. /\ pc[CP] = "sem_ready" /\ pc[LP] = "inicio" /\ \A h \in Hilos : pc[h] = "no"
      /\ \A p \in Pids : mutex[p] = <<>>
  BY ActoresDistintos, Zenon DEF Init
<1>4. \A a \in Actores : ~EnSalida(a)
  BY <1>3 DEF EnSalida, Actores
<1>5. \A p \in Pids : DOMAIN mutex[p] = {}
  BY <1>3
<1>6. Activos = {}
  <2>1. EnColas = {} /\ Elegidos = {} /\ EnManos = {} /\ Esperan = {}
    BY <1>2, <1>3, <1>5 DEF EnColas, ToSet, Elegidos, EnManos, Manos, Esperan
  <2> QED BY <2>1 DEF Activos
<1>7. HilosDe
  <2>1. SinDobles(procesos_en_sistema)
    BY <1>1, <1>2 DEF Lugares, EnNew
  <2>2. \A p \in Pids : /\ threads[p] = IF p < N0 THEN <<<<p, 0>>>> ELSE <<>>
                        /\ tid_contador[p] = IF p < N0 THEN 1 ELSE 0
    BY DEF Init
  <2>3. \A p : SinDobles(<<<<p, 0>>>>) /\ ToSet(<<<<p, 0>>>>) = {<<p, 0>>}
    BY DEF SinDobles, ToSet
  <2>4. SinDobles(<<>>) /\ ToSet(<<>>) = {}
    BY DEF SinDobles, ToSet
  <2>5. ASSUME NEW p \in Pids
        PROVE  /\ SinDobles(threads[p])
               /\ \A h \in Suyos(p) : h[1] = p /\ h[2] < tid_contador[p]
    <3>1. CASE p < N0
      <4>1. threads[p] = <<<<p, 0>>>> /\ tid_contador[p] = 1
        BY <2>2, <3>1
      <4>2. SinDobles(threads[p]) /\ Suyos(p) = {<<p, 0>>}
        BY <2>3, <4>1, Zenon DEF Suyos
      <4> QED BY <4>1, <4>2
    <3>2. CASE ~(p < N0)
      BY <2>2, <2>4, <3>2 DEF Suyos
    <3> QED BY <3>1, <3>2
  <2> QED BY <2>1, <2>5 DEF HilosDe
<1>8. /\ FinDeOtro /\ SalientesFuera /\ SueltoFuera /\ SalientesSuyos
      /\ AdmitidoConContexto /\ ActivosConContexto
  BY <1>3, <1>4, <1>6, ActoresDistintos DEF FinDeOtro, SalientesFuera, SueltoFuera,
  SalientesSuyos, AdmitidoConContexto, ActivosConContexto
<1>9. ConContexto
  BY <1>2 DEF ConContexto, Vivos
<1> QED BY <1>2, <1>7, <1>8, <1>9 DEF Vida, ExecDe


-----------------------------------------------------------------------------
(* hilo_en_exec is NULL unless CP is about to run it, or running it.        *)

ExecMengua == hilo_en_exec' \in {hilo_en_exec, NULO}

LEMMA ColasMengua ==
    ASSUME UNCHANGED colas \/ \E h : Desencolar(h) \/ PasarAReady(h) \/ EncolarEnReady(h)
    PROVE  ExecMengua
<1>1. UNCHANGED hilo_en_exec \/ \E h : hilo_en_exec' = ExecSin(h)
  BY DEF colas, Desencolar, PasarAReady, EncolarEnReady
<1> QED BY <1>1 DEF ExecSin, ExecMengua

\* The actor is in liberar_pcb or liberar_hilo, or back where it came from.
LEMMA SigueEnSalida ==
    ASSUME IInv, NEW a \in Actores, Liberacion(a)
    PROVE  /\ SoloMueve(a) /\ EnSalida(a) /\ ExecMengua
           /\ loc'[a].sigue = loc[a].sigue
           /\ EnSalida(a)' \/ pc'[a] = loc[a].sigue
<1>1. SoloMueve(a)
  BY LiberacionDiscreta DEF Discreto
<1>2. EnSalida(a)
  BY DEF Liberacion, FinProceso, DesencolarTodos, LiberarPcb, LiberarHilo, DespertarJoins,
         HeredarMutex, EnPaso, EnSalida
<1>3. ExecMengua
  <2>1. UNCHANGED colas \/ \E h : Desencolar(h) \/ PasarAReady(h)
    BY DEF Liberacion, FinProceso, DesencolarTodos, LiberarPcb, LiberarHilo, DespertarJoins,
           HeredarMutex
  <2> QED BY <2>1, ColasMengua
<1> DEFINE k == loc[a]
           Fin == loc'[a].sigue = loc[a].sigue /\ (EnSalida(a)' \/ pc'[a] = loc[a].sigue)
           Sigue(l) == loc' = [loc EXCEPT ![a] = l] /\ l.sigue = loc[a].sigue
<1>4. SUFFICES Fin
  BY <1>1, <1>2, <1>3
<1>5. ASSUME NEW l, Sigue(l), UNCHANGED pc PROVE Fin
  BY <1>2, <1>5 DEF EnSalida, IInv, TypeOK, TipoActores
<1>6. ASSUME NEW e, Va(a, e), UNCHANGED loc \/ \E l : Sigue(l),
             e \in Salidas \cup {loc[a].sigue}
      PROVE  Fin
  BY <1>2, <1>6 DEF EnSalida, Salidas, Va, IInv, TypeOK, TipoActores
<1>8. k \in Locales
  BY LocTipo DEF IInv, TypeOK
<1> HIDE DEF Fin, Sigue
<1>9. CASE FinProceso(a)
  <2> DEFINE l == [k EXCEPT !.i = 1, !.j = 1]
  <2>1. loc' = [loc EXCEPT ![a] = l] /\ (Va(a, "desencola") \/ Va(a, k.sigue))
    BY <1>9 DEF FinProceso
  <2>2. l.sigue = k.sigue
    BY <1>8 DEF Locales
  <2>3. Sigue(l) /\ (Va(a, "desencola") \/ Va(a, k.sigue))
    BY <2>1, <2>2 DEF Sigue
  <2> HIDE DEF l
  <2> QED BY <1>6, <2>3 DEF Salidas
<1>10. CASE DesencolarTodos(a)
  <2> DEFINE l == [k EXCEPT !.j = @ + 1]
  <2>1. \/ UNCHANGED pc /\ loc' = [loc EXCEPT ![a] = l]
        \/ Va(a, "libera") /\ UNCHANGED loc
    BY <1>10 DEF DesencolarTodos
  <2>2. l.sigue = k.sigue
    BY <1>8 DEF Locales
  <2>3. \/ UNCHANGED pc /\ Sigue(l)
        \/ Va(a, "libera") /\ UNCHANGED loc
    BY <2>1, <2>2 DEF Sigue
  <2> HIDE DEF l
  <2> QED BY <1>5, <1>6, <2>3 DEF Salidas
<1>11. CASE LiberarPcb(a)
  <2> DEFINE h == threads[k.proceso][k.i]
             l == [k EXCEPT !.hilo = h, !.i = @ + 1]
  <2>1. \/ Va(a, "libera_hilo") /\ loc' = [loc EXCEPT ![a] = l]
        \/ Va(a, k.sigue) /\ UNCHANGED loc
    BY <1>11 DEF LiberarPcb
  <2>2. l.sigue = k.sigue
    BY <1>8 DEF Locales
  <2>3. \/ Va(a, "libera_hilo") /\ Sigue(l)
        \/ Va(a, k.sigue) /\ UNCHANGED loc
    BY <2>1, <2>2 DEF Sigue
  <2> HIDE DEF l
  <2> QED BY <1>6, <2>3 DEF Salidas
<1>12. CASE LiberarHilo(a)
  <2> DEFINE p == BuscarProceso(k.hilo[1])
             l == [k EXCEPT !.dueno = p, !.j = 1]
  <2>1. Va(a, "joins") /\ loc' = [loc EXCEPT ![a] = l]
    BY <1>12 DEF LiberarHilo
  <2>2. l.sigue = k.sigue
    BY <1>8 DEF Locales
  <2>3. Va(a, "joins") /\ Sigue(l)
    BY <2>1, <2>2 DEF Sigue
  <2> HIDE DEF l
  <2> QED BY <1>6, <2>3 DEF Salidas
<1>13. CASE DespertarJoins(a)
  <2> DEFINE l == [k EXCEPT !.j = @ + 1]
             m == [k EXCEPT !.j = 1]
  <2>1. \/ UNCHANGED pc /\ loc' = [loc EXCEPT ![a] = l]
        \/ Va(a, "mutex") /\ loc' = [loc EXCEPT ![a] = m]
    BY <1>13 DEF DespertarJoins
  <2>2. l.sigue = k.sigue /\ m.sigue = k.sigue
    BY <1>8 DEF Locales
  <2>3. \/ UNCHANGED pc /\ Sigue(l)
        \/ Va(a, "mutex") /\ Sigue(m)
    BY <2>1, <2>2 DEF Sigue
  <2> HIDE DEF l, m
  <2> QED BY <1>5, <1>6, <2>3 DEF Salidas
<1>14. CASE HeredarMutex(a)
  <2> DEFINE l == [k EXCEPT !.j = @ + 1]
  <2>1. \/ UNCHANGED pc /\ loc' = [loc EXCEPT ![a] = l]
        \/ (Va(a, k.sigue) \/ Va(a, "libera")) /\ UNCHANGED loc
    BY <1>14 DEF HeredarMutex
  <2>2. l.sigue = k.sigue
    BY <1>8 DEF Locales
  <2>3. \/ UNCHANGED pc /\ Sigue(l)
        \/ (Va(a, k.sigue) \/ Va(a, "libera")) /\ UNCHANGED loc
    BY <2>1, <2>2 DEF Sigue
  <2> HIDE DEF l
  <2> QED BY <1>5, <1>6, <2>3 DEF Salidas
<1> QED
  BY <1>9, <1>10, <1>11, <1>12, <1>13, <1>14 DEF Liberacion

\* What the other actors do to it.
LEMMA ExecDeAjeno ==
    ASSUME ExecDe, ExecMengua, pc'[CP] = pc[CP], loc'[CP] = loc[CP]
    PROVE  ExecDe'
<1>1. hilo_en_exec' # NULO => hilo_en_exec' = hilo_en_exec
  BY DEF ExecMengua
<1> QED BY <1>1 DEF ExecDe, EnSalida

LEMMA LiberacionExecDe ==
    ASSUME IInv, ExecDe, NEW a \in Actores, Liberacion(a)
    PROVE  ExecDe'
<1>1. /\ SoloMueve(a) /\ EnSalida(a) /\ ExecMengua
      /\ loc'[a].sigue = loc[a].sigue
      /\ EnSalida(a)' \/ pc'[a] = loc[a].sigue
  BY SigueEnSalida
<1>2. CASE a = CP
  <2>1. ASSUME hilo_en_exec' # NULO PROVE loc[CP].sigue = "cambio"
    BY <1>1, <1>2, <2>1 DEF ExecMengua, ExecDe, EnSalida
  <2> QED BY <1>1, <1>2, <2>1 DEF ExecDe, EnSalida
<1>3. CASE a # CP
  BY <1>1, <1>3, ExecDeAjeno, ActoresDistintos DEF SoloMueve
<1> QED BY <1>2, <1>3


LEMMA PasoCortoExecDe ==
    ASSUME IInv, Lugares, ExecDe,
           \/ EsperaReady \/ HayReady \/ Planificar \/ PonerEnExec \/ EjecutarHilo
           \/ FinEjecucion \/ EsperarQuantum \/ Interrupcion
    PROVE  ExecDe'
<1>0. CP \in Actores
  BY ActoresDistintos
<1>1. ASSUME pc'[CP] \in {"cambio", "cpu"} PROVE ExecDe'
  BY <1>1 DEF ExecDe
<1>2. ASSUME hilo_en_exec' = NULO PROVE ExecDe'
  BY <1>2 DEF ExecDe
<1>3. ASSUME hilo_en_exec \in Hilos, PasarAReady(hilo_en_exec) PROVE hilo_en_exec' = NULO
  BY <1>3, EfectoAReady DEF IInv, TypeOK, Lugares
<1>4. ASSUME NEW e, Va(CP, e) PROVE pc'[CP] = e
  BY <1>0, <1>4 DEF Va, IInv, TypeOK, TipoActores
<1>5. CASE EsperaReady \/ HayReady \/ Planificar \/ EsperarQuantum
  <2>1. /\ pc[CP] \in {"sem_ready", "hay_ready", "planifica", "join_rr"}
        /\ hilo_en_exec' = hilo_en_exec
    BY <1>5 DEF EsperaReady, HayReady, Planificar, EsperarQuantum, EnPaso, colas
  <2> QED BY <1>2, <2>1 DEF ExecDe, EnSalida
<1>6. CASE PonerEnExec
  BY <1>1, <1>4, <1>6 DEF PonerEnExec
<1>7. CASE FinEjecucion
  BY <1>2, <1>7 DEF FinEjecucion
<1>8. CASE EjecutarHilo
  <2>1. hilo_en_exec \in Hilos
    BY <1>8, PunteroExec DEF IInv, EjecutarHilo
  <2>2. PasarAReady(hilo_en_exec) \/ Va(CP, "cpu")
    BY <1>8 DEF EjecutarHilo
  <2> QED BY <1>1, <1>2, <1>3, <1>4, <2>1, <2>2
<1>9. CASE Interrupcion
  <2>1. hilo_en_exec \in Hilos /\ PasarAReady(hilo_en_exec)
    BY <1>9, PunteroExec DEF IInv, Interrupcion, CPUContesta
  <2> QED BY <1>2, <1>3, <2>1
<1> QED BY <1>5, <1>6, <1>7, <1>8, <1>9

LEMMA SyscallExecDe ==
    ASSUME IInv, Lugares, ProcesoVive, SinCancelar, Syscall
    PROVE  ExecDe'
<1>0. CP \in Actores
  BY ActoresDistintos
<1>1. /\ EnSyscall
      /\ \E s : \/ DumpMemory(s) \/ PeticionIO(s) \/ IniciarProceso(s) \/ ThreadCreate(s)
                \/ ThreadJoin(s) \/ MutexCreate(s) \/ MutexLock(s)
                \/ MutexUnlock(s) \/ ThreadExit(s) \/ ProcessExit(s)
  BY UnSyscall
<1>2. PICK s :  \/ DumpMemory(s) \/ PeticionIO(s) \/ IniciarProceso(s) \/ ThreadCreate(s)
                \/ ThreadJoin(s) \/ MutexCreate(s) \/ MutexLock(s)
                \/ MutexUnlock(s) \/ ThreadExit(s) \/ ProcessExit(s)
  BY <1>1
<1>3. ASSUME Va(CP, "cambio") PROVE ExecDe'
  <2>1. pc'[CP] = "cambio"
    BY <1>0, <1>3 DEF Va, IInv, TypeOK, TipoActores
  <2> QED BY <2>1 DEF ExecDe
<1>4. ASSUME NEW m, PasarABlocked(hilo_en_exec, m) PROVE ExecDe'
  <2>1. hilo_en_exec' = NULO
    BY <1>1, <1>4, EfectoABlocked DEF IInv, TypeOK, Lugares, EnSyscall
  <2> QED BY <2>1 DEF ExecDe
<1>5. ASSUME Desencolar(hilo_en_exec) PROVE ExecDe'
  <2>1. hilo_en_exec' = NULO
    BY <1>1, <1>5, EfectoDesencolar DEF IInv, TypeOK, Lugares, EnSyscall
  <2> QED BY <2>1 DEF ExecDe
<1>6. CASE DumpMemory(s) \/ PeticionIO(s)
  <2>1. \E m : PasarABlocked(hilo_en_exec, m)
    BY <1>6 DEF DumpMemory, PeticionIO
  <2> QED BY <1>4, <2>1
<1>7. CASE IniciarProceso(s) \/ MutexCreate(s) \/ MutexUnlock(s)
  BY <1>3, <1>7 DEF IniciarProceso, MutexCreate, MutexUnlock
<1>8. CASE ThreadJoin(s)
  BY <1>3, <1>4, <1>8, Zenon DEF ThreadJoin
<1>9. CASE MutexLock(s)
  BY <1>3, <1>4, <1>9, Zenon DEF MutexLock
<1>10. CASE ThreadExit(s) \/ ProcessExit(s)
  BY <1>5, <1>10 DEF ThreadExit, ProcessExit, SalirProceso
<1>11. CASE ThreadCreate(s)
  <2>1. PICK p, t : /\ p = BuscarProceso(hilo_en_exec[1]) /\ t = tid_contador[p]
                    /\ loc' = [loc EXCEPT ![CP].hilo = <<p, t>>]
                    /\ Va(CP, "crear_hilo") /\ UNCHANGED colas
    BY <1>11 DEF ThreadCreate
  <2>2. pc'[CP] = "crear_hilo" /\ loc'[CP].hilo = <<p, t>> /\ hilo_en_exec' = hilo_en_exec
    BY <1>0, <2>1 DEF Va, colas, IInv, TypeOK, TipoActores, Locales
  <2>3. hilo_en_exec # NULO /\ pc[CP] = "cpu"
    BY <1>1, ActoresDistintos DEF EnSyscall
  <2>4. p = hilo_en_exec[1]
    BY <2>1, <2>3 DEF ProcesoVive, BuscarProceso
  <2> QED BY <2>2, <2>4 DEF ExecDe
<1> QED BY <1>2, <1>6, <1>7, <1>8, <1>9, <1>10, <1>11

\* CP's requests: the running thread waits for its new thread, or is no more.
LEMMA PideExecDe ==
    ASSUME IInv, Lugares, FinDeOtro, ExecDe, CrearHilo \/ FinHilo
    PROVE  ExecDe'
<1>0. CP \in Actores
  BY ActoresDistintos
<1>1. ASSUME Va(CP, "cambio") PROVE ExecDe'
  <2>1. pc'[CP] = "cambio"
    BY <1>0, <1>1 DEF Va, IInv, TypeOK, TipoActores
  <2> QED BY <2>1 DEF ExecDe
<1>2. ASSUME NEW h, SalirProceso(CP, h, "cambio") PROVE ExecDe'
  <2> DEFINE l == [loc[CP] EXCEPT !.hilo = h, !.sigue = "cambio", !.proceso = BuscarProceso(h[1])]
  <2>1. Va(CP, "fin_proceso") /\ loc' = [loc EXCEPT ![CP] = l]
    BY <1>2 DEF SalirProceso
  <2>2. l.sigue = "cambio"
    BY <1>0, LocTipo DEF IInv, TypeOK, Locales
  <2> HIDE DEF l
  <2>3. pc'[CP] = "fin_proceso" /\ loc'[CP].sigue = "cambio"
    BY <1>0, <2>1, <2>2 DEF Va, IInv, TypeOK, TipoActores
  <2> QED BY <2>3 DEF ExecDe, EnSalida
<1>3. CASE CrearHilo
  BY <1>1, <1>2, <1>3 DEF CrearHilo
<1>4. CASE FinHilo
  <2>1. pc[CP] \in {"cancela", "fin_hilo"} /\ UNCHANGED hilo_en_exec
    BY <1>4 DEF FinHilo, EnPaso, colas
  <2>2. hilo_en_exec' = NULO
    BY <2>1 DEF ExecDe, EnSalida
  <2> QED BY <2>2 DEF ExecDe
<1> QED BY <1>3, <1>4

LEMMA NextExecDe ==
    ASSUME IInv, Lugares, ProcesoVive, FinDeOtro, ExecDe, SinCancelar, [Next]_vars
    PROVE  ExecDe'
<1>0. CP \in Actores /\ LP \in Actores /\ Hilos \subseteq Actores
  BY ActoresDistintos
<1>1. ASSUME UNCHANGED <<hilo_en_exec, pc, loc>> PROVE ExecDe'
  BY <1>1 DEF ExecDe, EnSalida
<1>2. ASSUME NEW a \in Actores, Falla(a) PROVE ExecDe'
  BY <1>1, <1>2 DEF Falla, colas
<1>3. CASE PasoCP
  BY <1>0, <1>2, <1>3, PasoCortoExecDe, SyscallExecDe, PideExecDe, LiberacionExecDe, Zenon
  DEF PasoCP
<1>4. CASE PasoLP
  <2>1. CASE ConsultarLargoPlazo \/ TomarNuevo \/ CrearProceso \/ AtenderRespuesta
    <3> DEFINE p == cola_new[1]
               h == IF threads[p] = <<>> THEN NULO ELSE threads[p][1]
    <3>1. /\ \E e : Va(LP, e)
          /\ \/ UNCHANGED loc
             \/ loc' = [loc EXCEPT ![LP] = [@ EXCEPT !.proceso = p, !.hilo = h]]
             \/ loc' = [loc EXCEPT ![LP] = [@ EXCEPT !.i = 1, !.j = 1, !.sigue = "inicio"]]
      BY <2>1 DEF ConsultarLargoPlazo, TomarNuevo, CrearProceso, AtenderRespuesta, Admitir,
                  Postergar, Rechazar
    <3>2. SoloMueve(LP)
      BY <1>0, <3>1, SoloVa
    <3>3. ExecMengua
      <4>1. UNCHANGED colas \/ \E g : EncolarEnReady(g)
        BY <2>1, Zenon DEF ConsultarLargoPlazo, TomarNuevo, CrearProceso, AtenderRespuesta,
                    Admitir, Postergar, Rechazar
      <4> QED BY <4>1, ColasMengua
    <3> QED BY <3>2, <3>3, ExecDeAjeno, ActoresDistintos DEF SoloMueve
  <2> QED BY <1>0, <1>2, <1>4, <2>1, LiberacionExecDe DEF PasoLP
<1>5. ASSUME NEW h \in Hilos, PasoHandler(h) PROVE ExecDe'
  <2>1. CASE TomarMutexIO(h) \/ SoltarMutexIO(h) \/ FinIO(h) \/ FinDump(h)
    <3> DEFINE p == BuscarProceso(h[1])
    <3>1. /\ \E e : Va(h, e)
          /\ \/ UNCHANGED loc
             \/ loc' = [loc EXCEPT ![h] = [@ EXCEPT !.hilo = h, !.sigue = "no", !.proceso = p]]
      BY <2>1 DEF TomarMutexIO, SoltarMutexIO, FinIO, FinDump, SalirProceso
    <3>2. SoloMueve(h)
      BY <1>0, <3>1, SoloVa
    <3>3. ExecMengua
      <4>1. UNCHANGED colas \/ PasarAReady(h) \/ Desencolar(h)
        BY <2>1, Zenon DEF TomarMutexIO, SoltarMutexIO, FinIO, FinDump, SalirProceso
      <4> QED BY <4>1, ColasMengua
    <3> QED BY <3>2, <3>3, ExecDeAjeno, ActoresDistintos DEF SoloMueve
  <2> QED BY <1>0, <1>2, <1>5, <2>1, LiberacionExecDe DEF PasoHandler
<1>6. CASE PasoQuantum \/ UNCHANGED vars
  BY <1>1, <1>6 DEF PasoQuantum, vars, colas
<1> QED BY <1>3, <1>4, <1>5, <1>6 DEF Next


-----------------------------------------------------------------------------
(* What memoria has.                                                       *)

Sano == IInv /\ Lugares /\ Seguro /\ Vida /\ ExecDe

LEMMA NextSano ==
    ASSUME SinCancelar, Sano, EnOrden, [Next]_vars
    PROVE  Sano'
<1>1. IInv'
  BY NextIInv DEF Sano
<1>2. Lugares'
  BY <1>1, NextLugares DEF Sano, Seguro, EnOrden
<1>3. Seguro'
  BY <1>2, NextSeguro DEF Sano, EnOrden
<1>4. Vida'
  BY <1>1, NextVida DEF Sano, EnOrden
<1>5. ExecDe'
  BY NextExecDe DEF Sano, Vida, EnOrden
<1> QED BY <1>1, <1>2, <1>3, <1>4, <1>5 DEF Sano

LEMMA SpecSano ==
    ASSUME SinCancelar
    PROVE  Spec /\ []EnOrden => []Sano
<1>1. Init => Sano
  BY InitIInv, InitLugares, InitSeguro, InitVida DEF Sano
<1>2. Sano /\ EnOrden /\ [Next]_vars => Sano'
  BY NextSano
<1> QED BY <1>1, <1>2, PTL DEF Spec

(* For programs that cancel no thread, and as long as the thread that runs  *)
(* is of an existing process and no owner of a mutex dies: whatever the     *)
(* order in which schedulers, handlers and memoria's answers come,          *)
(* THREAD_CREATE, admission, dumps and exits never leave in cola_ready a    *)
(* thread of a live process whose context memoria does not hold.            *)
THEOREM KernelReadyDeVivos ==
    ASSUME SinCancelar
    PROVE  Spec /\ []EnOrden => [](\A h \in ToSet(cola_ready) : h \in mem \/ Rezagado(h))
<1>1. Sano => \A h \in ToSet(cola_ready) : h \in mem \/ Rezagado(h)
  BY DEF Sano, Vida, ActivosConContexto, Activos, EnColas, Rezagado, Borrando, Vivos
<1> QED BY <1>1, SpecSano, PTL

(* If besides processes end alone (FinLimpio): what is READY can be run.    *)
(* ReadyTieneContexto fails only through the threads of a process that is   *)
(* being freed, which liberar_pcb (utils.c:55-75) takes out of the queues   *)
(* after FIN_PROCESO, or skips.                                             *)
THEOREM KernelReadyTieneContexto ==
    ASSUME SinCancelar
    PROVE  Spec /\ []EnOrden /\ []FinLimpio => []ReadyTieneContexto
<1>1. FinLimpio /\ (\A h \in ToSet(cola_ready) : h \in mem \/ Rezagado(h)) => ReadyTieneContexto
  BY DEF ReadyTieneContexto, FinLimpio
<1> QED BY <1>1, KernelReadyDeVivos, PTL

-----------------------------------------------------------------------------
(* Where the threads of an admitted process are.                           *)

Ubicado(h) ==
    h \in EnColas \cup Elegidos \/ Limbo(h) \/ (pc[CP] = "fin_hilo" /\ loc[CP].hilo = h)

Ubicados ==
    fallo = "ninguno" =>
        \A p \in Vivos \ ToSet(cola_new) : Terminando(p) \/ \A h \in Suyos(p) : Ubicado(h)

TerminandoSigue == \A p \in Vivos' \ ToSet(cola_new') : Terminando(p) => Terminando(p)'

UbicadosSiguen ==
    \A h : Ubicado(h) =>
        \/ Ubicado(h)' \/ Terminando(h[1])'
        \/ h \notin Suyos(h[1])' \/ h[1] \notin Vivos' \ ToSet(cola_new')

NuevosUbicados ==
    \A p \in Vivos' \ ToSet(cola_new') :
        \/ Terminando(p)'
        \/ \A h \in Suyos(p)' :
              Ubicado(h)' \/ (p \in Vivos \ ToSet(cola_new) /\ h \in Suyos(p))

LimboCae ==
    \A h : Limbo(h) => Limbo(h)' \/ h \notin Suyos(h[1])' \/ h[1] \notin Vivos'

LEMMA SuHilo ==
    ASSUME IInv, HilosDe, NEW p \in Vivos, NEW h \in Suyos(p)
    PROVE  p \in Pids /\ h \in Hilos /\ h[1] = p /\ h[2] < tid_contador[p]
<1>1. p \in Pids
  BY ElementosDeLista DEF Vivos, IInv, TypeOK, TipoProcesos
<1>2. h \in Hilos
  BY <1>1, ElementosDeLista DEF Suyos, IInv, TypeOK, TipoProcesos
<1> QED BY <1>1, <1>2 DEF HilosDe

LEMMA UbicadosSigue ==
    ASSUME IInv', HilosDe', Ubicados, fallo' = "ninguno" => fallo = "ninguno",
           TerminandoSigue, UbicadosSiguen, NuevosUbicados
    PROVE  Ubicados'
<1> SUFFICES ASSUME fallo = "ninguno", NEW p \in Vivos' \ ToSet(cola_new'), ~Terminando(p)',
                    NEW h \in Suyos(p)'
             PROVE  Ubicado(h)'
  BY DEF Ubicados
<1>1. h[1] = p
  <2>1. p \in Pids
    BY ElementosDeLista DEF Vivos, IInv, TypeOK, TipoProcesos
  <2> QED BY <2>1 DEF HilosDe, Suyos
<1>2. Ubicado(h)' \/ (p \in Vivos \ ToSet(cola_new) /\ h \in Suyos(p))
  BY DEF NuevosUbicados
<1>3. ~Terminando(p)
  BY DEF TerminandoSigue
<1>4. p \in Vivos \ ToSet(cola_new) /\ h \in Suyos(p) => Ubicado(h)
  BY <1>3 DEF Ubicados
<1>5. Ubicado(h) => Ubicado(h)'
  BY <1>1 DEF UbicadosSiguen
<1> QED BY <1>2, <1>4, <1>5

LEMMA QuietoUbicados ==
    ASSUME IInv', Vida, Ubicados, Quieto, fallo = "ninguno" => ExecEsSuyo
    PROVE  Ubicados'
<1>1. UNCHANGED <<procesos_en_sistema, threads, creados, cola_new>>
  BY DEF Quieto, Mapa
<1>2. \A a \in Actores : EnSalida(a)' <=> EnSalida(a)
  BY VidaIgual DEF Quieto
<1>3. \A a \in Actores : EnSalida(a) =>
          loc'[a].hilo = loc[a].hilo /\ loc'[a].proceso = loc[a].proceso
  BY VidaIgual DEF Quieto
<1>4. /\ pc'[CP] = "crear_hilo" <=> pc[CP] = "crear_hilo"
      /\ pc'[CP] = "fin_hilo" <=> pc[CP] = "fin_hilo"
      /\ pc[CP] \in {"crear_hilo", "fin_hilo"} => loc'[CP].hilo = loc[CP].hilo
  BY VidaIgual, ActoresDistintos DEF Quieto
<1>5. \A p : Terminando(p)' <=> Terminando(p)
  BY <1>2, <1>3 DEF Terminando
<1>6. HilosDe' /\ NuevosUbicados
  BY <1>1 DEF Vida, HilosDe, Suyos, Vivos, NuevosUbicados, creados
<1>7. TerminandoSigue
  BY <1>5 DEF TerminandoSigue
<1>8. CASE fallo' = "ninguno"
  <2>1. fallo = "ninguno" /\ \A h \in EnColas \cup Elegidos : h \in EnColas' \cup Elegidos' \/ Terminando(h[1])
    BY <1>8 DEF Quieto, Queda
  <2>2. \A h : Limbo(h)' <=> Limbo(h)
    BY <1>2, <1>3, <1>4, ActoresDistintos DEF Limbo
  <2>3. UbicadosSiguen
    BY <1>4, <1>5, <2>1, <2>2 DEF UbicadosSiguen, Ubicado
  <2> QED BY <1>6, <1>7, <2>1, <2>3, UbicadosSigue
<1>9. CASE fallo' # "ninguno"
  BY <1>9 DEF Ubicados
<1> QED BY <1>8, <1>9

\* A step of liberar_pcb or liberar_hilo that moves nobody.
LEMMA LiberaUbicados ==
    ASSUME IInv', HilosDe', Vida, Ubicados, NEW a \in Actores, SoloMueve(a), EnSalida(a),
           UNCHANGED <<colas, cola_new, fallo>>, IInv,
           Vivos' \subseteq Vivos, \A p \in Pids : Suyos(p)' \subseteq Suyos(p),
           pc'[a] \notin {"saca", "fin_hilo"},
           NEW q, q = loc[a].proceso, q \in Vivos' \ ToSet(cola_new') => Terminando(q)',
           a = CP /\ q = NULO => LimboCae
    PROVE  Ubicados'
<1>1. TerminandoSigue
  BY DEF TerminandoSigue, Terminando, SoloMueve, EnSalida
<1>2. NuevosUbicados
  BY TiposDeCreados DEF NuevosUbicados, Vivos
<1>3. EnColas' = EnColas /\ Elegidos' = Elegidos
  <2>1. a = CP => pc[CP] # "saca" /\ pc'[CP] # "saca"
    BY DEF EnSalida
  <2>2. a # CP => pc'[CP] = pc[CP] /\ loc'[CP] = loc[CP]
    BY ActoresDistintos DEF SoloMueve
  <2> QED BY <2>1, <2>2 DEF EnColas, Elegidos, colas
<1>4. UbicadosSiguen
  <2> SUFFICES ASSUME NEW h, Ubicado(h), h \in Suyos(h[1])', h[1] \in Vivos' \ ToSet(cola_new')
               PROVE  Ubicado(h)' \/ Terminando(h[1])'
    BY DEF UbicadosSiguen
  <2>1. CASE a # CP
    <3>1. pc'[CP] = pc[CP] /\ loc'[CP] = loc[CP]
      BY <2>1, ActoresDistintos DEF SoloMueve
    <3> QED BY <1>3, <3>1 DEF Ubicado, Limbo, EnSalida
  <2>2. CASE a = CP
    <3>1. h \in EnColas \cup Elegidos \/ Limbo(h)
      BY <2>2 DEF Ubicado, EnSalida
    <3>2. CASE Limbo(h) /\ q # NULO
      <4>1. h[1] \in Pids
        BY ElementosDeLista DEF Vivos, IInv, TypeOK, TipoProcesos
      <4>2. h \in Hilos
        BY <4>1, ElementosDeLista DEF Suyos, IInv, TypeOK, TipoProcesos
      <4>3. h[1] = q
        BY <2>2, <3>2, <4>2 DEF Vida, SalientesSuyos, Saliente, Limbo
      <4> QED BY <4>3
    <3> QED BY <1>3, <2>2, <3>1, <3>2 DEF Ubicado, LimboCae
  <2> QED BY <2>1, <2>2
<1> QED BY <1>1, <1>2, <1>4, UbicadosSigue


LEMMA FinProcesoUbicados ==
    ASSUME IInv, IInv', Vida, Vida', Ubicados, NEW a \in Actores, FinProceso(a),
           UNCHANGED <<creados, nuevos, fallo>>
    PROVE  Ubicados'
<1>1. PICK p \in Pids : p = loc[a].proceso /\ pc[a] = "fin_proceso"
  BY PunteroPCB DEF FinProceso, EnPaso, IInv
<1> DEFINE suyos == {h \in mem : h[1] = p}
<1>2. /\ UNCHANGED <<colas, procesos_en_sistema, threads, cola_new>> /\ EnSalida(a)
      /\ loc' = [loc EXCEPT ![a] = [@ EXCEPT !.i = 1, !.j = 1]]
      /\ Va(a, IF suyos = {} THEN loc[a].sigue ELSE "desencola")
  BY <1>1 DEF FinProceso, procesos, nuevos, EnSalida
<1>3. /\ SoloMueve(a) /\ pc'[a] = (IF suyos = {} THEN loc[a].sigue ELSE "desencola")
      /\ loc'[a].proceso = p
  <2>1. SoloMueve(a) /\ pc'[a] = (IF suyos = {} THEN loc[a].sigue ELSE "desencola")
    BY <1>2, SoloVa
  <2> QED BY <1>1, <1>2, <2>1 DEF IInv, TypeOK, TipoActores, Locales
<1>4. loc[a].sigue \in {"fin", "cambio", "inicio", "no"} /\ p # NULO
  BY LocTipo, ConstantesKernel DEF IInv, TypeOK
<1>5. ASSUME p \in Vivos \ ToSet(cola_new) PROVE Terminando(p)'
  <2>1. CASE suyos # {}
    BY <1>3, <2>1 DEF Terminando, EnSalida
  <2>2. CASE suyos = {}
    <3>1. <<p, 0>> \notin mem
      BY <2>2
    <3>2. Borrando(p)
      BY <1>5, <3>1 DEF Vida, ConContexto
    <3> QED BY <1>1, <1>3, <3>2 DEF Borrando, Terminando, SoloMueve, EnSalida
  <2> QED BY <2>1, <2>2
<1>6. /\ HilosDe' /\ Vivos' = Vivos /\ \A q \in Pids : Suyos(q)' = Suyos(q)
      /\ pc'[a] \notin {"saca", "fin_hilo"} /\ p \in Vivos' \ ToSet(cola_new') => Terminando(p)'
  BY <1>2, <1>3, <1>4, <1>5 DEF Vida, Vivos, Suyos
<1> HIDE DEF suyos
<1> QED BY <1>1, <1>2, <1>3, <1>4, <1>6, LiberaUbicados

LEMMA LiberarPcbUbicados ==
    ASSUME IInv, IInv', Vida, Vida', Ubicados, NEW a \in Actores, LiberarPcb(a),
           UNCHANGED <<creados, nuevos, fallo>>
    PROVE  Ubicados'
<1>1. PICK p \in Pids : p = loc[a].proceso /\ pc[a] = "libera"
  BY PunteroPCB DEF LiberarPcb, EnPaso, IInv
<1>2. UNCHANGED <<colas, cola_new>> /\ p # NULO /\ EnSalida(a)
  BY <1>1, ConstantesKernel DEF LiberarPcb, nuevos, EnSalida
<1>3. threads \in [Pids -> Seq(Hilos)] /\ threads[p] \in Seq(Hilos) /\ procesos_en_sistema \in Seq(Pids)
  BY TiposDeCreados
<1>4. HilosDe /\ HilosDe'
  BY DEF Vida
<1>5. CASE loc[a].i <= Len(threads[p])
  <2>0. loc[a].i \in Nat \ {0}
    BY LocTipo DEF IInv, TypeOK
  <2>1. PICK h \in Hilos : h = threads[p][loc[a].i]
    BY <1>3, <1>5, <2>0, LenProperties, ElementOfSeq DEF ToSet
  <2>2. /\ threads' = [threads EXCEPT ![p] = RemoveFirst(@, h)]
        /\ UNCHANGED procesos_en_sistema /\ Va(a, "libera_hilo")
        /\ loc' = [loc EXCEPT ![a] = [@ EXCEPT !.hilo = h, !.i = loc[a].i + 1]]
    BY <1>1, <1>5, <2>1 DEF LiberarPcb
  <2>3. SoloMueve(a) /\ pc'[a] = "libera_hilo" /\ loc'[a].proceso = p
    <3>1. SoloMueve(a) /\ pc'[a] = "libera_hilo"
      BY <2>2, SoloVa
    <3> QED BY <1>1, <2>2, <3>1 DEF IInv, TypeOK, TipoActores, Locales
  <2>4. Vivos' = Vivos /\ \A q \in Pids : Suyos(q)' \subseteq Suyos(q)
    <3>1. tid_contador' = tid_contador
      BY DEF creados
    <3> QED BY <1>4, <2>2, <3>1, BajaTCB DEF Vivos
  <2>5. Terminando(p)' /\ Vivos' \subseteq Vivos /\ pc'[a] \notin {"saca", "fin_hilo"}
    BY <2>3, <2>4 DEF EnSalida, Terminando
  <2> QED BY <1>1, <1>2, <1>4, <2>3, <2>4, <2>5, LiberaUbicados
<1>6. CASE ~(loc[a].i <= Len(threads[p]))
  <2>1. /\ procesos_en_sistema' = RemoveFirst(procesos_en_sistema, p)
        /\ Va(a, loc[a].sigue) /\ UNCHANGED <<threads, loc>>
    BY <1>1, <1>6 DEF LiberarPcb
  <2>2. SoloMueve(a) /\ pc'[a] \in {"fin", "cambio", "inicio", "no"}
    BY <2>1, SoloVa, LocTipo DEF IInv, TypeOK
  <2>3. Vivos' = Vivos \ {p}
    BY <1>3, <1>4, <2>1, QuitarElementoUnico DEF HilosDe, Vivos
  <2>4. /\ Vivos' \subseteq Vivos /\ p \notin Vivos' /\ \A q \in Pids : Suyos(q)' \subseteq Suyos(q)
        /\ pc'[a] \notin {"saca", "fin_hilo"}
    BY <2>1, <2>2, <2>3 DEF Suyos
  <2> QED BY <1>1, <1>2, <1>4, <2>2, <2>4, LiberaUbicados
<1> QED BY <1>5, <1>6

LEMMA LiberarHiloUbicados ==
    ASSUME IInv, IInv', Vida, Vida', Ubicados, NEW a \in Actores, LiberarHilo(a),
           UNCHANGED <<creados, nuevos, fallo>>
    PROVE  Ubicados'
<1>1. PICK h \in Hilos : h = loc[a].hilo /\ pc[a] = "libera_hilo"
  BY PunteroTCB DEF LiberarHilo, EnPaso, IInv
<1>2. BuscarProceso(h[1]) \in Pids \cup {NULO}
  BY BuscarProcesoTipo DEF IInv, TypeOK
<1>3. PICK p \in Pids \cup {NULO} : p = BuscarProceso(h[1])
  BY <1>2
<1>4. /\ UNCHANGED <<colas, cola_new, tid_contador, procesos_en_sistema>>
      /\ Va(a, "joins") /\ EnSalida(a)
      /\ threads' = IF p = NULO THEN threads ELSE [threads EXCEPT ![p] = RemoveFirst(@, h)]
      /\ loc' = [loc EXCEPT ![a] = [@ EXCEPT !.dueno = p, !.j = 1]]
  BY <1>1, <1>3 DEF LiberarHilo, EnPaso, nuevos, creados, EnSalida
<1>5. /\ SoloMueve(a) /\ pc'[a] = "joins" /\ loc'[a].hilo = h
      /\ loc'[a].proceso = loc[a].proceso
  <2>1. SoloMueve(a) /\ pc'[a] = "joins"
    BY <1>4, SoloVa
  <2> QED BY <1>1, <1>4, <2>1 DEF IInv, TypeOK, TipoActores, Locales
<1>6. HilosDe /\ HilosDe'
  BY DEF Vida
<1>7. Vivos' \subseteq Vivos /\ \A q \in Pids : Suyos(q)' \subseteq Suyos(q)
  <2>1. CASE p = NULO
    BY <1>4, <2>1 DEF Vivos, Suyos
  <2>2. CASE p # NULO
    BY <1>4, <1>6, <2>2, BajaTCB DEF Vivos
  <2> QED BY <2>1, <2>2
<1>8. PICK q : q = loc[a].proceso
  OBVIOUS
<1>9. Terminando(q)' /\ pc'[a] \notin {"saca", "fin_hilo"}
  BY <1>5, <1>8 DEF Terminando, EnSalida
<1>10. a = CP => LimboCae
  BY <1>1, <1>5 DEF Limbo, LimboCae, EnSalida
<1> QED BY <1>4, <1>5, <1>6, <1>7, <1>8, <1>9, <1>10, LiberaUbicados

LEMMA HeredarMutexUbicados ==
    ASSUME IInv, IInv', Vida, Vida', Ubicados, NEW a \in Actores, HeredarMutex(a),
           ~(loc[a].dueno # NULO /\ loc[a].j <= Len(mutex[loc[a].dueno])),
           UNCHANGED <<creados, nuevos, fallo>>
    PROVE  Ubicados'
<1>1. /\ pc[a] = "mutex" /\ EnSalida(a) /\ UNCHANGED <<colas, loc, threads>>
      /\ UNCHANGED <<procesos_en_sistema, cola_new>>
      /\ Va(a, IF loc[a].proceso = NULO THEN loc[a].sigue ELSE "libera")
  BY DEF HeredarMutex, EnPaso, EnSalida, nuevos
<1>2. PICK q : q = loc[a].proceso
  OBVIOUS
<1>3. SoloMueve(a) /\ loc'[a] = loc[a] /\ pc'[a] = (IF q = NULO THEN loc[a].sigue ELSE "libera")
  BY <1>1, <1>2, SoloVa
<1>4. pc'[a] \in {"fin", "cambio", "inicio", "no", "libera"}
  BY <1>3, LocTipo DEF IInv, TypeOK
<1>5. HilosDe' /\ Vivos' = Vivos /\ \A p \in Pids : Suyos(p)' = Suyos(p)
  BY <1>1 DEF Vida, Vivos, Suyos
<1>6. NULO \notin Vivos'
  BY <1>5, TiposDeCreados, ConstantesKernel DEF Vivos
<1>7. q # NULO => Terminando(q)'
  BY <1>2, <1>3 DEF Terminando, EnSalida
<1>8. ASSUME a = CP, q = NULO, NEW h, Limbo(h), h \in Suyos(h[1])', h[1] \in Vivos' PROVE FALSE
  <2>1. h[1] \in Pids
    BY <1>8, ElementosDeLista DEF Vivos, IInv, TypeOK, TipoProcesos
  <2>2. h \in Hilos /\ h \in Suyos(h[1]) /\ h[1] \in Vivos
    BY <1>5, <1>8, <2>1, ElementosDeLista DEF Suyos, IInv, TypeOK, TipoProcesos
  <2> QED BY <1>1, <1>8, <2>2 DEF Vida, SalientesSuyos, Saliente, Limbo
<1>9. /\ Vivos' \subseteq Vivos /\ \A p \in Pids : Suyos(p)' \subseteq Suyos(p)
      /\ pc'[a] \notin {"saca", "fin_hilo"}
      /\ q \in Vivos' \ ToSet(cola_new') => Terminando(q)'
  BY <1>4, <1>5, <1>6, <1>7
<1>10. a = CP /\ q = NULO => LimboCae
  BY <1>8 DEF LimboCae
<1>11. HilosDe' /\ UNCHANGED <<colas, cola_new, fallo>> /\ SoloMueve(a) /\ EnSalida(a)
  BY <1>1, <1>3, <1>5
<1> QED BY <1>2, <1>9, <1>10, <1>11, LiberaUbicados

-----------------------------------------------------------------------------
(* The same for the steps that bring threads or processes in.              *)

\* CP has nobody of its own in a process that ends.
LEMMA AltaUbicados ==
    ASSUME IInv', Vida', Ubicados, NEW a \in Actores, SoloMueve(a), ~EnSalida(a),
           fallo' = "ninguno" => fallo = "ninguno", UbicadosSiguen, NuevosUbicados
    PROVE  Ubicados'
<1>1. TerminandoSigue
  BY DEF TerminandoSigue, Terminando, SoloMueve, EnSalida
<1> QED BY <1>1, UbicadosSigue DEF Vida

LEMMA IniciarProcesoUbicados ==
    ASSUME IInv, IInv', Vida, Vida', Ubicados, EnSyscall, NEW s, IniciarProceso(s)
    PROVE  Ubicados'
<1>0. pid_counter \in Pids
  BY ConstantesKernel DEF IniciarProceso, IInv, TypeOK, TipoCreados, Pids
<1>1. PICK p \in Pids :
      /\ p = pid_counter /\ procesos_en_sistema' = Append(procesos_en_sistema, p)
      /\ cola_new' = Append(cola_new, p)
      /\ threads' = [threads EXCEPT ![p] = Append(@, <<p, tid_contador[p]>>)]
      /\ UNCHANGED <<colas, loc, fallo>> /\ Va(CP, "cambio") /\ pc[CP] = "cpu"
  BY <1>0 DEF IniciarProceso, TcbNuevo, EnSyscall
<1>2. SoloMueve(CP) /\ pc'[CP] = "cambio" /\ CP \in Actores
  BY <1>1, SoloVa, ActoresDistintos
<1>3. procesos_en_sistema \in Seq(Pids) /\ cola_new \in Seq(Pids) /\ threads \in [Pids -> Seq(Hilos)]
  BY TiposDeCreados
<1>4. /\ Vivos' = Vivos \cup {p} /\ ToSet(cola_new') = ToSet(cola_new) \cup {p}
      /\ \A q \in Pids : q # p => Suyos(q)' = Suyos(q)
  BY <1>1, <1>3, AgregarElemento DEF Vivos, Suyos
<1>5. Vivos \subseteq Pids
  BY TiposDeCreados DEF Vivos
<1>6. NuevosUbicados
  BY <1>4, <1>5 DEF NuevosUbicados
<1>7. UbicadosSiguen /\ ~EnSalida(CP)
  BY <1>1, <1>2 DEF UbicadosSiguen, Ubicado, Limbo, EnSalida, EnColas, Elegidos, colas
<1> QED BY <1>1, <1>2, <1>6, <1>7, AltaUbicados

LEMMA ThreadCreateUbicados ==
    ASSUME IInv, IInv', Vida, Vida', Ubicados, EnSyscall, NEW s, ThreadCreate(s)
    PROVE  Ubicados'
<1>1. PICK p \in Pids :
      /\ pc[CP] = "cpu" /\ UNCHANGED <<colas, cola_new, fallo>>
      /\ UNCHANGED procesos_en_sistema /\ tid_contador[p] < MaxTid
      /\ threads' = [threads EXCEPT ![p] = Append(@, <<p, tid_contador[p]>>)]
      /\ loc' = [loc EXCEPT ![CP] = [@ EXCEPT !.hilo = <<p, tid_contador[p]>>]]
      /\ Va(CP, "crear_hilo")
  BY DEF ThreadCreate, TcbNuevo, EnSyscall, nuevos
<1>2. <<p, tid_contador[p]>> \in Hilos
  <2>1. tid_contador[p] \in Tids
    BY <1>1, TiposDeCreados, ConstantesKernel DEF Tids
  <2> QED BY <2>1, Pares
<1>3. PICK h \in Hilos : h = <<p, tid_contador[p]>>
  BY <1>2
<1>4. SoloMueve(CP) /\ pc'[CP] = "crear_hilo" /\ CP \in Actores /\ loc'[CP].hilo = h
  <2>1. SoloMueve(CP) /\ pc'[CP] = "crear_hilo" /\ CP \in Actores
    BY <1>1, SoloVa, ActoresDistintos
  <2> QED BY <1>1, <1>3, <2>1 DEF IInv, TypeOK, TipoActores, Locales
<1>5. /\ Suyos(p)' = Suyos(p) \cup {h} /\ Vivos' = Vivos
      /\ \A q \in Pids : q # p => Suyos(q)' = Suyos(q)
  <2>1. threads[p] \in Seq(Hilos) /\ threads \in [Pids -> Seq(Hilos)]
    BY TiposDeCreados
  <2>2. threads'[p] = Append(threads[p], h) /\ \A q \in Pids : q # p => threads'[q] = threads[q]
    BY <1>1, <1>3, <2>1
  <2>3. ToSet(Append(threads[p], h)) = ToSet(threads[p]) \cup {h}
    BY <2>1, AgregarElemento
  <2>4. Suyos(p)' = Suyos(p) \cup {h} /\ \A q \in Pids : q # p => Suyos(q)' = Suyos(q)
    BY <2>2, <2>3 DEF Suyos
  <2>5. Vivos' = Vivos
    BY <1>1 DEF Vivos
  <2> QED BY <2>4, <2>5
<1>6. Vivos \subseteq Pids
  BY TiposDeCreados DEF Vivos
<1>7. Ubicado(h)'
  BY <1>4 DEF Ubicado, Limbo
<1>8. NuevosUbicados
  BY <1>1, <1>5, <1>6, <1>7 DEF NuevosUbicados
<1>9. UbicadosSiguen /\ ~EnSalida(CP)
  BY <1>1, <1>4 DEF UbicadosSiguen, Ubicado, Limbo, EnSalida, EnColas, Elegidos, colas
<1> QED BY <1>1, <1>4, <1>8, <1>9, AltaUbicados

\* process_exit_thread: the process of the thread it dequeues is ending.
LEMMA SaleUbicados ==
    ASSUME IInv, IInv', Lugares, Vida', Ubicados, NEW a \in Actores, NEW h \in Hilos, NEW e,
           SalirProceso(a, h, e), UNCHANGED <<procesos_en_sistema, threads, cola_new, fallo>>,
           ~EnSalida(a), a = CP => pc[CP] \notin {"saca", "fin_hilo"},
           pc[a] = "crear_hilo" /\ a = CP => loc[CP].hilo = h,
           estado[h] = "EXEC" => hilo_en_exec = NULO \/ hilo_en_exec[1] = h[1]
    PROVE  Ubicados'
<1>1. /\ SoloMueve(a) /\ pc'[a] = "fin_proceso" /\ loc'[a].hilo = h
      /\ loc'[a].proceso = BuscarProceso(h[1]) /\ Desencolar(h)
  <2> DEFINE l == [loc[a] EXCEPT !.hilo = h, !.sigue = e, !.proceso = BuscarProceso(h[1])]
  <2>1. loc' = [loc EXCEPT ![a] = l] /\ Va(a, "fin_proceso")
    BY DEF SalirProceso
  <2> HIDE DEF l
  <2>2. SoloMueve(a) /\ pc'[a] = "fin_proceso"
    BY <2>1, SoloVa
  <2> QED BY <2>1, <2>2 DEF SalirProceso, IInv, TypeOK, TipoActores, Locales
<1>2. Vivos' = Vivos /\ \A p : Suyos(p)' = Suyos(p)
  BY DEF Vivos, Suyos
<1>3. h[1] \in Vivos => Terminando(h[1])'
  BY <1>1 DEF Terminando, EnSalida, BuscarProceso, Vivos
<1>4. \A g \in EnColas : g \in EnColas' \/ g[1] = h[1]
  <2>1. \A g \in EnColas \ {h} : g \in EnColas' \/ (g = hilo_en_exec /\ estado[h] = "EXEC")
    BY <1>1, EfectoDesencolar DEF IInv, TypeOK, Lugares
  <2>2. NULO \notin EnColas
    BY ElementosDeLista, ActoresDistintos DEF EnColas, IInv, TypeOK, TipoColas
  <2> QED BY <2>1, <2>2
<1>5. UbicadosSiguen
  <2> SUFFICES ASSUME NEW g, Ubicado(g), g[1] \in Vivos'
               PROVE  Ubicado(g)' \/ Terminando(g[1])'
    BY DEF UbicadosSiguen
  <2>1. CASE g \in EnColas
    BY <1>2, <1>3, <1>4, <2>1 DEF Ubicado
  <2>2. CASE g \notin EnColas /\ a = CP
    <3>1. Limbo(g)
      BY <2>2 DEF Ubicado, Elegidos
    <3>2. g = h
      BY <2>2, <3>1 DEF Limbo
    <3> QED BY <1>2, <1>3, <3>2
  <2>3. CASE g \notin EnColas /\ a # CP
    <3>1. pc'[CP] = pc[CP] /\ loc'[CP] = loc[CP]
      BY <1>1, <2>3, ActoresDistintos DEF SoloMueve
    <3> QED BY <2>3, <3>1 DEF Ubicado, Limbo, EnSalida, Elegidos
  <2> QED BY <2>1, <2>2, <2>3
<1>6. NuevosUbicados
  BY <1>2 DEF NuevosUbicados
<1> QED BY <1>1, <1>5, <1>6, AltaUbicados

LEMMA ProcessExitUbicados ==
    ASSUME IInv, IInv', Lugares, Vida', Ubicados, EnSyscall, NEW s, ProcessExit(s)
    PROVE  Ubicados'
<1>1. PICK h \in Hilos : h = hilo_en_exec
  BY DEF EnSyscall
<1>2. /\ SalirProceso(CP, h, "fin") /\ CP \in Actores /\ pc[CP] = "cpu" /\ ~EnSalida(CP)
      /\ UNCHANGED <<procesos_en_sistema, threads, cola_new, fallo>>
  BY <1>1, ActoresDistintos DEF ProcessExit, EnSyscall, EnSalida, procesos, nuevos
<1> QED BY <1>1, <1>2, SaleUbicados

\* THREAD_EXIT: CP keeps the thread until memoria has answered.
LEMMA ThreadExitUbicados ==
    ASSUME IInv, IInv', Lugares, Vida', Ubicados, EnSyscall, NEW s, ThreadExit(s),
           hilo_en_exec[2] # 0
    PROVE  Ubicados'
<1>1. PICK h \in Hilos :
      /\ h = hilo_en_exec /\ Desencolar(h) /\ pc[CP] = "cpu" /\ Va(CP, "fin_hilo")
      /\ loc' = [loc EXCEPT ![CP] = [@ EXCEPT !.hilo = h]]
      /\ UNCHANGED <<procesos_en_sistema, threads, cola_new, fallo>>
  BY DEF EnSyscall, ThreadExit, procesos, nuevos
<1>2. CP \in Actores /\ SoloMueve(CP) /\ pc'[CP] = "fin_hilo" /\ loc'[CP].hilo = h
  <2>1. CP \in Actores /\ SoloMueve(CP) /\ pc'[CP] = "fin_hilo"
    BY <1>1, SoloVa, ActoresDistintos
  <2> QED BY <1>1, <2>1 DEF IInv, TypeOK, TipoActores, Locales
<1>3. \A g \in EnColas : g \in EnColas' \/ g = h
  BY <1>1, EfectoDesencolar DEF IInv, TypeOK, Lugares
<1>4. UbicadosSiguen /\ ~EnSalida(CP)
  BY <1>1, <1>2, <1>3 DEF UbicadosSiguen, Ubicado, Elegidos, Limbo, EnSalida
<1>5. NuevosUbicados
  BY <1>1 DEF NuevosUbicados, Vivos, Suyos
<1> QED BY <1>1, <1>2, <1>4, <1>5, AltaUbicados

\* The new thread is queued; or its process ends, its creator with it.
LEMMA CrearHiloUbicados ==
    ASSUME IInv, IInv', Lugares, Vida, Vida', ExecDe, Ubicados, CrearHilo,
           UNCHANGED <<creados, procesos, nuevos, fallo>>
    PROVE  Ubicados'
<1>1. PICK h \in Hilos : h = loc[CP].hilo /\ pc[CP] = "crear_hilo"
  BY PunteroTCB, ActoresDistintos DEF IInv, CrearHilo, EnPaso
<1>2. /\ CP \in Actores /\ ~EnSalida(CP)
      /\ UNCHANGED <<procesos_en_sistema, threads, cola_new>>
  BY <1>1, ActoresDistintos DEF procesos, nuevos, EnSalida
<1>3. CASE archivo[h] \in Existe
  <2>1. EncolarEnReady(h) /\ Va(CP, "cambio") /\ UNCHANGED loc
    BY <1>1, <1>3 DEF CrearHilo
  <2>2. SoloMueve(CP) /\ pc'[CP] = "cambio"
    BY <1>2, <2>1, SoloVa
  <2>3. EnColas' = EnColas \cup {h}
    BY <2>1, EfectoEncolar DEF IInv, TypeOK
  <2>4. UbicadosSiguen
    BY <1>1, <1>2, <2>3 DEF UbicadosSiguen, Ubicado, Elegidos, Limbo
  <2>5. NuevosUbicados
    BY <1>2 DEF NuevosUbicados, Vivos, Suyos
  <2> QED BY <1>2, <2>2, <2>4, <2>5, AltaUbicados
<1>4. CASE archivo[h] \notin Existe
  <2>1. SalirProceso(CP, h, "cambio")
    BY <1>1, <1>4 DEF CrearHilo
  <2>2. hilo_en_exec # NULO => hilo_en_exec[1] = h[1]
    BY <1>1 DEF ExecDe
  <2> QED BY <1>1, <1>2, <2>1, <2>2, SaleUbicados
<1> QED BY <1>3, <1>4

\* Without its context in memoria, its process is already ending.
LEMMA FinHiloUbicados ==
    ASSUME IInv, IInv', Vida, Vida', Ubicados, FinHilo,
           UNCHANGED <<creados, procesos, nuevos, fallo>>
    PROVE  Ubicados'
<1>1. PICK h \in Hilos : h = loc[CP].hilo /\ pc[CP] = "fin_hilo" /\ Visto(h)
  BY DEF FinHilo, EnPaso, Vida, FinDeOtro, SueltoFuera
<1>2. /\ CP \in Actores /\ ~EnSalida(CP)
      /\ UNCHANGED <<procesos_en_sistema, threads, cola_new, colas>>
      /\ Va(CP, IF h \in mem THEN "libera_hilo" ELSE "fin")
      /\ loc' = [loc EXCEPT ![CP] = [@ EXCEPT !.proceso = NULO, !.sigue = "fin"]]
  BY <1>1, ActoresDistintos DEF FinHilo, EnPaso, procesos, nuevos, EnSalida
<1>3. /\ SoloMueve(CP) /\ pc'[CP] = (IF h \in mem THEN "libera_hilo" ELSE "fin")
      /\ loc'[CP].hilo = h
  <2>1. SoloMueve(CP) /\ pc'[CP] = (IF h \in mem THEN "libera_hilo" ELSE "fin")
    BY <1>2, SoloVa
  <2> QED BY <1>1, <1>2, <2>1 DEF IInv, TypeOK, TipoActores, Locales
<1>4. Vivos' = Vivos /\ \A p : Suyos(p)' = Suyos(p)
  BY <1>2 DEF Vivos, Suyos
<1>5. \A p : Terminando(p) => Terminando(p)'
  BY <1>2, <1>3 DEF Terminando, SoloMueve, EnSalida
<1>6. h \in mem => Limbo(h)'
  BY <1>3 DEF Limbo, EnSalida
<1>7. ASSUME h \notin mem, h[1] \in Vivos' \ ToSet(cola_new'), h \in Suyos(h[1])'
      PROVE  Terminando(h[1])'
  <2>1. h[1] \in Vivos \ ToSet(cola_new) /\ h \in Suyos(h[1]) /\ ~Limbo(h)
    BY <1>1, <1>2, <1>4, <1>7 DEF Limbo
  <2>2. Borrando(h[1])
    BY <1>7, <2>1 DEF Vida, ConContexto
  <2> QED BY <1>5, <2>2 DEF Borrando, Terminando
<1>8. \A g : Ubicado(g) => g \in EnColas' \/ g = h
  BY <1>1, <1>2 DEF Ubicado, EnColas, colas, Elegidos, Limbo
<1>9. UbicadosSiguen
  BY <1>6, <1>7, <1>8 DEF UbicadosSiguen, Ubicado
<1>10. NuevosUbicados
  BY <1>2, <1>4 DEF NuevosUbicados
<1> QED BY <1>2, <1>3, <1>9, <1>10, AltaUbicados

LEMMA FallaDumpUbicados ==
    ASSUME IInv, IInv', Lugares, Seguro, Vida', Ubicados, NEW h \in Hilos, FallaDump(h),
           UNCHANGED <<procesos, cola_new, fallo>>
    PROVE  Ubicados'
<1>1. h \in EnManos /\ h \in Actores /\ h # CP /\ ~EnSalida(h)
  BY ActoresDistintos DEF FallaDump, EnManos, Manos, Actores, EnSalida
<1>2. estado[h] = "BLOCKED"
  BY <1>1 DEF Seguro, Atados
<1>3. SalirProceso(h, h, "no") /\ UNCHANGED <<procesos_en_sistema, threads>>
  BY DEF FallaDump, procesos
<1> QED BY <1>1, <1>2, <1>3, SaleUbicados

\* LP: who leaves cola_new is queued, or its process ends.
LEMMA LargoUbicados ==
    ASSUME IInv, IInv', Vida', Ubicados, SoloMueve(LP), ~EnSalida(LP), EnColas \subseteq EnColas',
           UNCHANGED <<procesos, fallo>>,
           \A q \in ToSet(cola_new) \ ToSet(cola_new') : Terminando(q)' \/ Suyos(q) \subseteq EnColas',
           ToSet(cola_new') \subseteq ToSet(cola_new)
    PROVE  Ubicados'
<1>1. pc'[CP] = pc[CP] /\ loc'[CP] = loc[CP] /\ LP \in Actores
  BY ActoresDistintos DEF SoloMueve
<1>2. Vivos' = Vivos /\ \A p : Suyos(p)' = Suyos(p)
  BY DEF Vivos, Suyos, procesos
<1>3. UbicadosSiguen
  BY <1>1 DEF UbicadosSiguen, Ubicado, Elegidos, Limbo, EnSalida
<1>4. NuevosUbicados
  BY <1>2 DEF NuevosUbicados, Ubicado
<1> QED BY <1>1, <1>3, <1>4, AltaUbicados

LEMMA AdmiteUbicados ==
    ASSUME IInv, IInv', Lugares, Vida', Ubicados, Admite, UNCHANGED <<creados, procesos, fallo>>
    PROVE  Ubicados'
<1>1. CASE TomarNuevo
  <2> DEFINE p == cola_new[1]
             h == IF threads[p] = <<>> THEN NULO ELSE threads[p][1]
             l == [loc[LP] EXCEPT !.proceso = p, !.hilo = h]
  <2>1. /\ pc[LP] = "sem_new" /\ loc' = [loc EXCEPT ![LP] = l] /\ Va(LP, "crear_proceso")
        /\ UNCHANGED <<colas, cola_new>>
    BY <1>1 DEF TomarNuevo, EnPaso
  <2> HIDE DEF l
  <2>2. SoloMueve(LP) /\ ~EnSalida(LP)
    BY <2>1, SoloVa, ActoresDistintos DEF EnSalida
  <2> QED BY <2>1, <2>2, LargoUbicados DEF EnColas, colas
<1>2. CASE CrearProceso
  <2>1. pc[LP] = "crear_proceso" /\ Va(LP, "responde") /\ UNCHANGED <<colas, cola_new, loc>>
    BY <1>2 DEF CrearProceso, EnPaso, nuevos
  <2>2. SoloMueve(LP) /\ ~EnSalida(LP)
    BY <2>1, SoloVa, ActoresDistintos DEF EnSalida
  <2> QED BY <2>1, <2>2, LargoUbicados DEF EnColas, colas
<1>3. ASSUME AtenderRespuesta, Admitir \/ Rechazar
      PROVE  /\ pc[LP] = "responde" /\ ~EnSalida(LP)
             /\ \E p \in Pids :
                   /\ p = loc[LP].proceso /\ Suyos(p) \subseteq {<<p, 0>>}
                   /\ loc[LP].hilo \in {NULO, <<p, 0>>}
                   /\ ToSet(cola_new') = ToSet(cola_new) \ {p}
  <2>1. pc[LP] = "responde"
    BY <1>3 DEF AtenderRespuesta, EnPaso
  <2>2. PICK p \in Pids :
          /\ p = loc[LP].proceso /\ Suyos(p) \subseteq {<<p, 0>>}
          /\ loc[LP].hilo \in {NULO, <<p, 0>>}
    BY <2>1, CabezaDeNew
  <2>3. cola_new' = RemoveFirst(cola_new, p)
    BY <1>3, <2>2 DEF Admitir, Rechazar
  <2>4. ToSet(cola_new') = ToSet(cola_new) \ {p}
    BY <2>3, QuitarElementoUnico DEF IInv, TypeOK, TipoNuevos, Lugares, EnNew
  <2> QED BY <2>1, <2>2, <2>4 DEF EnSalida
<1>4. CASE AtenderRespuesta /\ Admitir
  <2>1. PICK p \in Pids :
          /\ p = loc[LP].proceso /\ Suyos(p) \subseteq {<<p, 0>>}
          /\ loc[LP].hilo \in {NULO, <<p, 0>>}
          /\ ToSet(cola_new') = ToSet(cola_new) \ {p}
    BY <1>3, <1>4
  <2>2. loc[LP].hilo \in Hilos
    BY <1>4, PunteroTCB, ActoresDistintos DEF AtenderRespuesta, EnPaso, IInv
  <2>3. PICK h \in Hilos : h = loc[LP].hilo /\ h = <<p, 0>>
    BY <2>1, <2>2, ActoresDistintos
  <2>4. EncolarEnReady(h) /\ Va(LP, "inicio") /\ UNCHANGED loc
    BY <1>4, <2>3 DEF Admitir
  <2>5. EnColas' = EnColas \cup {h}
    BY <2>4, EfectoEncolar DEF IInv, TypeOK
  <2>6. SoloMueve(LP)
    BY <2>4, SoloVa, ActoresDistintos
  <2> QED BY <1>3, <1>4, <2>1, <2>3, <2>5, <2>6, LargoUbicados
<1>5. CASE AtenderRespuesta /\ Rechazar
  <2>1. PICK p \in Pids : p = loc[LP].proceso /\ ToSet(cola_new') = ToSet(cola_new) \ {p}
    BY <1>3, <1>5
  <2>2. /\ Va(LP, "desencola") /\ UNCHANGED colas
        /\ loc' = [loc EXCEPT ![LP] = [@ EXCEPT !.i = 1, !.j = 1, !.sigue = "inicio"]]
    BY <1>5 DEF Rechazar
  <2>3. SoloMueve(LP) /\ pc'[LP] = "desencola" /\ LP \in Actores /\ loc'[LP].proceso = p
    <3>1. SoloMueve(LP) /\ pc'[LP] = "desencola" /\ LP \in Actores
      BY <2>2, SoloVa, ActoresDistintos
    <3> QED BY <2>1, <2>2, <3>1 DEF IInv, TypeOK, TipoActores, Locales
  <2>4. Terminando(p)' /\ EnColas' = EnColas
    BY <2>2, <2>3 DEF Terminando, EnSalida, EnColas, colas
  <2> QED BY <1>3, <1>5, <2>1, <2>3, <2>4, LargoUbicados
<1> QED BY <1>1, <1>2, <1>4, <1>5 DEF Admite

LEMMA CambiaUbicados ==
    ASSUME IInv, IInv', Lugares, Seguro, Vida, Vida', ExecDe, Ubicados, Cambia
    PROVE  Ubicados'
<1>1. CASE Altera
  BY <1>1, IniciarProcesoUbicados, ThreadCreateUbicados, ProcessExitUbicados,
     ThreadExitUbicados DEF Altera
<1>2. CASE PideAMemoria /\ UNCHANGED <<creados, procesos, nuevos, respuesta, fallo>>
  BY <1>2, CrearHiloUbicados, FinHiloUbicados DEF PideAMemoria
<1>3. CASE (\E a \in Actores : Suelta1(a)) /\ UNCHANGED <<creados, nuevos, respuesta, fallo>>
  BY <1>3, FinProcesoUbicados, LiberarPcbUbicados, LiberarHiloUbicados, HeredarMutexUbicados
  DEF Suelta1
<1>4. CASE Admite /\ UNCHANGED <<creados, procesos, fallo>>
  BY <1>4, AdmiteUbicados
<1>5. CASE /\ \E h \in Hilos : FallaDump(h)
           /\ UNCHANGED <<creados, procesos, mem, cola_new, respuesta, fallo>>
  BY <1>5, FallaDumpUbicados
<1> QED BY <1>1, <1>2, <1>3, <1>4, <1>5 DEF Cambia

-----------------------------------------------------------------------------
(* No thread is lost.                                                      *)

LEMMA InitUbicados == Init => Ubicados
  BY DEF Init, Ubicados, Vivos

LEMMA NextUbicados ==
    ASSUME SinCancelar, Sano, Sano', EnOrden, fallo = "ninguno" => ExecEsSuyo, Ubicados,
           [Next]_vars
    PROVE  Ubicados'
<1>1. Quieto \/ Cambia
  BY NextQuietoOCambia DEF Sano, EnOrden
<1>2. CASE Quieto
  BY <1>2, QuietoUbicados DEF Sano
<1>3. CASE Cambia
  BY <1>3, CambiaUbicados DEF Sano
<1> QED BY <1>1, <1>2, <1>3

(* For programs that cancel no thread, as long as the thread that runs is   *)
(* of an existing process, no owner of a mutex dies, and processes end      *)
(* alone (FinLimpio): whatever the order of schedulers, timer, handlers and *)
(* memoria's answers, every thread of an admitted process is queued,        *)
(* running, or in the hands of an actor that will queue it or free it.      *)
THEOREM KernelNingunHiloPerdido ==
    ASSUME SinCancelar
    PROVE  Spec /\ []EnOrden /\ []FinLimpio => []NingunHiloPerdido
<1>1. Init => Ubicados
  BY InitUbicados
<1>2. Sano /\ Sano' /\ EnOrden /\ FinLimpio /\ Ubicados /\ [Next]_vars => Ubicados'
  BY NextUbicados DEF FinLimpio
<1>3. Sano /\ Ubicados => NingunHiloPerdido
  <2> SUFFICES ASSUME Sano, Ubicados, fallo = "ninguno", NEW p \in Vivos \ ToSet(cola_new),
                      NEW h \in Suyos(p)
               PROVE  \/ h \in ToSet(cola_ready) \cup ToSet(cola_blocked)
                      \/ hilo_en_exec = h \/ EnTransito(h)
    BY DEF NingunHiloPerdido, Vivos, Suyos
  <2>1. h[1] = p /\ CP \in Actores
    BY SuHilo, ActoresDistintos DEF Sano, Vida
  <2>2. CASE Terminando(p)
    BY <2>1, <2>2 DEF Terminando, EnTransito
  <2>3. CASE Ubicado(h)
    BY <2>1, <2>3 DEF Ubicado, EnColas, Elegidos, Limbo, EnTransito
  <2> QED BY <2>2, <2>3 DEF Ubicados
<1>4. Spec /\ []EnOrden => []Sano
  BY SpecSano
<1> QED BY <1>1, <1>2, <1>3, <1>4, PTL DEF Spec

-----------------------------------------------------------------------------
(* Whoever is somewhere, or is being created or admitted, is in the list   *)
(* of its process.                                                         *)

Presentes ==
    Activos \cup {h \in Hilos : \/ pc[CP] = "crear_hilo" /\ loc[CP].hilo = h
                                \/ Admitiendo /\ loc[LP].hilo = h}

Propios ==
    \A h \in Presentes : h[1] \in Vivos /\ ~Borrando(h[1]) => h \in Suyos(h[1])

\* The thread LP is admitting is number 0 of a process of cola_new.
LEMMA AdmiteDeNew ==
    ASSUME IInv, Lugares, Admitiendo, loc[LP].hilo \in Hilos
    PROVE  \E p \in ToSet(cola_new) : loc[LP].hilo = <<p, 0>>
<1>1. loc[LP].proceso \in ToSet(cola_new)
  <2>1. cola_new \in Seq(Pids) /\ Len(cola_new) = sem_new + 1 /\ sem_new \in Nat
        /\ loc[LP].proceso = cola_new[1]
    BY DEF Admitiendo, IInv, TypeOK, TipoNuevos, SemNewCuenta, LPTieneCabeza
  <2> QED BY <2>1, LenProperties DEF ToSet
<1> QED BY <1>1, ActoresDistintos DEF Lugares, LPAdmite

LEMMA PresentesVistos ==
    ASSUME IInv, Lugares, NEW h \in Presentes
    PROVE  h \in Hilos /\ h[2] < tid_contador[h[1]]
<1>1. CASE h \in Activos
  <2>1. h \in Hilos /\ h \in Ocupados
    BY <1>1, LugarListas
    DEF IInv, TypeOK, Activos, Ocupados, Elegidos, EnManos, Manos, Esperan, Atendidos
  <2> QED BY <2>1 DEF Lugares, Vistos, Visto
<1>2. CASE h \in Hilos /\ pc[CP] = "crear_hilo" /\ loc[CP].hilo = h
  BY <1>2, ActoresDistintos DEF Lugares, Creando
<1>3. CASE h \in Hilos /\ Admitiendo /\ loc[LP].hilo = h
  BY <1>3, AdmiteDeNew DEF Lugares, Dados
<1> QED BY <1>1, <1>2, <1>3 DEF Presentes

LEMMA PropiosSigue ==
    ASSUME Propios, BorrandoSigue,
           \A h \in Presentes : h[1] \in Vivos' => h[1] \in Vivos,
           \A h \in Presentes' \ Presentes :
               h[1] \in Vivos' /\ ~Borrando(h[1])' => h \in Suyos(h[1])',
           \A h \in Presentes \cap Presentes' :
               h \in Suyos(h[1]) =>
                   h \in Suyos(h[1])' \/ h[1] \notin Vivos' \/ Borrando(h[1])'
    PROVE  Propios'
  BY DEF Propios, BorrandoSigue

LEMMA QuietoPropios ==
    ASSUME Propios, Quieto
    PROVE  Propios'
<1>1. UNCHANGED <<procesos_en_sistema, threads>> /\ Activos' \subseteq Activos
  BY DEF Quieto, Mapa
<1>2. \A a \in Actores : EnSalida(a)' <=> EnSalida(a)
  BY VidaIgual DEF Quieto
<1>3. \A a \in Actores : EnSalida(a) =>
          /\ loc'[a].proceso = loc[a].proceso
          /\ pc'[a] = "fin_proceso" <=> pc[a] = "fin_proceso"
  BY VidaIgual DEF Quieto
<1>4. pc'[CP] = "crear_hilo" => pc[CP] = "crear_hilo" /\ loc'[CP].hilo = loc[CP].hilo
  BY VidaIgual, ActoresDistintos DEF Quieto
<1>5. Admitiendo' => Admitiendo /\ loc'[LP].hilo = loc[LP].hilo
  BY VidaIgual, ActoresDistintos DEF Quieto, Admitiendo
<1>6. \A p : Borrando(p)' <=> Borrando(p)
  BY <1>2, <1>3 DEF Borrando
<1>7. Presentes' \subseteq Presentes
  BY <1>1, <1>4, <1>5 DEF Presentes
<1> QED BY <1>1, <1>6, <1>7 DEF Propios, Vivos, Suyos

\* What liberar_pcb and liberar_hilo do when they move no thread: who leaves the
\* list of its process does it with its process, or is what CP frees on its own.
Efecto(a) ==
    /\ SoloMueve(a) /\ UNCHANGED <<colas, mutex, cola_new, tid_contador>> /\ EnSalida(a)
    /\ pc'[a] \in Salidas \cup {"fin", "cambio", "inicio", "no"}
    /\ Vivos' \subseteq Vivos /\ BorrandoSigue
    /\ \A q \in Vivos' \ ToSet(cola_new') : q = loc[a].proceso => Terminando(q)'
    /\ \A p \in Pids : \A h \in Suyos(p) :
          \/ h \in Suyos(p)' \/ p \notin Vivos' \/ Borrando(p)'
          \/ /\ a = CP /\ pc'[CP] = "joins"
             /\ loc'[CP].hilo = h /\ loc'[CP].dueno = p /\ loc'[CP].proceso = NULO

LEMMA FinProcesoEfecto ==
    ASSUME IInv, Vida, NEW a \in Actores, FinProceso(a), UNCHANGED <<creados, nuevos>>
    PROVE  Efecto(a)
<1>1. PICK p \in Pids : p = loc[a].proceso /\ pc[a] = "fin_proceso"
  BY PunteroPCB DEF FinProceso, EnPaso, IInv
<1> DEFINE suyos == {h \in mem : h[1] = p}
<1>2. /\ UNCHANGED <<colas, procesos_en_sistema, threads, cola_new>> /\ EnSalida(a)
      /\ UNCHANGED <<mutex, tid_contador>>
      /\ loc' = [loc EXCEPT ![a] = [@ EXCEPT !.i = 1, !.j = 1]]
      /\ Va(a, IF suyos = {} THEN loc[a].sigue ELSE "desencola")
  BY <1>1 DEF FinProceso, procesos, nuevos, creados, EnSalida
<1>3. /\ SoloMueve(a) /\ pc'[a] = (IF suyos = {} THEN loc[a].sigue ELSE "desencola")
      /\ loc'[a].proceso = p
  <2>1. SoloMueve(a) /\ pc'[a] = (IF suyos = {} THEN loc[a].sigue ELSE "desencola")
    BY <1>2, SoloVa
  <2> QED BY <1>1, <1>2, <2>1 DEF IInv, TypeOK, TipoActores, Locales
<1>4. loc[a].sigue \in {"fin", "cambio", "inicio", "no"}
  BY LocTipo DEF IInv, TypeOK
<1>5. ASSUME p \in Vivos \ ToSet(cola_new) PROVE Terminando(p)'
  <2>1. CASE suyos # {}
    BY <1>3, <2>1 DEF Terminando, EnSalida
  <2>2. CASE suyos = {}
    <3>1. <<p, 0>> \notin mem
      BY <2>2
    <3>2. Borrando(p)
      BY <1>5, <3>1 DEF Vida, ConContexto
    <3> QED BY <1>1, <1>3, <3>2 DEF Borrando, Terminando, SoloMueve, EnSalida
  <2> QED BY <2>1, <2>2
<1>6. /\ Vivos' = Vivos /\ \A q \in Pids : Suyos(q)' = Suyos(q)
      /\ pc'[a] \in Salidas \cup {"fin", "cambio", "inicio", "no"}
  BY <1>2, <1>3, <1>4 DEF Vivos, Suyos, Salidas
<1> HIDE DEF suyos
<1>7. BorrandoSigue
  BY <1>1, <1>3, DeActor
<1> QED BY <1>1, <1>2, <1>3, <1>5, <1>6, <1>7 DEF Efecto

LEMMA LiberarPcbEfecto ==
    ASSUME IInv, Vida, NEW a \in Actores, LiberarPcb(a), UNCHANGED <<creados, nuevos>>
    PROVE  Efecto(a)
<1>1. PICK p \in Pids : p = loc[a].proceso /\ pc[a] = "libera"
  BY PunteroPCB DEF LiberarPcb, EnPaso, IInv
<1>2. /\ UNCHANGED <<colas, mutex, cola_new, tid_contador>> /\ EnSalida(a)
      /\ CP \in Actores
  BY <1>1, ActoresDistintos DEF LiberarPcb, nuevos, creados, EnSalida
<1>3. /\ threads \in [Pids -> Seq(Hilos)] /\ threads[p] \in Seq(Hilos)
      /\ procesos_en_sistema \in Seq(Pids) /\ SinDobles(procesos_en_sistema)
  BY TiposDeCreados DEF Vida, HilosDe
<1>4. CASE loc[a].i <= Len(threads[p])
  <2>1. PICK h : h = threads[p][loc[a].i]
    OBVIOUS
  <2>2. /\ threads' = [threads EXCEPT ![p] = RemoveFirst(@, h)]
        /\ UNCHANGED procesos_en_sistema /\ Va(a, "libera_hilo")
        /\ loc' = [loc EXCEPT ![a] = [@ EXCEPT !.hilo = h, !.i = loc[a].i + 1]]
    BY <1>1, <1>4, <2>1 DEF LiberarPcb
  <2>3. SoloMueve(a) /\ pc'[a] = "libera_hilo" /\ loc'[a].proceso = p
    <3>1. SoloMueve(a) /\ pc'[a] = "libera_hilo"
      BY <2>2, SoloVa
    <3> QED BY <1>1, <2>2, <3>1 DEF IInv, TypeOK, TipoActores, Locales
  <2>4. Vivos' = Vivos /\ \A q \in Pids : q # p => Suyos(q)' = Suyos(q)
    BY <1>3, <2>2 DEF Vivos, Suyos
  <2>5. Borrando(p)' /\ Terminando(p)'
    BY <2>3 DEF EnSalida, Terminando, Borrando
  <2>6. BorrandoSigue
    <3>1. EnSalida(a)' /\ pc'[a] # "fin_proceso" /\ loc'[a].proceso = loc[a].proceso
      BY <1>1, <2>3 DEF EnSalida
    <3> QED BY <2>3, <3>1, DeActor
  <2>7. pc'[a] \in Salidas /\ \A q \in Pids : \A g \in Suyos(q) : g \in Suyos(q)' \/ Borrando(q)'
    BY <2>3, <2>4, <2>5 DEF Salidas
  <2> QED BY <1>1, <1>2, <2>3, <2>4, <2>5, <2>6, <2>7 DEF Efecto
<1>5. CASE ~(loc[a].i <= Len(threads[p]))
  <2>1. /\ procesos_en_sistema' = RemoveFirst(procesos_en_sistema, p)
        /\ Va(a, loc[a].sigue) /\ UNCHANGED <<threads, loc>>
    BY <1>1, <1>5 DEF LiberarPcb
  <2>2. SoloMueve(a) /\ pc'[a] \in {"fin", "cambio", "inicio", "no"}
    BY <2>1, SoloVa, LocTipo DEF IInv, TypeOK
  <2>3. Vivos' = Vivos \ {p} /\ \A q \in Pids : Suyos(q)' = Suyos(q)
    BY <1>3, <2>1, QuitarElementoUnico DEF Vivos, Suyos
  <2>4. BorrandoSigue
    BY <1>1, <2>2, <2>3, DeActor
  <2> QED BY <1>1, <1>2, <2>2, <2>3, <2>4 DEF Efecto
<1> QED BY <1>4, <1>5

LEMMA LiberarHiloEfecto ==
    ASSUME IInv, Vida, NEW a \in Actores, LiberarHilo(a), UNCHANGED <<creados, nuevos>>
    PROVE  Efecto(a)
<1>1. PICK h \in Hilos : h = loc[a].hilo /\ pc[a] = "libera_hilo"
  BY PunteroTCB DEF LiberarHilo, EnPaso, IInv
<1>2. BuscarProceso(h[1]) \in Pids \cup {NULO}
  BY BuscarProcesoTipo DEF IInv, TypeOK
<1>3. PICK p \in Pids \cup {NULO} : p = BuscarProceso(h[1])
  BY <1>2
<1>4. /\ UNCHANGED <<colas, mutex, cola_new, tid_contador, procesos_en_sistema>>
      /\ Va(a, "joins") /\ EnSalida(a) /\ CP \in Actores
      /\ threads' = IF p = NULO THEN threads ELSE [threads EXCEPT ![p] = RemoveFirst(@, h)]
      /\ loc' = [loc EXCEPT ![a] = [@ EXCEPT !.dueno = p, !.j = 1]]
  BY <1>1, <1>3, ActoresDistintos DEF LiberarHilo, EnPaso, nuevos, creados, EnSalida
<1>5. /\ SoloMueve(a) /\ pc'[a] = "joins" /\ loc'[a].hilo = h /\ loc'[a].dueno = p
      /\ loc'[a].proceso = loc[a].proceso
  <2>1. SoloMueve(a) /\ pc'[a] = "joins"
    BY <1>4, SoloVa
  <2> QED BY <1>1, <1>4, <2>1 DEF IInv, TypeOK, TipoActores, Locales
<1>6. Terminando(loc[a].proceso)' /\ Borrando(loc[a].proceso)' /\ Vivos' = Vivos
  BY <1>4, <1>5 DEF Terminando, Borrando, EnSalida, Vivos
<1>7. BorrandoSigue
  <2>1. EnSalida(a)' /\ pc'[a] # "fin_proceso" /\ loc'[a].proceso = loc[a].proceso
    BY <1>5 DEF EnSalida
  <2> QED BY <1>5, <2>1, DeActor
<1>8. ASSUME NEW q \in Pids, NEW g \in Suyos(q), g \notin Suyos(q)', q \in Vivos
      PROVE  q = p /\ g = h
  <2>1. p = q
    BY <1>4, <1>8, TiposDeCreados DEF Suyos
  <2>2. threads[p] \in Seq(Hilos) /\ SinDobles(threads[p]) /\ threads'[p] = RemoveFirst(threads[p], h)
    BY <1>4, <1>8, <2>1, TiposDeCreados, ActoresDistintos DEF Vida, HilosDe
  <2>3. Suyos(p)' = Suyos(p) \ {h}
    BY <2>2, QuitarElementoUnico DEF Suyos
  <2> QED BY <1>8, <2>1, <2>3
<1>9. ASSUME NEW q \in Pids, NEW g \in Suyos(q), g \notin Suyos(q)', q \in Vivos
      PROVE  \/ loc[a].proceso = q
             \/ a = CP /\ loc'[CP].hilo = g /\ loc'[CP].dueno = q /\ loc'[CP].proceso = NULO
  <2>1. q = p /\ g = h /\ h[1] = q
    BY <1>8, <1>9 DEF Vida, HilosDe
  <2>2. loc[a].proceso = h[1] \/ (a = CP /\ loc[a].proceso = NULO)
    BY <1>1, <1>4, <1>9, <2>1 DEF Vida, SalientesSuyos, Saliente
  <2> QED BY <1>5, <2>1, <2>2
<1>10. \A q \in Pids : \A g \in Suyos(q) :
          \/ g \in Suyos(q)' \/ q \notin Vivos' \/ Borrando(q)'
          \/ /\ a = CP /\ pc'[CP] = "joins"
             /\ loc'[CP].hilo = g /\ loc'[CP].dueno = q /\ loc'[CP].proceso = NULO
  BY <1>5, <1>6, <1>9
<1> QED BY <1>4, <1>5, <1>6, <1>7, <1>10 DEF Efecto, Salidas

LEMMA HeredarMutexEfecto ==
    ASSUME IInv, NEW a \in Actores, HeredarMutex(a),
           ~(loc[a].dueno # NULO /\ loc[a].j <= Len(mutex[loc[a].dueno])),
           UNCHANGED <<creados, nuevos>>
    PROVE  Efecto(a)
<1>1. /\ pc[a] = "mutex" /\ EnSalida(a) /\ UNCHANGED <<colas, mutex, loc, threads>>
      /\ UNCHANGED <<procesos_en_sistema, cola_new, tid_contador>>
      /\ Va(a, IF loc[a].proceso = NULO THEN loc[a].sigue ELSE "libera")
  BY DEF HeredarMutex, EnPaso, EnSalida, nuevos, creados
<1>2. PICK q : q = loc[a].proceso
  OBVIOUS
<1>3. SoloMueve(a) /\ loc'[a] = loc[a] /\ pc'[a] = (IF q = NULO THEN loc[a].sigue ELSE "libera")
  BY <1>1, <1>2, SoloVa
<1>4. pc'[a] \in {"fin", "cambio", "inicio", "no", "libera"}
  BY <1>3, LocTipo DEF IInv, TypeOK
<1>5. Vivos' = Vivos /\ \A p \in Pids : Suyos(p)' = Suyos(p)
  BY <1>1 DEF Vivos, Suyos
<1>6. NULO \notin Vivos'
  BY <1>5, TiposDeCreados, ConstantesKernel DEF Vivos
<1>7. q # NULO => EnSalida(a)' /\ pc'[a] # "fin_proceso" /\ loc'[a].proceso = q
  BY <1>2, <1>3 DEF EnSalida
<1>8. BorrandoSigue
  BY <1>2, <1>3, <1>6, <1>7, DeActor
<1>9. q \in Vivos' \ ToSet(cola_new') => Terminando(q)'
  BY <1>6, <1>7 DEF Terminando
<1> QED BY <1>1, <1>2, <1>3, <1>4, <1>5, <1>8, <1>9 DEF Efecto, Salidas

LEMMA Suelta1Efecto ==
    ASSUME IInv, Vida, NEW a \in Actores, Suelta1(a), UNCHANGED <<creados, nuevos>>
    PROVE  Efecto(a)
  BY FinProcesoEfecto, LiberarPcbEfecto, LiberarHiloEfecto, HeredarMutexEfecto DEF Suelta1

LEMMA EfectoActivos ==
    ASSUME NEW a \in Actores, Efecto(a)
    PROVE  /\ Activos' \subseteq Activos
           /\ pc'[CP] = "crear_hilo" => pc[CP] = "crear_hilo" /\ loc'[CP] = loc[CP]
           /\ Admitiendo' => Admitiendo /\ loc'[LP] = loc[LP]
<1>1. EnManos' \subseteq EnManos
  BY ManosSiguen DEF Efecto, Salidas, Manos
<1>2. EnColas' = EnColas /\ Esperan' = Esperan
  BY DEF Efecto, EnColas, Esperan, colas
<1>3. Elegidos' \subseteq Elegidos
  BY ActoresDistintos DEF Efecto, Salidas, Elegidos, SoloMueve
<1>4. /\ pc'[CP] = "crear_hilo" => pc[CP] = "crear_hilo" /\ loc'[CP] = loc[CP]
      /\ Admitiendo' => Admitiendo /\ loc'[LP] = loc[LP]
  BY ActoresDistintos DEF Efecto, Salidas, SoloMueve, Admitiendo
<1> QED BY <1>1, <1>2, <1>3, <1>4 DEF Activos

LEMMA EfectoPropios ==
    ASSUME IInv, Lugares, Vida', Propios, NEW a \in Actores, Efecto(a)
    PROVE  Propios'
<1>1. Presentes' \subseteq Presentes
  BY EfectoActivos DEF Presentes
<1>2. ASSUME NEW h \in Presentes', h \in Suyos(h[1]), h \notin Suyos(h[1])',
             h[1] \in Vivos', ~Borrando(h[1])'
      PROVE  FALSE
  <2>0. h \in Hilos /\ h[1] \in Pids
    BY <1>1, PresentesVistos, Pares
  <2>1. /\ a = CP /\ pc'[CP] = "joins"
        /\ loc'[CP].hilo = h /\ loc'[CP].proceso = NULO
    BY <1>2, <2>0 DEF Efecto
  <2>2. h \notin Activos' /\ h[1] \notin ToSet(cola_new)
    BY <2>0, <2>1 DEF Vida, SueltoFuera, EnSalida, Visto, Efecto
  <2>3. Admitiendo' /\ loc'[LP].hilo = h
    BY <2>1, <2>2 DEF Presentes
  <2>4. Admitiendo /\ loc[LP].hilo = h
    BY <2>3, EfectoActivos
  <2> QED BY <2>0, <2>2, <2>4, AdmiteDeNew
<1>3. Vivos' \subseteq Vivos /\ BorrandoSigue
  BY DEF Efecto
<1> QED BY <1>1, <1>2, <1>3, PropiosSigue

\* What the steps that bring threads and processes in, or begin to take them out, do.
Ajeno(a) ==
    /\ SoloMueve(a) /\ ~EnSalida(a) /\ UNCHANGED mutex
    /\ \A p \in Pids :
          /\ Suyos(p) \subseteq Suyos(p)'
          /\ tid_contador[p] # 0 =>
                /\ tid_contador'[p] # 0
                /\ p \in Vivos' => p \in Vivos
                /\ p \in ToSet(cola_new') => p \in ToSet(cola_new)
    /\ \A h \in Presentes' \ Presentes : h \in Suyos(h[1])'

LEMMA AjenoPropios ==
    ASSUME IInv, Lugares, Propios, NEW a \in Actores, Ajeno(a)
    PROVE  Propios'
<1>1. BorrandoSigue
  BY DeActor DEF Ajeno
<1>2. \A h \in Presentes : h \in Hilos /\ h[1] \in Pids /\ tid_contador[h[1]] # 0
  <2> SUFFICES ASSUME NEW h \in Presentes
               PROVE  h \in Hilos /\ h[1] \in Pids /\ tid_contador[h[1]] # 0
    OBVIOUS
  <2>1. h \in Hilos /\ h[2] < tid_contador[h[1]]
    BY PresentesVistos
  <2> QED BY <2>1, TiposDeCreados
<1>3. /\ \A h \in Presentes : h[1] \in Vivos' => h[1] \in Vivos
      /\ \A h \in Presentes : h \in Suyos(h[1]) => h \in Suyos(h[1])'
  BY <1>2 DEF Ajeno
<1>4. \A h \in Presentes' \ Presentes : h \in Suyos(h[1])'
  BY DEF Ajeno
<1> QED BY <1>1, <1>3, <1>4, PropiosSigue

LEMMA PasoPresentes ==
    ASSUME NEW a \in Actores, SoloMueve(a), UNCHANGED mutex,
           pc'[a] \notin Manos \cup {"saca", "crear_hilo", "crear_proceso", "responde"},
           EnColas' \subseteq Presentes
    PROVE  Presentes' \subseteq Presentes
<1>1. EnManos' \subseteq EnManos
  BY ManosSiguen
<1>2. Esperan' = Esperan
  BY DEF Esperan
<1>3. /\ Elegidos' \subseteq Elegidos
      /\ pc'[CP] = "crear_hilo" => pc[CP] = "crear_hilo" /\ loc'[CP] = loc[CP]
      /\ Admitiendo' => Admitiendo /\ loc'[LP] = loc[LP]
  BY ActoresDistintos DEF Elegidos, SoloMueve, Admitiendo
<1> QED BY <1>1, <1>2, <1>3 DEF Presentes, Activos

\* Without new threads or processes.
LEMMA AjenoIgual ==
    ASSUME NEW a \in Actores, SoloMueve(a), ~EnSalida(a), UNCHANGED <<creados, procesos>>,
           ToSet(cola_new') \subseteq ToSet(cola_new),
           \A h \in Presentes' \ Presentes : h \in Suyos(h[1])
    PROVE  Ajeno(a)
<1>1. UNCHANGED <<mutex, tid_contador>> /\ Vivos' = Vivos /\ \A p : Suyos(p)' = Suyos(p)
  BY DEF creados, procesos, Vivos, Suyos
<1> QED BY <1>1 DEF Ajeno

LEMMA SaleAjeno ==
    ASSUME IInv, Lugares, NEW a \in Actores, NEW h \in Hilos, NEW e, ~EnSalida(a),
           SalirProceso(a, h, e), UNCHANGED <<creados, procesos, cola_new>>
    PROVE  Ajeno(a)
<1> DEFINE l == [loc[a] EXCEPT !.hilo = h, !.sigue = e, !.proceso = BuscarProceso(h[1])]
<1>1. loc' = [loc EXCEPT ![a] = l] /\ Va(a, "fin_proceso") /\ Desencolar(h)
  BY DEF SalirProceso
<1> HIDE DEF l
<1>2. SoloMueve(a) /\ pc'[a] = "fin_proceso"
  BY <1>1, SoloVa
<1>3. EnColas' \subseteq Presentes
  BY <1>1, EfectoDesencolar DEF IInv, TypeOK, Lugares, Presentes, Activos
<1>4. UNCHANGED mutex
  BY DEF procesos
<1>5. Presentes' \subseteq Presentes
  BY <1>2, <1>3, <1>4, PasoPresentes DEF Manos
<1> QED BY <1>2, <1>5, AjenoIgual

LEMMA IniciarProcesoAjeno ==
    ASSUME IInv, Lugares, EnSyscall, NEW s, IniciarProceso(s)
    PROVE  Ajeno(CP)
<1>0. pid_counter \in Pids
  BY ConstantesKernel DEF IniciarProceso, IInv, TypeOK, TipoCreados, Pids
<1>1. PICK p \in Pids :
      /\ p = pid_counter /\ procesos_en_sistema' = Append(procesos_en_sistema, p)
      /\ cola_new' = Append(cola_new, p) /\ tid_contador[p] < MaxTid
      /\ threads' = [threads EXCEPT ![p] = Append(@, <<p, tid_contador[p]>>)]
      /\ tid_contador' = [tid_contador EXCEPT ![p] = @ + 1]
      /\ UNCHANGED <<colas, mutex, loc>> /\ Va(CP, "cambio") /\ pc[CP] = "cpu"
  BY <1>0 DEF IniciarProceso, TcbNuevo, EnSyscall
<1>2. SoloMueve(CP) /\ pc'[CP] = "cambio" /\ CP \in Actores /\ ~EnSalida(CP)
  BY <1>1, SoloVa, ActoresDistintos DEF EnSalida
<1>3. /\ procesos_en_sistema \in Seq(Pids) /\ cola_new \in Seq(Pids)
      /\ threads \in [Pids -> Seq(Hilos)] /\ tid_contador \in [Pids -> 0..MaxTid]
      /\ Pids \subseteq Nat /\ \A q \in Pids : tid_contador[q] \in Nat
  BY TiposDeCreados
<1>4. Vivos' = Vivos \cup {p} /\ ToSet(cola_new') = ToSet(cola_new) \cup {p}
  BY <1>1, <1>3, AgregarElemento DEF Vivos
<1>5. tid_contador[p] = 0
  BY <1>1, <1>3 DEF Lugares, Dados
<1>6. \A q \in Pids : tid_contador[q] # 0 => tid_contador'[q] # 0 /\ q # p
  BY <1>1, <1>3, <1>5
<1>7. <<p, tid_contador[p]>> \in Hilos
  <2>1. tid_contador[p] \in Tids
    BY <1>1, <1>3, ConstantesKernel DEF Tids
  <2> QED BY <2>1, Pares
<1>8. \A q \in Pids : Suyos(q) \subseteq Suyos(q)'
  <2>1. PICK h \in Hilos : h = <<p, tid_contador[p]>>
    BY <1>7
  <2>2. threads[p] \in Seq(Hilos) /\ threads'[p] = Append(threads[p], h)
        /\ \A q \in Pids : q # p => threads'[q] = threads[q]
    BY <1>1, <1>3, <2>1
  <2>3. Suyos(p)' = Suyos(p) \cup {h} /\ \A q \in Pids : q # p => Suyos(q)' = Suyos(q)
    BY <2>2, AgregarElemento DEF Suyos
  <2> QED BY <2>3
<1>9. Presentes' \subseteq Presentes
  <2>1. EnColas' \subseteq Presentes
    BY <1>1 DEF EnColas, colas, Presentes, Activos
  <2> QED BY <1>1, <1>2, <2>1, PasoPresentes DEF Manos
<1> QED BY <1>1, <1>2, <1>4, <1>6, <1>8, <1>9 DEF Ajeno

LEMMA ThreadCreateAjeno ==
    ASSUME IInv, EnSyscall, NEW s, ThreadCreate(s)
    PROVE  Ajeno(CP)
<1>1. PICK p \in Pids :
      /\ pc[CP] = "cpu" /\ UNCHANGED <<colas, mutex, cola_new>>
      /\ UNCHANGED procesos_en_sistema /\ tid_contador[p] < MaxTid
      /\ threads' = [threads EXCEPT ![p] = Append(@, <<p, tid_contador[p]>>)]
      /\ tid_contador' = [tid_contador EXCEPT ![p] = @ + 1]
      /\ loc' = [loc EXCEPT ![CP] = [@ EXCEPT !.hilo = <<p, tid_contador[p]>>]]
      /\ Va(CP, "crear_hilo")
  BY DEF ThreadCreate, TcbNuevo, EnSyscall, nuevos
<1>2. /\ tid_contador \in [Pids -> 0..MaxTid] /\ threads \in [Pids -> Seq(Hilos)]
      /\ \A q \in Pids : tid_contador[q] \in Nat
  BY TiposDeCreados
<1>3. <<p, tid_contador[p]>> \in Hilos
  <2>1. tid_contador[p] \in Tids
    BY <1>1, <1>2, ConstantesKernel DEF Tids
  <2> QED BY <2>1, Pares
<1>4. PICK h \in Hilos : h = <<p, tid_contador[p]>> /\ h[1] = p
  BY <1>3
<1>5. SoloMueve(CP) /\ pc'[CP] = "crear_hilo" /\ CP \in Actores /\ loc'[CP].hilo = h
  <2>1. SoloMueve(CP) /\ pc'[CP] = "crear_hilo" /\ CP \in Actores
    BY <1>1, SoloVa, ActoresDistintos
  <2> QED BY <1>1, <1>4, <2>1 DEF IInv, TypeOK, TipoActores, Locales
<1>6. Suyos(p)' = Suyos(p) \cup {h} /\ \A q \in Pids : q # p => Suyos(q)' = Suyos(q)
  <2>1. threads[p] \in Seq(Hilos) /\ threads'[p] = Append(threads[p], h)
        /\ \A q \in Pids : q # p => threads'[q] = threads[q]
    BY <1>1, <1>2, <1>4
  <2> QED BY <2>1, AgregarElemento DEF Suyos
<1>7. \A q \in Pids : tid_contador[q] # 0 => tid_contador'[q] # 0
  BY <1>1, <1>2
<1>8. Presentes' \subseteq Presentes \cup {h}
  <2>1. EnManos' \subseteq EnManos /\ EnColas' = EnColas /\ Esperan' = Esperan
    BY <1>1, <1>5, ManosSiguen DEF Manos, EnColas, Esperan, colas
  <2>2. Elegidos' = {} /\ Admitiendo' = Admitiendo /\ loc'[LP] = loc[LP]
    BY <1>5, SinSaca, ActoresDistintos DEF SoloMueve, Admitiendo
  <2> QED BY <1>5, <2>1, <2>2 DEF Presentes, Activos
<1>9. ~EnSalida(CP) /\ Vivos' = Vivos
  BY <1>1 DEF EnSalida, Vivos
<1> QED BY <1>1, <1>4, <1>5, <1>6, <1>7, <1>8, <1>9 DEF Ajeno

LEMMA AlteraAjeno ==
    ASSUME IInv, Lugares, Altera
    PROVE  Ajeno(CP)
<1>1. EnSyscall
  BY DEF Altera
<1>3. ASSUME NEW s, ProcessExit(s) PROVE Ajeno(CP)
  <2>1. /\ SalirProceso(CP, hilo_en_exec, "fin") /\ CP \in Actores /\ ~EnSalida(CP)
        /\ UNCHANGED <<creados, procesos, cola_new>> /\ hilo_en_exec \in Hilos
    BY <1>1, <1>3, ActoresDistintos DEF ProcessExit, EnSyscall, EnSalida, nuevos
  <2> QED BY <2>1, SaleAjeno
<1>4. ASSUME NEW s, ThreadExit(s), hilo_en_exec[2] # 0 PROVE Ajeno(CP)
  <2>1. PICK h \in Hilos :
        /\ h = hilo_en_exec /\ Desencolar(h) /\ Va(CP, "fin_hilo") /\ CP \in Actores
        /\ loc' = [loc EXCEPT ![CP] = [@ EXCEPT !.hilo = h]] /\ ~EnSalida(CP)
        /\ UNCHANGED <<creados, procesos, mutex, cola_new>>
    BY <1>1, <1>4, ActoresDistintos DEF EnSyscall, ThreadExit, procesos, nuevos, EnSalida
  <2>2. SoloMueve(CP) /\ pc'[CP] = "fin_hilo"
    BY <2>1, SoloVa
  <2>3. EnColas' \subseteq Presentes
    BY <2>1, EfectoDesencolar DEF IInv, TypeOK, Lugares, Presentes, Activos
  <2>4. Presentes' \subseteq Presentes
    BY <2>1, <2>2, <2>3, PasoPresentes DEF Manos
  <2> QED BY <2>1, <2>2, <2>4, AjenoIgual
<1> QED BY <1>1, <1>3, <1>4, IniciarProcesoAjeno, ThreadCreateAjeno DEF Altera

LEMMA PideAjeno ==
    ASSUME IInv, Lugares, PideAMemoria, FinDeOtro, UNCHANGED <<creados, procesos, nuevos>>
    PROVE  Ajeno(CP)
<1>0. UNCHANGED <<cola_new, mutex>> /\ CP \in Actores
  BY ActoresDistintos DEF nuevos, procesos
<1>1. CASE CrearHilo
  <2>1. PICK h \in Hilos : h = loc[CP].hilo /\ pc[CP] = "crear_hilo"
    BY <1>1, PunteroTCB, ActoresDistintos DEF IInv, CrearHilo, EnPaso
  <2>2. ~EnSalida(CP)
    BY <2>1 DEF EnSalida
  <2>3. CASE archivo[h] \in Existe
    <3>1. EncolarEnReady(h) /\ Va(CP, "cambio") /\ UNCHANGED loc
      BY <1>1, <2>1, <2>3 DEF CrearHilo
    <3>2. SoloMueve(CP) /\ pc'[CP] = "cambio"
      BY <1>0, <3>1, SoloVa
    <3>3. EnColas' = EnColas \cup {h}
      BY <3>1, EfectoEncolar DEF IInv, TypeOK
    <3>4. EnColas' \subseteq Presentes
      BY <2>1, <3>3 DEF Presentes, Activos
    <3>5. Presentes' \subseteq Presentes
      BY <1>0, <3>2, <3>4, PasoPresentes DEF Manos
    <3> QED BY <1>0, <2>2, <3>2, <3>5, AjenoIgual
  <2>4. CASE archivo[h] \notin Existe
    <3>1. SalirProceso(CP, h, "cambio")
      BY <1>1, <2>1, <2>4 DEF CrearHilo
    <3> QED BY <1>0, <2>2, <3>1, SaleAjeno
  <2> QED BY <2>3, <2>4
<1>2. CASE FinHilo
  <2>1. /\ pc[CP] = "fin_hilo" /\ UNCHANGED colas /\ ~EnSalida(CP)
        /\ Va(CP, IF loc[CP].hilo \in mem THEN "libera_hilo" ELSE "fin")
        /\ loc' = [loc EXCEPT ![CP] = [@ EXCEPT !.proceso = NULO, !.sigue = "fin"]]
    BY <1>2 DEF FinHilo, EnPaso, FinDeOtro, EnSalida
  <2>2. SoloMueve(CP) /\ pc'[CP] \in {"libera_hilo", "fin"}
    BY <1>0, <2>1, SoloVa
  <2>3. EnColas' \subseteq Presentes
    BY <2>1 DEF EnColas, colas, Presentes, Activos
  <2>4. Presentes' \subseteq Presentes
    BY <1>0, <2>2, <2>3, PasoPresentes DEF Manos
  <2> QED BY <1>0, <2>1, <2>2, <2>4, AjenoIgual
<1> QED BY <1>1, <1>2 DEF PideAMemoria

LEMMA AdmiteAjeno ==
    ASSUME IInv, Lugares, HilosDe, Admite, UNCHANGED <<creados, procesos>>
    PROVE  Ajeno(LP)
<1>0. UNCHANGED mutex /\ LP \in Actores
  BY ActoresDistintos DEF procesos
<1>1. CASE TomarNuevo
  <2> DEFINE p == cola_new[1]
             h == IF threads[p] = <<>> THEN NULO ELSE threads[p][1]
             l == [loc[LP] EXCEPT !.proceso = p, !.hilo = h]
  <2>1. /\ pc[LP] = "sem_new" /\ loc' = [loc EXCEPT ![LP] = l] /\ Va(LP, "crear_proceso")
        /\ UNCHANGED <<colas, cola_new>> /\ sem_new > 0
    BY <1>1 DEF TomarNuevo, EnPaso
  <2>2. l.hilo = h
    BY <1>0, LocTipo DEF IInv, TypeOK, Locales
  <2>3. p \in Pids
    <3>1. cola_new \in Seq(Pids) /\ Len(cola_new) > 0
      BY <2>1 DEF IInv, TypeOK, TipoNuevos, SemNewCuenta
    <3> QED BY <3>1, ElementosDeLista, EmptySeq
  <2>4. h \in Hilos => h \in Suyos(p) /\ h[1] = p
    <3>1. threads[p] \in Seq(Hilos)
      BY <2>3, TiposDeCreados
    <3>2. threads[p] # <<>> => threads[p][1] \in ToSet(threads[p])
      BY <3>1, LenProperties, EmptySeq DEF ToSet
    <3> QED BY <2>3, <3>2, ActoresDistintos DEF HilosDe, Suyos
  <2> HIDE DEF l, h, p
  <2>5. SoloMueve(LP) /\ ~EnSalida(LP) /\ loc'[LP].hilo = h /\ pc'[LP] = "crear_proceso"
    <3>1. SoloMueve(LP) /\ ~EnSalida(LP) /\ pc'[LP] = "crear_proceso"
      BY <1>0, <2>1, SoloVa DEF EnSalida
    <3> QED BY <1>0, <2>1, <2>2, <3>1 DEF IInv, TypeOK, TipoActores
  <2>6. Presentes' \subseteq Presentes \cup ({h} \cap Hilos)
    <3>1. EnManos' \subseteq EnManos /\ EnColas' = EnColas /\ Esperan' = Esperan
      BY <1>0, <2>1, <2>5, ManosSiguen DEF Manos, EnColas, Esperan, colas
    <3>2. pc'[CP] = pc[CP] /\ loc'[CP] = loc[CP]
      BY <2>5, ActoresDistintos DEF SoloMueve
    <3> QED BY <2>5, <3>1, <3>2 DEF Presentes, Activos, Elegidos
  <2> QED BY <1>0, <2>1, <2>4, <2>5, <2>6, AjenoIgual
<1>2. CASE CrearProceso
  <2>1. pc[LP] = "crear_proceso" /\ Va(LP, "responde") /\ UNCHANGED <<colas, cola_new, loc>>
    BY <1>2 DEF CrearProceso, EnPaso, nuevos
  <2>2. SoloMueve(LP) /\ ~EnSalida(LP) /\ pc'[LP] = "responde"
    BY <1>0, <2>1, SoloVa DEF EnSalida
  <2>3. Presentes' \subseteq Presentes
    <3>1. EnManos' \subseteq EnManos /\ EnColas' = EnColas /\ Esperan' = Esperan
      BY <1>0, <2>1, <2>2, ManosSiguen DEF Manos, EnColas, Esperan, colas
    <3>2. pc'[CP] = pc[CP] /\ loc' = loc
      BY <2>1, <2>2, ActoresDistintos DEF SoloMueve
    <3> QED BY <2>1, <2>2, <3>1, <3>2 DEF Presentes, Activos, Elegidos, Admitiendo
  <2> QED BY <1>0, <2>1, <2>2, <2>3, AjenoIgual
<1>3. CASE AtenderRespuesta /\ (Admitir \/ Rechazar)
  <2>1. pc[LP] = "responde" /\ ~EnSalida(LP) /\ loc[LP].proceso \in Pids
    BY <1>3, CabezaDeNew DEF AtenderRespuesta, EnPaso, EnSalida
  <2>2. ToSet(cola_new') \subseteq ToSet(cola_new)
    <3>1. cola_new' = RemoveFirst(cola_new, loc[LP].proceso)
      BY <1>3 DEF Admitir, Rechazar
    <3> QED BY <3>1, QuitarElementoContenido DEF IInv, TypeOK, TipoNuevos
  <2>3. CASE Admitir
    <3>1. PICK h \in Hilos : h = loc[LP].hilo
      BY <1>3, PunteroTCB, ActoresDistintos DEF AtenderRespuesta, EnPaso, IInv
    <3>2. EncolarEnReady(h) /\ Va(LP, "inicio") /\ UNCHANGED loc
      BY <2>3, <3>1 DEF Admitir
    <3>3. EnColas' = EnColas \cup {h}
      BY <3>2, EfectoEncolar DEF IInv, TypeOK
    <3>4. EnColas' \subseteq Presentes
      BY <2>1, <3>1, <3>3 DEF Presentes, Activos, Admitiendo
    <3>5. SoloMueve(LP) /\ pc'[LP] = "inicio"
      BY <1>0, <3>2, SoloVa
    <3>6. Presentes' \subseteq Presentes
      BY <1>0, <3>4, <3>5, PasoPresentes DEF Manos
    <3> QED BY <1>0, <2>1, <2>2, <3>5, <3>6, AjenoIgual
  <2>4. CASE Rechazar
    <3>1. /\ Va(LP, "desencola") /\ UNCHANGED colas
          /\ loc' = [loc EXCEPT ![LP] = [@ EXCEPT !.i = 1, !.j = 1, !.sigue = "inicio"]]
      BY <2>4 DEF Rechazar
    <3>2. SoloMueve(LP) /\ pc'[LP] = "desencola"
      BY <1>0, <3>1, SoloVa
    <3>3. EnColas' \subseteq Presentes
      BY <3>1 DEF EnColas, colas, Presentes, Activos
    <3>4. Presentes' \subseteq Presentes
      BY <1>0, <3>2, <3>3, PasoPresentes DEF Manos
    <3> QED BY <1>0, <2>1, <2>2, <3>2, <3>4, AjenoIgual
  <2> QED BY <1>3, <2>3, <2>4
<1> QED BY <1>1, <1>2, <1>3 DEF Admite

\* Every step that brings in or takes out is one of the two kinds.
LEMMA CambiaDeDos ==
    ASSUME IInv, Lugares, Vida, Cambia
    PROVE  \E a \in Actores : Efecto(a) \/ Ajeno(a)
<1>1. CASE Altera
  BY <1>1, AlteraAjeno, ActoresDistintos
<1>2. CASE PideAMemoria /\ UNCHANGED <<creados, procesos, nuevos, respuesta, fallo>>
  BY <1>2, PideAjeno, ActoresDistintos DEF Vida
<1>3. CASE (\E a \in Actores : Suelta1(a)) /\ UNCHANGED <<creados, nuevos, respuesta, fallo>>
  BY <1>3, Suelta1Efecto
<1>4. CASE Admite /\ UNCHANGED <<creados, procesos, fallo>>
  BY <1>4, AdmiteAjeno, ActoresDistintos DEF Vida
<1>5. CASE /\ \E h \in Hilos : FallaDump(h)
           /\ UNCHANGED <<creados, procesos, mem, cola_new, respuesta, fallo>>
  <2>1. PICK h \in Hilos : FallaDump(h)
    BY <1>5
  <2>2. h \in Actores /\ ~EnSalida(h) /\ SalirProceso(h, h, "no")
    BY <2>1, ActoresDistintos DEF FallaDump, EnSalida
  <2> QED BY <1>5, <2>2, SaleAjeno
<1> QED BY <1>1, <1>2, <1>3, <1>4, <1>5 DEF Cambia

LEMMA NextPropios ==
    ASSUME IInv, Lugares, Vida, Vida', Propios, Quieto \/ Cambia
    PROVE  Propios'
  BY QuietoPropios, CambiaDeDos, EfectoPropios, AjenoPropios


-----------------------------------------------------------------------------
(* The owner and the waiters of each mutex.                                *)

\* CP has taken thread h, and no other, out of its process and has yet to look
\* at mutex number k.
Suelto(h, k) ==
    /\ pc[CP] \in {"joins", "mutex"} /\ loc[CP].hilo = h /\ loc[CP].dueno = h[1]
    /\ pc[CP] = "mutex" => loc[CP].j <= k

Dueno(p, k) == <<p, mutex[p][k].owner>>

DuenoVive(p, k) ==
    p \in Vivos /\ ~Terminando(p) => Dueno(p, k) \in Suyos(p) \/ Suelto(Dueno(p, k), k)

EnUso(p, k) ==
    LET r == mutex[p][k] IN
    /\ \A h \in ToSet(r.hilos) : h[1] = p
    /\ r.hilos # <<>> => r.owner # Nadie
    /\ r.owner # Nadie => Dueno(p, k) \notin ToSet(r.hilos) /\ DuenoVive(p, k)

\* A process that has not run has no mutex.
SinMutex == \A p \in Pids : tid_contador[p] = 0 \/ p \in ToSet(cola_new) => mutex[p] = <<>>

Cerrojos == SinMutex /\ \A p \in Pids : \A k \in DOMAIN mutex[p] : EnUso(p, k)

\* A process with mutexes that lives on was alive, and keeps its threads or has
\* one taken out by CP.
VivosSiguen ==
    \A p \in Pids :
        tid_contador[p] # 0 /\ p \notin ToSet(cola_new) =>
            /\ tid_contador'[p] # 0 /\ p \notin ToSet(cola_new')
            /\ p \in Vivos' /\ ~Terminando(p)' =>
                  /\ p \in Vivos /\ ~Terminando(p)
                  /\ \A h \in Suyos(p) : h \in Suyos(p)' \/ \A k : Suelto(h, k)'

MismoMutex(p, k) ==
    /\ k \in DOMAIN mutex[p] /\ mutex'[p][k] = mutex[p][k]
    /\ Suelto(Dueno(p, k), k) => Suelto(Dueno(p, k), k)'

LEMMA DuenoIgual ==
    ASSUME NEW p, NEW k, mutex'[p][k] = mutex[p][k]
    PROVE  /\ Dueno(p, k)' = Dueno(p, k)
           /\ Dueno(p, k)[1] = p /\ Dueno(p, k)[2] = mutex[p][k].owner
  BY DEF Dueno

LEMMA CerrojosSigue ==
    ASSUME Cerrojos, SinMutex', VivosSiguen,
           \A p \in Pids : \A k \in DOMAIN mutex'[p] : EnUso(p, k)' \/ MismoMutex(p, k)
    PROVE  Cerrojos'
<1> SUFFICES ASSUME NEW p \in Pids, NEW k \in DOMAIN mutex'[p], MismoMutex(p, k)
             PROVE  EnUso(p, k)'
  BY DEF Cerrojos
<1>1. k \in DOMAIN mutex[p] /\ mutex'[p][k] = mutex[p][k]
  BY DEF MismoMutex
<1>2. EnUso(p, k)
  BY <1>1 DEF Cerrojos
<1>3. tid_contador[p] # 0 /\ p \notin ToSet(cola_new)
  <2>1. mutex[p] # <<>>
    BY <1>1
  <2> QED BY <2>1 DEF Cerrojos, SinMutex
<1>4. PICK o : o = Dueno(p, k)
  OBVIOUS
<1>5. Dueno(p, k)' = o
  BY <1>1, <1>4 DEF Dueno
<1>6. DuenoVive(p, k) => DuenoVive(p, k)'
  <2> SUFFICES ASSUME p \in Vivos', ~Terminando(p)', DuenoVive(p, k)
               PROVE  o \in Suyos(p)' \/ Suelto(o, k)'
    BY <1>5 DEF DuenoVive
  <2>1. p \in Vivos /\ ~Terminando(p)
    BY <1>3 DEF VivosSiguen
  <2>2. o \in Suyos(p) \/ Suelto(o, k)
    BY <1>4, <2>1 DEF DuenoVive
  <2>3. Suelto(o, k) => Suelto(o, k)'
    BY <1>4, <1>5 DEF MismoMutex
  <2>4. o \in Suyos(p) => o \in Suyos(p)' \/ \A m : Suelto(o, m)'
    BY <1>3, <2>1 DEF VivosSiguen
  <2> QED BY <2>2, <2>3, <2>4
<1> QED BY <1>1, <1>2, <1>4, <1>5, <1>6 DEF EnUso

\* The mutexes do not change, nor does what CP is handing over.
LEMMA CerrojosIgual ==
    ASSUME Cerrojos, VivosSiguen, UNCHANGED mutex,
           \A p \in Pids : \A k \in DOMAIN mutex[p] :
               Suelto(Dueno(p, k), k) => Suelto(Dueno(p, k), k)'
    PROVE  Cerrojos'
<1>1. SinMutex'
  BY DEF Cerrojos, SinMutex, VivosSiguen
<1>2. \A p \in Pids : \A k \in DOMAIN mutex'[p] : MismoMutex(p, k)
  BY DEF MismoMutex
<1> QED BY <1>1, <1>2, CerrojosSigue

\* One mutex of a process changes.
LEMMA CerrojosCambia ==
    ASSUME TipoProcesos, Cerrojos, VivosSiguen, NEW p \in Pids, NEW k \in DOMAIN mutex[p], NEW r,
           mutex' = [mutex EXCEPT ![p] = [@ EXCEPT ![k] = r]], EnUso(p, k)',
           \A q \in Pids : \A m \in DOMAIN mutex[q] :
               (q = p /\ m = k) \/ (Suelto(Dueno(q, m), m) => Suelto(Dueno(q, m), m)')
    PROVE  Cerrojos'
<1>1. /\ mutex'[p] = [mutex[p] EXCEPT ![k] = r]
      /\ \A q \in Pids : q # p => mutex'[q] = mutex[q]
  BY DEF TipoProcesos
<1>2. /\ DOMAIN mutex'[p] = DOMAIN mutex[p]
      /\ \A m \in DOMAIN mutex[p] : m # k => mutex'[p][m] = mutex[p][m]
  BY <1>1
<1>3. SinMutex'
  <2> SUFFICES ASSUME NEW q \in Pids, tid_contador'[q] = 0 \/ q \in ToSet(cola_new')
               PROVE  mutex'[q] = <<>>
    BY DEF SinMutex
  <2>1. mutex[q] = <<>>
    BY DEF Cerrojos, SinMutex, VivosSiguen
  <2>2. q # p
    BY <2>1
  <2> QED BY <1>1, <2>1, <2>2
<1>4. \A q \in Pids : \A m \in DOMAIN mutex'[q] : EnUso(q, m)' \/ MismoMutex(q, m)
  BY <1>1, <1>2 DEF MismoMutex
<1> QED BY <1>3, <1>4, CerrojosSigue


LEMMA QuietoSiguen ==
    ASSUME Quieto
    PROVE  /\ VivosSiguen /\ UNCHANGED <<procesos_en_sistema, threads, tid_contador, cola_new>>
           /\ \A p : Terminando(p)' <=> Terminando(p)
<1>1. UNCHANGED <<procesos_en_sistema, threads, tid_contador, cola_new>>
  BY DEF Quieto, Mapa, creados
<1>2. \A a \in Actores : EnSalida(a)' <=> EnSalida(a)
  BY VidaIgual DEF Quieto
<1>3. \A a \in Actores : EnSalida(a) => loc'[a].proceso = loc[a].proceso
  BY VidaIgual DEF Quieto
<1>4. \A p : Terminando(p)' <=> Terminando(p)
  BY <1>2, <1>3 DEF Terminando
<1> QED BY <1>1, <1>4 DEF VivosSiguen, Vivos, Suyos

LEMMA QuietoSuelto ==
    ASSUME Quieto, NEW h, NEW k, Suelto(h, k), pc'[CP] = "mutex" => loc'[CP].j <= k
    PROVE  Suelto(h, k)'
<1>1. CP \in Actores /\ EnSalida(CP)
  BY ActoresDistintos DEF Suelto, EnSalida
<1>2. /\ loc'[CP].hilo = loc[CP].hilo /\ loc'[CP].dueno = loc[CP].dueno
      /\ pc'[CP] \in {"joins", "mutex"} <=> pc[CP] \in {"joins", "mutex"}
  BY <1>1, VidaIgual DEF Quieto
<1> QED BY <1>2 DEF Suelto

\* CP is not in the loops of liberar_hilo, or has not moved.
CPQuieta ==
    pc[CP] \in {"joins", "mutex"} => pc'[CP] = pc[CP] /\ loc'[CP] = loc[CP]

LEMMA QuietoCerrojos ==
    ASSUME Cerrojos, Quieto, UNCHANGED mutex, CPQuieta
    PROVE  Cerrojos'
<1>1. \A h, k : Suelto(h, k) => Suelto(h, k)'
  BY DEF Suelto, CPQuieta
<1>2. \A p \in Pids : \A k \in DOMAIN mutex[p] :
         Suelto(Dueno(p, k), k) => Suelto(Dueno(p, k), k)'
  BY <1>1 DEF Dueno
<1> QED BY <1>2, QuietoSiguen, CerrojosIgual

LEMMA EfectoSiguen ==
    ASSUME HilosDe, NEW a \in Actores, Efecto(a)
    PROVE  VivosSiguen
<1>1. \A q : Borrando(q) => Terminando(q)
  BY DEF Borrando, Terminando
<1>2. \A q : Borrando(q)' => Terminando(q)'
  BY DEF Borrando, Terminando
<1> SUFFICES ASSUME NEW p \in Pids, tid_contador[p] # 0, p \notin ToSet(cola_new)
             PROVE  /\ tid_contador'[p] # 0 /\ p \notin ToSet(cola_new')
                    /\ p \in Vivos' /\ ~Terminando(p)' =>
                          /\ p \in Vivos /\ ~Terminando(p)
                          /\ \A h \in Suyos(p) : h \in Suyos(p)' \/ \A k : Suelto(h, k)'
  BY DEF VivosSiguen
<1>3. tid_contador'[p] # 0 /\ p \notin ToSet(cola_new')
  BY DEF Efecto
<1>4. ASSUME p \in Vivos', ~Terminando(p)'
      PROVE  p \in Vivos /\ ~Terminando(p)
  <2>1. ASSUME NEW b \in Actores, EnSalida(b), loc[b].proceso = p PROVE FALSE
    <3>1. CASE b = a
      BY <1>3, <1>4, <2>1, <3>1 DEF Efecto
    <3>2. CASE b # a
      BY <1>4, <2>1, <3>2 DEF Efecto, SoloMueve, Terminando, EnSalida
    <3> QED BY <3>1, <3>2
  <2> QED BY <1>4, <2>1 DEF Efecto, Terminando
<1>5. ASSUME p \in Vivos', ~Terminando(p)', NEW h \in Suyos(p), h \notin Suyos(p)', NEW k
      PROVE  Suelto(h, k)'
  <2>1. ~Borrando(p)'
    BY <1>2, <1>5
  <2>2. pc'[CP] = "joins" /\ loc'[CP].hilo = h /\ loc'[CP].dueno = p
    BY <1>5, <2>1 DEF Efecto
  <2>3. h[1] = p
    BY <1>5 DEF HilosDe
  <2> QED BY <2>2, <2>3 DEF Suelto
<1> QED BY <1>3, <1>4, <1>5


\* liberar_hilo leaves the loop over the mutexes past the last one.
LEMMA Suelta1Suelto ==
    ASSUME IInv, NEW a \in Actores, Suelta1(a), SoloMueve(a), UNCHANGED mutex,
           NEW p \in Pids, NEW k \in DOMAIN mutex[p], Suelto(Dueno(p, k), k)
    PROVE  Suelto(Dueno(p, k), k)'
<1>1. Dueno(p, k)' = Dueno(p, k) /\ Dueno(p, k)[1] = p
  BY DEF Dueno
<1>2. CASE a = CP
  <2>1. pc[CP] \in {"joins", "mutex"} /\ loc[CP].dueno = p /\ (pc[CP] = "mutex" => loc[CP].j <= k)
    BY <1>1 DEF Suelto
  <2>2. pc[CP] = "mutex" /\ ~(p # NULO /\ loc[CP].j <= Len(mutex[p]))
    BY <1>2, <2>1 DEF Suelta1, FinProceso, LiberarPcb, LiberarHilo, HeredarMutex, EnPaso
  <2>3. p # NULO
    BY ConstantesKernel
  <2>4. k \in Nat /\ k <= Len(mutex[p]) /\ Len(mutex[p]) \in Nat
    BY LenProperties DEF IInv, TypeOK, TipoProcesos
  <2>5. loc[CP].j \in Nat
    BY LocTipo, ActoresDistintos DEF IInv, TypeOK
  <2> QED BY <2>1, <2>2, <2>3, <2>4, <2>5
<1>3. CASE a # CP
  BY <1>1, <1>3, ActoresDistintos DEF Suelto, SoloMueve
<1> QED BY <1>2, <1>3

LEMMA Suelta1Cerrojos ==
    ASSUME IInv, Vida, Cerrojos, NEW a \in Actores, Suelta1(a), UNCHANGED <<creados, nuevos>>
    PROVE  Cerrojos'
<1>1. Efecto(a)
  BY Suelta1Efecto
<1>2. VivosSiguen
  BY <1>1, EfectoSiguen DEF Vida
<1>3. SoloMueve(a) /\ UNCHANGED mutex
  BY <1>1 DEF Efecto
<1> QED BY <1>2, <1>3, Suelta1Suelto, CerrojosIgual

LEMMA AjenoCerrojos ==
    ASSUME Cerrojos, NEW a \in Actores, Ajeno(a)
    PROVE  Cerrojos'
<1>1. SoloMueve(a) /\ ~EnSalida(a) /\ UNCHANGED mutex
  BY DEF Ajeno
<1>2. \A p : Terminando(p) => Terminando(p)'
  BY <1>1 DEF Terminando, SoloMueve, EnSalida
<1>3. VivosSiguen
  BY <1>2 DEF VivosSiguen, Ajeno
<1>4. \A h, k : Suelto(h, k) => Suelto(h, k)'
  BY <1>1, ActoresDistintos DEF Suelto, SoloMueve, EnSalida
<1>5. \A p \in Pids : \A k \in DOMAIN mutex[p] :
         Suelto(Dueno(p, k), k) => Suelto(Dueno(p, k), k)'
  BY <1>1, <1>4 DEF Dueno
<1> QED BY <1>1, <1>3, <1>5, CerrojosIgual

LEMMA DesencolarTodosCerrojos ==
    ASSUME IInv, Lugares, HilosDe, Cerrojos, NEW a \in Actores, DesencolarTodos(a),
           UNCHANGED <<creados, nuevos, respuesta, fallo>>
    PROVE  Cerrojos'
<1>1. Quieto /\ UNCHANGED mutex /\ pc[a] = "desencola"
  BY DesencolarTodosQuieto DEF DesencolarTodos, EnPaso, procesos
<1>2. CPQuieta
  <2>1. CASE a = CP
    BY <1>1, <2>1 DEF CPQuieta
  <2>2. CASE a # CP
    <3>1. pc'[CP] = pc[CP] /\ loc'[CP] = loc[CP]
      BY <2>2, ActoresDistintos DEF DesencolarTodos, Va, IInv, TypeOK, TipoActores
    <3> QED BY <3>1 DEF CPQuieta
  <2> QED BY <2>1, <2>2
<1> QED BY <1>1, <1>2, QuietoCerrojos

LEMMA DespertarJoinsCerrojos ==
    ASSUME IInv, Lugares, Cerrojos, NEW a \in Actores, DespertarJoins(a),
           UNCHANGED <<creados, nuevos, respuesta, fallo>>
    PROVE  Cerrojos'
<1>1. Quieto /\ UNCHANGED mutex /\ pc[a] = "joins"
  BY DespertarJoinsQuieto DEF DespertarJoins, EnPaso, procesos
<1>2. CASE a = CP
  <2>1. /\ \/ UNCHANGED pc
           \/ Va(CP, "mutex") /\ loc' = [loc EXCEPT ![CP] = [@ EXCEPT !.j = 1]]
    BY <1>2 DEF DespertarJoins
  <2>2. pc'[CP] = "mutex" => loc'[CP].j = 1
    <3>1. CP \in Actores /\ loc[CP] \in Locales /\ loc \in [Actores -> Locales]
      BY ActoresDistintos DEF IInv, TypeOK, TipoActores
    <3> QED BY <1>1, <1>2, <2>1, <3>1 DEF Locales
  <2>3. ASSUME NEW p \in Pids, NEW k \in DOMAIN mutex[p], Suelto(Dueno(p, k), k)
        PROVE  Suelto(Dueno(p, k), k)'
    <3>1. k \in Nat /\ 1 <= k
      BY LenProperties DEF IInv, TypeOK, TipoProcesos
    <3>2. PICK o : o = Dueno(p, k) /\ Dueno(p, k)' = o
      BY <1>1 DEF Dueno
    <3>3. Suelto(o, k)'
      BY <1>1, <2>2, <2>3, <3>1, <3>2, QuietoSuelto
    <3> QED BY <3>2, <3>3
  <2> QED BY <1>1, <2>3, QuietoSiguen, CerrojosIgual
<1>3. CASE a # CP
  <2>1. pc'[CP] = pc[CP] /\ loc'[CP] = loc[CP]
    BY <1>3, ActoresDistintos DEF DespertarJoins, Va, IInv, TypeOK, TipoActores
  <2> QED BY <1>1, <2>1, QuietoCerrojos DEF CPQuieta
<1> QED BY <1>2, <1>3

\* One mutex of the thread that is being freed: it is free again.
LEMMA HeredarMutexCerrojos ==
    ASSUME IInv, SinHerederos, Cerrojos, NEW a \in Actores, HeredarMutex(a),
           loc[a].dueno # NULO, loc[a].j <= Len(mutex[loc[a].dueno]),
           UNCHANGED <<creados, nuevos, respuesta, fallo>>
    PROVE  Cerrojos'
<1>0. PICK p, j, q : p = loc[a].dueno /\ j = loc[a].j /\ q = mutex[p][j]
  OBVIOUS
<1>1. /\ pc[a] = "mutex" /\ TipoProcesos /\ j \in Nat \ {0} /\ p \in Pids /\ Quieto
  BY <1>0, LocTipo, HeredarMutexQuieto DEF HeredarMutex, EnPaso, IInv, TypeOK
<1>2. j \in DOMAIN mutex[p] /\ q \in Mutexes
  <2>1. j \in DOMAIN mutex[p]
    BY <1>0, <1>1, LenProperties DEF TipoProcesos
  <2> QED BY <1>0, <1>1, <2>1, MutexTipo
<1>3. ~(q.owner = loc[a].hilo[2] /\ q.hilos # <<>>)
  <2>1. Herederos(loc[a].dueno, loc[a].j, loc[a].hilo) = {}
    BY <1>1 DEF SinHerederos
  <2> QED BY <1>0, <1>2, <2>1 DEF Herederos
<1>4. /\ loc' = [loc EXCEPT ![a].j = @ + 1] /\ UNCHANGED pc
      /\ \/ UNCHANGED mutex /\ q.owner # loc[a].hilo[2]
         \/ mutex' = [mutex EXCEPT ![p][j].owner = Nadie] /\ q.hilos = <<>>
  BY <1>0, <1>3 DEF HeredarMutex
<1>5. VivosSiguen
  BY <1>1, QuietoSiguen
<1>6. a = CP => loc'[CP].j = j + 1 /\ loc[CP].j = j /\ loc[CP].dueno = p
                /\ loc[CP].hilo = loc[a].hilo /\ pc'[CP] = "mutex"
  BY <1>0, <1>1, <1>4 DEF IInv, TypeOK, TipoActores, Locales
<1>7. a # CP => loc'[CP] = loc[CP] /\ pc'[CP] = pc[CP]
  BY <1>4 DEF IInv, TypeOK, TipoActores
<1>8. PICK t : t = loc[a].hilo
  OBVIOUS
\* Whatever is still to come for CP has another owner or is farther on.
<1>9. ASSUME NEW h, NEW m \in Nat, Suelto(h, m), a = CP => m # j \/ h[1] # p \/ h # t
      PROVE  Suelto(h, m)'
  <2>1. CASE a = CP
    <3>1. h = t /\ h[1] = p /\ j <= m
      BY <1>1, <1>6, <1>8, <1>9, <2>1 DEF Suelto
    <3>2. j + 1 <= m
      BY <1>1, <1>9, <2>1, <3>1
    <3> QED BY <1>1, <1>6, <1>9, <2>1, <3>2, QuietoSuelto
  <2>2. CASE a # CP
    BY <1>7, <1>9, <2>2 DEF Suelto
  <2> QED BY <2>1, <2>2
<1>10. \A o \in Pids : \A m \in DOMAIN mutex[o] : m \in Nat
  BY LenProperties DEF IInv, TypeOK, TipoProcesos
<1>11. CASE UNCHANGED mutex /\ q.owner # t[2]
  <2>1. ASSUME NEW o \in Pids, NEW m \in DOMAIN mutex[o], Suelto(Dueno(o, m), m)
        PROVE  Suelto(Dueno(o, m), m)'
    <3>1. PICK h : h = Dueno(o, m) /\ Dueno(o, m)' = h /\ h[1] = o /\ h[2] = mutex[o][m].owner
      BY <1>11, DuenoIgual
    <3>2. m # j \/ o # p \/ h # t
      BY <1>0, <1>11, <3>1
    <3>3. Suelto(h, m)'
      BY <1>9, <1>10, <2>1, <3>1, <3>2
    <3> QED BY <3>1, <3>3
  <2> QED BY <1>5, <1>11, <2>1, CerrojosIgual
<1>12. CASE mutex' = [mutex EXCEPT ![p][j].owner = Nadie] /\ q.hilos = <<>>
  <2> DEFINE r == [q EXCEPT !.owner = Nadie]
  <2>1. mutex' = [mutex EXCEPT ![p] = [@ EXCEPT ![j] = r]]
    BY <1>0, <1>12
  <2>2. r.hilos = <<>> /\ r.owner = Nadie
    BY <1>2, <1>12 DEF Mutexes
  <2> HIDE DEF r
  <2>3. mutex'[p][j] = r
    BY <1>1, <1>2, <2>1 DEF TipoProcesos
  <2>4. EnUso(p, j)'
    <3>1. ToSet(<<>>) = {}
      BY DEF ToSet
    <3> QED BY <2>2, <2>3, <3>1 DEF EnUso
  <2>5. ASSUME NEW o \in Pids, NEW m \in DOMAIN mutex[o], ~(o = p /\ m = j),
               Suelto(Dueno(o, m), m)
        PROVE  Suelto(Dueno(o, m), m)'
    <3>1. mutex'[o][m] = mutex[o][m]
      BY <1>1, <1>2, <2>1, <2>5 DEF TipoProcesos
    <3>2. PICK h : h = Dueno(o, m) /\ Dueno(o, m)' = h /\ h[1] = o
      BY <3>1, DuenoIgual
    <3>3. Suelto(h, m)'
      BY <1>9, <1>10, <2>5, <3>2
    <3> QED BY <3>2, <3>3
  <2> QED BY <1>1, <1>2, <1>5, <2>1, <2>4, <2>5, CerrojosCambia
<1> QED BY <1>4, <1>8, <1>11, <1>12


\* What a system call may do to a mutex.
LEMMA SyscallCerrojo ==
    ASSUME IInv, Cerrojos, Quieto, pc[CP] = "cpu", NEW p \in Pids, NEW k \in DOMAIN mutex[p],
           NEW r, mutex' = [mutex EXCEPT ![p] = [@ EXCEPT ![k] = r]],
           \A h \in ToSet(r.hilos) : h[1] = p,
           r.hilos # <<>> => r.owner # Nadie,
           r.owner # Nadie =>
               /\ <<p, r.owner>> \notin ToSet(r.hilos)
               /\ p \in Vivos /\ ~Terminando(p) => <<p, r.owner>> \in Suyos(p)
    PROVE  Cerrojos'
<1>1. TipoProcesos
  BY DEF IInv, TypeOK
<1>2. mutex'[p][k] = r
  BY <1>1 DEF TipoProcesos
<1>3. Dueno(p, k)' = <<p, r.owner>>
  BY <1>2 DEF Dueno
<1>4. /\ VivosSiguen /\ UNCHANGED <<procesos_en_sistema, threads>>
      /\ Terminando(p)' <=> Terminando(p)
  BY QuietoSiguen
<1>5. Vivos' = Vivos /\ Suyos(p)' = Suyos(p)
  BY <1>4 DEF Vivos, Suyos
<1>6. r.owner # Nadie => DuenoVive(p, k)'
  BY <1>3, <1>4, <1>5 DEF DuenoVive
<1>7. EnUso(p, k)'
  BY <1>2, <1>3, <1>6 DEF EnUso
<1>8. \A h, m : ~Suelto(h, m)
  BY DEF Suelto
<1> QED BY <1>1, <1>4, <1>7, <1>8, CerrojosCambia

\* The thread that makes the system call, and its process.
LEMMA ExecPropio ==
    ASSUME IInv, Lugares, ProcesoVive, Propios, EnSyscall
    PROVE  /\ hilo_en_exec \in Hilos /\ hilo_en_exec[1] \in Pids
           /\ BuscarProceso(hilo_en_exec[1]) = hilo_en_exec[1] /\ hilo_en_exec[1] \in Vivos
           /\ tid_contador[hilo_en_exec[1]] # 0 /\ hilo_en_exec[1] \notin ToSet(cola_new)
           /\ ~Terminando(hilo_en_exec[1]) => hilo_en_exec \in Suyos(hilo_en_exec[1])
<1>1. hilo_en_exec \in Hilos /\ hilo_en_exec # NULO /\ pc[CP] = "cpu"
  BY ActoresDistintos DEF EnSyscall
<1>2. PICK h \in Hilos : h = hilo_en_exec
  BY <1>1
<1>3. h[1] \in Vivos /\ BuscarProceso(h[1]) = h[1]
  BY <1>1, <1>2 DEF ProcesoVive, Vivos, BuscarProceso
<1>4. h \in Presentes /\ Visto(h)
  BY <1>1, <1>2, ExecEnColas DEF Presentes, Activos, Lugares, Vistos, Ocupados
<1>5. h[1] \in Pids /\ h[2] \in Nat /\ tid_contador[h[1]] \in Nat
  BY Pares, TiposDeCreados
<1>6. tid_contador[h[1]] # 0 /\ h[1] \notin ToSet(cola_new)
  BY <1>4, <1>5 DEF Visto
<1>7. ~Terminando(h[1]) => h \in Suyos(h[1])
  BY <1>3, <1>4 DEF Propios, Borrando, Terminando
<1> QED BY <1>2, <1>3, <1>5, <1>6, <1>7

LEMMA MutexCreateCerrojos ==
    ASSUME IInv, Lugares, ProcesoVive, Propios, Cerrojos, EnSyscall, Quieto,
           NEW s, MutexCreate(s)
    PROVE  Cerrojos'
<1> DEFINE r == [nombre |-> s.recurso, owner |-> Nadie, hilos |-> <<>>]
<1>1. PICK p \in Pids :
        /\ p = BuscarProceso(hilo_en_exec[1]) /\ tid_contador[p] # 0 /\ p \notin ToSet(cola_new)
  BY ExecPropio
<1>2. mutex' = [mutex EXCEPT ![p] = Append(@, r)] /\ r.hilos = <<>> /\ r.owner = Nadie
  BY <1>1 DEF MutexCreate
<1> HIDE DEF r
<1>4. mutex[p] \in Seq(Mutexes) /\ mutex \in [Pids -> Seq(Mutexes)]
  BY DEF IInv, TypeOK, TipoProcesos
<1>5. /\ mutex'[p] = Append(mutex[p], r)
      /\ \A q \in Pids : q # p => mutex'[q] = mutex[q]
  BY <1>2, <1>4, Zenon
<1>6. \A k \in DOMAIN mutex'[p] :
          mutex'[p][k] = r \/ (k \in DOMAIN mutex[p] /\ mutex'[p][k] = mutex[p][k])
  <2>1. r \in Mutexes \cup {r} /\ mutex[p] \in Seq(Mutexes \cup {r})
    BY <1>4
  <2>2. /\ DOMAIN mutex'[p] = 1..(Len(mutex[p]) + 1) /\ mutex'[p][Len(mutex[p]) + 1] = r
        /\ \A k \in 1..Len(mutex[p]) : mutex'[p][k] = mutex[p][k]
        /\ DOMAIN mutex[p] = 1..Len(mutex[p]) /\ Len(mutex[p]) \in Nat
    BY <1>5, <2>1, AppendProperties, LenProperties
  <2> QED BY <2>2
<1>7. VivosSiguen /\ UNCHANGED <<tid_contador, cola_new>>
  BY QuietoSiguen
<1>8. SinMutex'
  BY <1>1, <1>5, <1>7 DEF Cerrojos, SinMutex
<1>9. ToSet(<<>>) = {} /\ \A h, m : ~Suelto(h, m)
  BY DEF ToSet, Suelto, EnSyscall
<1>10. ASSUME NEW q \in Pids, NEW k \in DOMAIN mutex'[q]
       PROVE  EnUso(q, k)' \/ MismoMutex(q, k)
  <2>1. CASE mutex'[q][k] = r
    BY <1>2, <1>9, <2>1 DEF EnUso
  <2>2. CASE k \in DOMAIN mutex[q] /\ mutex'[q][k] = mutex[q][k]
    BY <1>9, <2>2 DEF MismoMutex
  <2> QED BY <1>5, <1>6, <2>1, <2>2
<1> QED BY <1>7, <1>8, <1>10, CerrojosSigue

LEMMA MutexLockCerrojos ==
    ASSUME IInv, Lugares, ProcesoVive, Propios, Cerrojos, EnSyscall, Quieto,
           NEW s, MutexLock(s),
           LET k == BuscarRecurso(BuscarProceso(hilo_en_exec[1]), s.recurso)
           IN  k # 0 => mutex[BuscarProceso(hilo_en_exec[1])][k].owner # hilo_en_exec[2]
    PROVE  Cerrojos'
<1>1. PICK h \in Hilos, p \in Pids :
        /\ h = hilo_en_exec /\ p = BuscarProceso(h[1]) /\ h[1] = p /\ h = <<p, h[2]>>
        /\ p \in Vivos /\ ~Terminando(p) => h \in Suyos(p)
  BY ExecPropio, Pares
<1>2. PICK k : k = BuscarRecurso(p, s.recurso)
  OBVIOUS
<1>3. h[2] # Nadie /\ pc[CP] = "cpu"
  BY Pares DEF Nadie, EnSyscall
<1>4. \/ UNCHANGED mutex
      \/ /\ k # 0 /\ mutex[p][k].owner = Nadie
         /\ mutex' = [mutex EXCEPT ![p][k].owner = h[2]]
      \/ /\ k # 0 /\ mutex[p][k].owner # Nadie
         /\ mutex' = [mutex EXCEPT ![p][k].hilos = Append(@, h)]
  BY <1>1, <1>2, Zenon DEF MutexLock, Libre
<1>5. k # 0 => mutex[p][k].owner # h[2]
  BY <1>1, <1>2
<1>6. CASE UNCHANGED mutex
  BY <1>3, <1>6, QuietoCerrojos DEF CPQuieta
<1>7. ASSUME k # 0
      PROVE  /\ k \in DOMAIN mutex[p] /\ mutex[p][k] \in Mutexes
             /\ mutex[p][k].hilos \in Seq(Hilos) /\ EnUso(p, k)
  <2>1. k \in DOMAIN mutex[p] /\ mutex[p][k] \in Mutexes /\ mutex[p][k].hilos \in Seq(Hilos)
    BY <1>2, <1>7, BuscarRecursoTipo, MutexTipo DEF IInv, TypeOK
  <2> QED BY <2>1 DEF Cerrojos
<1>8. CASE /\ k # 0 /\ mutex[p][k].owner = Nadie
           /\ mutex' = [mutex EXCEPT ![p][k].owner = h[2]]
  <2> DEFINE r == [mutex[p][k] EXCEPT !.owner = h[2]]
  <2>1. mutex' = [mutex EXCEPT ![p] = [@ EXCEPT ![k] = r]]
    BY <1>8
  <2>2. r.owner = h[2] /\ r.hilos = <<>>
    BY <1>7, <1>8 DEF Mutexes, EnUso
  <2> HIDE DEF r
  <2>3. ToSet(r.hilos) = {}
    BY <2>2 DEF ToSet
  <2>4. <<p, r.owner>> = h
    BY <1>1, <2>2
  <2>5. p \in Vivos /\ ~Terminando(p) => <<p, r.owner>> \in Suyos(p)
    BY <1>1, <2>4
  <2>6. k \in DOMAIN mutex[p]
    BY <1>7, <1>8
  <2> QED BY <1>3, <2>1, <2>2, <2>3, <2>5, <2>6, SyscallCerrojo
<1>9. CASE /\ k # 0 /\ mutex[p][k].owner # Nadie
           /\ mutex' = [mutex EXCEPT ![p][k].hilos = Append(@, h)]
  <2> DEFINE r == [mutex[p][k] EXCEPT !.hilos = Append(@, h)]
  <2>1. mutex' = [mutex EXCEPT ![p] = [@ EXCEPT ![k] = r]]
    BY <1>9
  <2>2. r.owner = mutex[p][k].owner /\ r.hilos = Append(mutex[p][k].hilos, h)
    BY <1>7, <1>9 DEF Mutexes
  <2> HIDE DEF r
  <2>3. ToSet(r.hilos) = ToSet(mutex[p][k].hilos) \cup {h}
    BY <1>7, <1>9, <2>2, AgregarElemento
  <2>4. PICK o : o = Dueno(p, k) /\ o = <<p, r.owner>>
    BY <2>2 DEF Dueno
  <2>5. /\ \A g \in ToSet(mutex[p][k].hilos) : g[1] = p
        /\ o \notin ToSet(mutex[p][k].hilos) /\ DuenoVive(p, k)
    BY <1>7, <1>9, <2>4 DEF EnUso
  <2>6. p \in Vivos /\ ~Terminando(p) => o \in Suyos(p)
    BY <1>3, <2>4, <2>5 DEF DuenoVive, Suelto
  <2>7. o # h
    BY <1>1, <1>5, <1>9, <2>2, <2>4
  <2>8. o \notin ToSet(r.hilos) /\ \A g \in ToSet(r.hilos) : g[1] = p
    BY <1>1, <2>3, <2>5, <2>7
  <2>9. k \in DOMAIN mutex[p] /\ r.owner # Nadie
    BY <1>7, <1>9, <2>2
  <2> QED BY <1>3, <2>1, <2>4, <2>6, <2>8, <2>9, SyscallCerrojo
<1> QED BY <1>4, <1>6, <1>8, <1>9

\* The new owner has left the only list it was in.
LEMMA MutexUnlockCerrojos ==
    ASSUME IInv, Lugares, Seguro, ProcesoVive, Propios, Cerrojos, EnSyscall, Quieto,
           NEW s, MutexUnlock(s)
    PROVE  Cerrojos'
<1>1. PICK h \in Hilos, p \in Pids :
        h = hilo_en_exec /\ p = BuscarProceso(h[1]) /\ h[1] = p
  BY ExecPropio
<1>2. PICK k : k = BuscarRecurso(p, s.recurso)
  OBVIOUS
<1>3. pc[CP] = "cpu"
  BY DEF EnSyscall
<1>4. \/ UNCHANGED mutex
      \/ /\ k # 0 /\ mutex[p][k].hilos = <<>>
         /\ mutex' = [mutex EXCEPT ![p][k].owner = Nadie]
      \/ /\ k # 0 /\ mutex[p][k].hilos # <<>>
         /\ mutex' = [mutex EXCEPT ![p][k] = Entregado(@)]
  BY <1>1, <1>2, Zenon DEF MutexUnlock
<1>5. CASE UNCHANGED mutex
  BY <1>3, <1>5, QuietoCerrojos DEF CPQuieta
<1>6. ASSUME k # 0
      PROVE  /\ k \in DOMAIN mutex[p] /\ mutex[p][k] \in Mutexes
             /\ mutex[p][k].hilos \in Seq(Hilos) /\ EnUso(p, k)
  <2>1. k \in DOMAIN mutex[p] /\ mutex[p][k] \in Mutexes /\ mutex[p][k].hilos \in Seq(Hilos)
    BY <1>2, <1>6, BuscarRecursoTipo, MutexTipo DEF IInv, TypeOK
  <2> QED BY <2>1 DEF Cerrojos
<1>7. CASE /\ k # 0 /\ mutex[p][k].hilos = <<>>
           /\ mutex' = [mutex EXCEPT ![p][k].owner = Nadie]
  <2> DEFINE r == [mutex[p][k] EXCEPT !.owner = Nadie]
  <2>1. mutex' = [mutex EXCEPT ![p] = [@ EXCEPT ![k] = r]]
    BY <1>7
  <2>2. r.owner = Nadie /\ r.hilos = <<>>
    BY <1>6, <1>7 DEF Mutexes
  <2> HIDE DEF r
  <2>3. ToSet(r.hilos) = {}
    BY <2>2 DEF ToSet
  <2> QED BY <1>3, <1>6, <1>7, <2>1, <2>2, <2>3, SyscallCerrojo
<1>8. CASE /\ k # 0 /\ mutex[p][k].hilos # <<>>
           /\ mutex' = [mutex EXCEPT ![p][k] = Entregado(@)]
  <2> DEFINE r == Entregado(mutex[p][k])
             l == mutex[p][k].hilos
             n == l[1]
  <2>1. mutex' = [mutex EXCEPT ![p] = [@ EXCEPT ![k] = r]]
    BY <1>8
  <2>2. r.owner = n[2] /\ r.hilos = Tail(l)
    BY <1>6, <1>8 DEF Mutexes, Entregado
  <2>3. l \in Seq(Hilos) /\ l # <<>> /\ SinDobles(l) /\ k \in DOMAIN mutex[p]
    BY <1>6, <1>8 DEF Seguro, Atados, EsperaUnica
  <2> HIDE DEF r
  <2>4. ToSet(Tail(l)) = ToSet(l) \ {n}
    BY <2>3, ColaUnica
  <2>5. n \in ToSet(l) /\ n \in Hilos
    BY <2>3, LenProperties, EmptySeq, ElementosDeLista DEF ToSet
  <2>6. \A g \in ToSet(l) : g[1] = p
    BY <1>6, <1>8 DEF EnUso
  <2>7. n = <<p, n[2]>> /\ n[2] # Nadie
    BY <2>5, <2>6, Pares DEF Nadie
  <2>8. n \in Presentes
    BY <2>3, <2>5 DEF Presentes, Activos, Esperan
  <2>9. p \in Vivos /\ ~Terminando(p) => n \in Suyos(p)
    BY <2>5, <2>6, <2>8 DEF Propios, Borrando, Terminando
  <2> HIDE DEF n, l
  <2>10. <<p, r.owner>> = n
    BY <2>2, <2>7
  <2> QED BY <1>3, <2>1, <2>2, <2>3, <2>4, <2>6, <2>7, <2>9, <2>10, SyscallCerrojo
<1> QED BY <1>4, <1>5, <1>7, <1>8


LEMMA EfectoCerrojos ==
    ASSUME HilosDe, Cerrojos, NEW a \in Actores, Efecto(a), CPQuieta
    PROVE  Cerrojos'
<1>1. VivosSiguen
  BY EfectoSiguen
<1>2. UNCHANGED mutex
  BY DEF Efecto
<1>3. \A h, k : Suelto(h, k) => Suelto(h, k)'
  BY DEF Suelto, CPQuieta
<1>4. \A p \in Pids : \A k \in DOMAIN mutex[p] :
         Suelto(Dueno(p, k), k) => Suelto(Dueno(p, k), k)'
  BY <1>2, <1>3 DEF Dueno
<1> QED BY <1>1, <1>2, <1>4, CerrojosIgual

\* Which system calls change a mutex, and that MUTEX_LOCK is not of one's own.
LEMMA SyscallMutex ==
    ASSUME IInv, Syscall, SinReentrada
    PROVE  \/ UNCHANGED mutex
           \/ \E s :
                 \/ MutexCreate(s) \/ MutexUnlock(s)
                 \/ /\ MutexLock(s)
                    /\ LET k == BuscarRecurso(BuscarProceso(hilo_en_exec[1]), s.recurso)
                       IN  k # 0 => mutex[BuscarProceso(hilo_en_exec[1])][k].owner # hilo_en_exec[2]
<1> DEFINE script == Programa[archivo[loc[CP].hilo]]
           linea  == ctx[loc[CP].hilo]
           p      == BuscarProceso(hilo_en_exec[1])
<1>1. pc[CP] = "cpu" /\ hilo_en_exec # NULO /\ linea \in DOMAIN script
  BY AlAtender, ActoresDistintos DEF Syscall, EnSyscall
<1>2. PICK s \in script[linea] :
        \/ DumpMemory(s) \/ PeticionIO(s) \/ IniciarProceso(s) \/ ThreadCreate(s)
        \/ ThreadJoin(s) \/ ThreadCancel(s) \/ MutexCreate(s) \/ MutexLock(s)
        \/ MutexUnlock(s) \/ ThreadExit(s) \/ ProcessExit(s)
  BY Zenon DEF Syscall
<1>3. CASE MutexLock(s)
  <2>1. s \in UNION EnLista(script, linea) /\ s.op = "MUTEX_LOCK"
    BY <1>1, <1>3 DEF EnLista, MutexLock
  <2>2. LET k == BuscarRecurso(p, s.recurso) IN k # 0 => mutex[p][k].owner # hilo_en_exec[2]
    BY <1>1, <2>1 DEF SinReentrada
  <2> QED BY <1>3, <2>2
<1>4. CASE MutexCreate(s) \/ MutexUnlock(s)
  BY <1>4
<1>5. CASE \/ DumpMemory(s) \/ PeticionIO(s) \/ IniciarProceso(s) \/ ThreadCreate(s)
           \/ ThreadJoin(s) \/ ThreadCancel(s) \/ ThreadExit(s) \/ ProcessExit(s)
  BY <1>5 DEF DumpMemory, PeticionIO, IniciarProceso, ThreadCreate, ThreadJoin, ThreadCancel,
              ThreadExit, ProcessExit, procesos
<1> QED BY <1>2, <1>3, <1>4, <1>5

LEMMA SyscallCerrojos ==
    ASSUME IInv, Lugares, Seguro, Vida, ProcesoVive, SinReentrada, SinCancelar, Propios,
           Cerrojos, Syscall
    PROVE  Cerrojos'
<1>1. EnSyscall /\ pc[CP] = "cpu"
  BY UnSyscall DEF EnSyscall
<1>2. CPQuieta
  BY <1>1 DEF CPQuieta
<1>3. CASE Cambia
  BY <1>2, <1>3, CambiaDeDos, EfectoCerrojos, AjenoCerrojos DEF Vida
<1>4. CASE Quieto
  <2>1. CASE UNCHANGED mutex
    BY <1>2, <1>4, <2>1, QuietoCerrojos
  <2>2. CASE ~UNCHANGED mutex
    BY <1>1, <1>4, <2>2, SyscallMutex, MutexCreateCerrojos, MutexLockCerrojos,
       MutexUnlockCerrojos
  <2> QED BY <2>1, <2>2
<1> QED BY <1>3, <1>4, SyscallQuietoOCambia

LEMMA LiberacionCerrojos ==
    ASSUME IInv, Lugares, SinHerederos, Vida, Cerrojos, NEW a \in Actores, Liberacion(a)
    PROVE  Cerrojos'
<1>1. UNCHANGED <<creados, nuevos, respuesta, fallo>>
  BY DEF Liberacion
<1>2. CASE Suelta1(a)
  BY <1>1, <1>2, Suelta1Cerrojos
<1>3. CASE DesencolarTodos(a)
  BY <1>1, <1>3, DesencolarTodosCerrojos DEF Vida
<1>4. CASE DespertarJoins(a)
  BY <1>1, <1>4, DespertarJoinsCerrojos
<1>5. CASE HeredarMutex(a) /\ ~Suelta1(a)
  BY <1>1, <1>5, HeredarMutexCerrojos DEF Suelta1
<1> QED BY <1>2, <1>3, <1>4, <1>5 DEF Liberacion, Suelta1

\* The other steps change no mutex, nor what CP does with those of a dead thread.
LEMMA PasoQuietaCP ==
    ASSUME IInv, [Next]_vars, ~Syscall, \A a \in Actores : ~Liberacion(a)
    PROVE  UNCHANGED mutex /\ CPQuieta
<1>0. CP \in Actores /\ LP \in Actores /\ Hilos \subseteq Actores /\ LP # CP /\ CP \notin Hilos
  BY ActoresDistintos DEF Actores
<1>1. ASSUME NEW a \in Actores, Falla(a) PROVE UNCHANGED mutex /\ CPQuieta
  BY <1>1 DEF Falla, procesos, CPQuieta
<1>2. CASE PasoCP /\ ~Falla(CP)
  <2>1. UNCHANGED procesos /\ pc[CP] \notin {"joins", "mutex"}
    BY <1>0, <1>2 DEF PasoCP, EsperaReady, HayReady, Planificar, PonerEnExec, EjecutarHilo, FinEjecucion,
       EsperarQuantum, Interrupcion, CPUContesta, CrearHilo, FinHilo, EnPaso
  <2> QED BY <2>1 DEF procesos, CPQuieta
<1>3. ASSUME NEW a \in Actores, a # CP, SoloMueve(a), UNCHANGED procesos
      PROVE  UNCHANGED mutex /\ CPQuieta
  BY <1>0, <1>3 DEF SoloMueve, procesos, CPQuieta
<1>4. CASE PasoLP /\ ~Falla(LP)
  <2>1. UNCHANGED procesos /\ (ConsultarLargoPlazo \/ TomarNuevo \/ CrearProceso \/ AtenderRespuesta)
    BY <1>0, <1>4 DEF PasoLP
  <2>2. CASE ConsultarLargoPlazo \/ CrearProceso
    <3>1. UNCHANGED loc /\ (Va(LP, "sem_new") \/ Va(LP, "responde"))
      BY <2>2 DEF ConsultarLargoPlazo, CrearProceso
    <3> QED BY <1>0, <1>3, <2>1, <3>1, SoloVa
  <2>3. CASE TomarNuevo
    <3>1. Va(LP, "crear_proceso") /\ \E l : loc' = [loc EXCEPT ![LP] = l]
      BY <2>3, Zenon DEF TomarNuevo
    <3> QED BY <1>0, <1>3, <2>1, <3>1, SoloVa
  <2>4. CASE AtenderRespuesta
    <3>1. /\ Va(LP, "inicio") \/ Va(LP, "desencola")
          /\ UNCHANGED loc \/ \E l : loc' = [loc EXCEPT ![LP] = l]
      BY <2>4 DEF AtenderRespuesta, Admitir, Postergar, Rechazar
    <3> QED BY <1>0, <1>3, <2>1, <3>1, SoloVa
  <2> QED BY <2>1, <2>2, <2>3, <2>4
<1>5. ASSUME NEW h \in Hilos, PasoHandler(h), ~Falla(h) PROVE UNCHANGED mutex /\ CPQuieta
  <2>1. /\ UNCHANGED procesos
        /\ TomarMutexIO(h) \/ SoltarMutexIO(h) \/ FinIO(h) \/ FinDump(h)
    BY <1>0, <1>5 DEF PasoHandler
  <2>2. /\ Va(h, "io_duerme") \/ Va(h, "io_sale") \/ Va(h, "no") \/ Va(h, "fin_proceso")
        /\ UNCHANGED loc \/ \E l : loc' = [loc EXCEPT ![h] = l]
    BY <2>1 DEF TomarMutexIO, SoltarMutexIO, FinIO, FinDump, SalirProceso
  <2>3. SoloMueve(h)
    BY <1>0, <2>2, SoloVa
  <2> QED BY <1>0, <1>3, <2>1, <2>3
<1>6. CASE PasoQuantum \/ UNCHANGED vars
  BY <1>6 DEF PasoQuantum, vars, procesos, CPQuieta
<1> QED BY <1>0, <1>1, <1>2, <1>4, <1>5, <1>6 DEF Next

LEMMA NextCerrojos ==
    ASSUME SinCancelar, Sano, EnOrden, SinReentrada, Propios, Cerrojos, [Next]_vars
    PROVE  Cerrojos'
<1>1. CASE Syscall
  BY <1>1, SyscallCerrojos DEF Sano, EnOrden
<1>2. CASE \E a \in Actores : Liberacion(a)
  BY <1>2, LiberacionCerrojos DEF Sano, EnOrden
<1>3. CASE ~Syscall /\ \A a \in Actores : ~Liberacion(a)
  <2>1. UNCHANGED mutex /\ CPQuieta
    BY <1>3, PasoQuietaCP DEF Sano
  <2>2. Quieto \/ Cambia
    BY NextQuietoOCambia DEF Sano, EnOrden
  <2> QED BY <2>1, <2>2, QuietoCerrojos, CambiaDeDos, EfectoCerrojos, AjenoCerrojos
      DEF Sano, Vida
<1> QED BY <1>1, <1>2, <1>3

LEMMA InitPropiosCerrojos == Init => Propios /\ Cerrojos
<1> SUFFICES ASSUME Init PROVE Propios /\ Cerrojos
  OBVIOUS
<1>1. /\ hilo_en_exec = NULO /\ cola_ready = <<>> /\ cola_blocked = <<>>
      /\ pc[CP] = "sem_ready" /\ pc[LP] = "inicio" /\ \A h \in Hilos : pc[h] = "no"
      /\ \A p \in Pids : mutex[p] = <<>>
  BY ActoresDistintos, Zenon DEF Init
<1>2. Presentes = {}
  <2>1. \A p \in Pids : DOMAIN mutex[p] = {}
    BY <1>1
  <2>2. EnColas = {} /\ Elegidos = {} /\ EnManos = {} /\ Esperan = {}
    BY <1>1, <2>1 DEF EnColas, ToSet, Elegidos, EnManos, Manos, Esperan
  <2>3. pc[CP] # "crear_hilo" /\ ~Admitiendo
    BY <1>1 DEF Admitiendo
  <2> QED BY <2>2, <2>3 DEF Presentes, Activos
<1>3. Propios
  BY <1>2 DEF Propios
<1>4. Cerrojos
  BY <1>1 DEF Cerrojos, SinMutex
<1> QED BY <1>3, <1>4

\* While nothing has failed the mutexes are as their handlers take them to be.
LEMMA CoherenteDe ==
    ASSUME Sano, Ubicados, Propios, Cerrojos, fallo = "ninguno"
    PROVE  MutexCoherente
<1> SUFFICES ASSUME NEW p \in Vivos, NEW k \in DOMAIN mutex[p],
                    \A a \in Actores : ~(EnSalida(a) /\ p \in {loc[a].proceso, loc[a].dueno})
             PROVE  LET r == mutex[p][k] IN
                    /\ r.hilos # <<>> => r.owner # Nadie
                    /\ r.owner # Nadie => /\ <<p, r.owner>> \in ToSet(threads[p])
                                          /\ <<p, r.owner>> \notin ToSet(r.hilos)
                    /\ \A h \in ToSet(r.hilos) : h \in ToSet(cola_blocked)
  BY DEF MutexCoherente, Vivos
<1>1. p \in Pids /\ CP \in Actores
  BY ElementosDeLista, ActoresDistintos DEF Vivos, Sano, IInv, TypeOK, TipoProcesos
<1>2. ~Terminando(p)
  BY DEF Terminando
<1>3. EnUso(p, k)
  BY <1>1 DEF Cerrojos
<1>4. p \in Vivos \ ToSet(cola_new)
  <2>1. mutex[p] # <<>>
    OBVIOUS
  <2> QED BY <1>1, <2>1 DEF Cerrojos, SinMutex
<1>5. mutex[p][k].owner # Nadie => Dueno(p, k) \in Suyos(p)
  <2> SUFFICES ASSUME mutex[p][k].owner # Nadie PROVE Dueno(p, k) \in Suyos(p)
    OBVIOUS
  <2>1. Dueno(p, k) \in Suyos(p) \/ Suelto(Dueno(p, k), k)
    BY <1>2, <1>3 DEF EnUso, DuenoVive
  <2>2. Dueno(p, k)[1] = p
    BY DEF Dueno
  <2>3. ~Suelto(Dueno(p, k), k)
    BY <1>1, <2>2 DEF Suelto, EnSalida
  <2> QED BY <2>1, <2>3
<1>6. ASSUME NEW h \in ToSet(mutex[p][k].hilos) PROVE h \in ToSet(cola_blocked)
  <2>1. h \in Hilos /\ h \in Esperan
    <3>1. mutex[p][k].hilos \in Seq(Hilos)
      <4>1. mutex[p] \in Seq(Mutexes)
        BY <1>1 DEF Sano, IInv, TypeOK, TipoProcesos
      <4>2. mutex[p][k] \in Mutexes
        BY <4>1, ElementosDeLista
      <4> QED BY <4>2 DEF Mutexes
    <3>2. h \in Hilos
      BY <3>1, ElementosDeLista
    <3> QED BY <1>1, <3>2 DEF Esperan
  <2>2. h[1] = p
    BY <1>3 DEF EnUso
  <2>3. estado[h] = "BLOCKED" /\ h \in Activos /\ Visto(h)
    BY <2>1 DEF Sano, Seguro, Atados, Activos, Lugares, Vistos, Ocupados
  <2>4. h \in Suyos(p)
    BY <1>2, <2>1, <2>2, <2>3 DEF Propios, Presentes, Borrando, Terminando
  <2>5. Ubicado(h)
    BY <1>2, <1>4, <2>4 DEF Ubicados
  <2>6. h \notin ToSet(cola_ready) /\ hilo_en_exec # h /\ h \notin Elegidos
    <3>1. h # NULO
      BY <2>1, ActoresDistintos
    <3> QED BY <2>3, <3>1 DEF Sano, Lugares, UnSoloLugar, Eligiendo, Elegidos
  <2>7. ~(pc[CP] = "fin_hilo" /\ loc[CP].hilo = h)
    BY <2>3 DEF Sano, Vida, SueltoFuera
  <2>8. ~Limbo(h)
    <3> SUFFICES ASSUME Limbo(h) PROVE FALSE
      OBVIOUS
    <3>1. loc[CP].hilo = h /\ EnSalida(CP)
      BY <2>3 DEF Limbo, Visto
    <3>2. loc[CP].proceso # p
      BY <1>1, <3>1
    <3>3. Saliente(CP)
      BY <1>1, <3>1 DEF Sano, Vida, SalientesSuyos
    <3>4. loc[CP].proceso = NULO
      BY <2>1, <2>2, <3>1, <3>2, <3>3 DEF Saliente
    <3> QED BY <2>3, <3>1, <3>4 DEF Sano, Vida, SueltoFuera
  <2> QED BY <2>5, <2>6, <2>7, <2>8 DEF Ubicado, EnColas
<1> QED BY <1>3, <1>5, <1>6 DEF EnUso, Dueno, Suyos

LEMMA CoherenteIgual ==
    ASSUME MutexCoherente, UNCHANGED <<procesos, cola_blocked, loc>>,
           \A a \in Actores : EnSalida(a)' <=> EnSalida(a)
    PROVE  MutexCoherente'
  BY DEF MutexCoherente, procesos

\* The steps after which fallo is set change no mutex, nor who waits for them.
LEMMA FalloSyscall ==
    ASSUME IInv, Lugares, Syscall, fallo' # "ninguno"
    PROVE  /\ UNCHANGED <<procesos, cola_blocked, loc>>
           /\ \A a \in Actores : EnSalida(a)' <=> EnSalida(a)
<1>1. /\ CP \in Actores /\ pc[CP] = "cpu" /\ fallo = "ninguno"
      /\ hilo_en_exec \in Hilos /\ hilo_en_exec # NULO
  BY AlAtender, ActoresDistintos DEF Syscall, EnSyscall, CPUContesta, EnPaso
<1>2. PICK s : MutexUnlock(s) \/ ThreadExit(s)
  <2>1. PICK s :
        \/ DumpMemory(s) \/ PeticionIO(s) \/ IniciarProceso(s) \/ ThreadCreate(s)
        \/ ThreadJoin(s) \/ ThreadCancel(s) \/ MutexCreate(s) \/ MutexLock(s)
        \/ MutexUnlock(s) \/ ThreadExit(s) \/ ProcessExit(s)
    BY Zenon DEF Syscall
  <2>2. CASE \/ DumpMemory(s) \/ PeticionIO(s) \/ IniciarProceso(s) \/ ThreadCreate(s)
             \/ ThreadJoin(s) \/ ThreadCancel(s) \/ MutexCreate(s) \/ MutexLock(s)
             \/ ProcessExit(s)
    BY <1>1, <2>2 DEF DumpMemory, PeticionIO, IniciarProceso, ThreadCreate, ThreadJoin,
       ThreadCancel, MutexCreate, MutexLock, ProcessExit
  <2> QED BY <2>1, <2>2
<1>3. CASE MutexUnlock(s)
  <2>1. Va(CP, "cambio") /\ UNCHANGED <<procesos, colas, loc>>
    BY <1>1, <1>3 DEF MutexUnlock, procesos
  <2>2. SoloMueve(CP) /\ pc'[CP] = "cambio"
    BY <1>1, <2>1, SoloVa
  <2> QED BY <1>1, <2>1, <2>2 DEF SoloMueve, EnSalida, colas
<1>4. CASE ThreadExit(s)
  <2>1. Desencolar(hilo_en_exec) /\ UNCHANGED <<procesos, pc, loc>>
    BY <1>1, <1>4 DEF ThreadExit
  <2>2. estado[hilo_en_exec] = "EXEC"
    BY <1>1, ExecEnColas
  <2>3. UNCHANGED cola_blocked
    BY <2>1, <2>2 DEF Desencolar, BlockedSin
  <2> QED BY <2>1, <2>3 DEF EnSalida
<1> QED BY <1>2, <1>3, <1>4

LEMMA FalloDeQuien ==
    ASSUME [Next]_vars, fallo' # "ninguno"
    PROVE  UNCHANGED vars \/ Syscall \/ \E a \in Actores : Falla(a)
<1>0. CP \in Actores /\ LP \in Actores /\ Hilos \subseteq Actores
  BY ActoresDistintos DEF Actores
<1>1. ASSUME NEW a \in Actores PROVE ~Liberacion(a)
  BY DEF Liberacion, FinProceso, DesencolarTodos, LiberarPcb, LiberarHilo, DespertarJoins,
         HeredarMutex, EnPaso
<1>2. CASE PasoCP
  BY <1>0, <1>1, <1>2 DEF PasoCP, EsperaReady, HayReady, Planificar, PonerEnExec, EjecutarHilo,
     FinEjecucion, EsperarQuantum, Interrupcion, CPUContesta, CrearHilo, FinHilo, EnPaso
<1>3. CASE PasoLP
  BY <1>0, <1>1, <1>3 DEF PasoLP, ConsultarLargoPlazo, TomarNuevo, CrearProceso,
     AtenderRespuesta, EnPaso
<1>4. ASSUME NEW h \in Hilos, PasoHandler(h) PROVE Falla(h)
  BY <1>0, <1>1, <1>4 DEF PasoHandler, TomarMutexIO, SoltarMutexIO, FinIO, FinDump, EnPaso
<1>5. ~PasoQuantum
  BY DEF PasoQuantum
<1> QED BY <1>0, <1>2, <1>3, <1>4, <1>5 DEF Next

LEMMA FalloQuieto ==
    ASSUME IInv, Lugares, [Next]_vars, fallo' # "ninguno", MutexCoherente
    PROVE  MutexCoherente'
<1>1. CASE UNCHANGED vars \/ \E a \in Actores : Falla(a)
  <2>1. UNCHANGED <<procesos, cola_blocked, loc, pc>>
    BY <1>1 DEF vars, colas, Falla
  <2> QED BY <2>1, CoherenteIgual DEF EnSalida
<1>2. CASE Syscall
  BY <1>2, FalloSyscall, CoherenteIgual
<1> QED BY <1>1, <1>2, FalloDeQuien

(* For programs that cancel no thread, as long as the thread that runs is   *)
(* of an existing process and locks no mutex of its own, no owner of a      *)
(* mutex dies while others wait, and processes end alone: whatever the      *)
(* order of schedulers, timer, handlers and memoria's answers, MUTEX_LOCK,  *)
(* MUTEX_UNLOCK (syscalls.c:151-212) and the hand-over of a dead thread's   *)
(* mutexes (utils.c:106-120) leave every waiter BLOCKED behind an owner     *)
(* that exists and does not wait for itself.                                *)
THEOREM KernelMutexCoherente ==
    ASSUME SinCancelar
    PROVE  Spec /\ []EnOrden /\ []FinLimpio /\ []SinReentrada => []MutexCoherente
<1> DEFINE J == Ubicados /\ Propios /\ Cerrojos
<1>1. Sano /\ J /\ SinFallo => MutexCoherente
  BY CoherenteDe DEF SinFallo
<1>2. Init => J /\ SinFallo
  BY InitUbicados, InitPropiosCerrojos DEF Init, SinFallo
<1>3. /\ Sano /\ Sano' /\ EnOrden /\ FinLimpio /\ SinReentrada /\ J /\ [Next]_vars
      => J'
  <2> SUFFICES ASSUME Sano, Sano', EnOrden, FinLimpio, SinReentrada, J, [Next]_vars
               PROVE  J'
    OBVIOUS
  <2>1. Ubicados'
    BY NextUbicados DEF FinLimpio
  <2>2. Propios'
    BY NextQuietoOCambia, NextPropios DEF Sano, EnOrden
  <2>3. Cerrojos'
    BY NextCerrojos
  <2> QED BY <2>1, <2>2, <2>3
<1>4. Sano /\ MutexCoherente /\ [Next]_vars => MutexCoherente' \/ SinFallo'
  BY FalloQuieto DEF Sano, SinFallo
<1>5. Spec /\ []EnOrden => []Sano
  BY SpecSano
<1> QED BY <1>1, <1>2, <1>3, <1>4, <1>5, PTL DEF Spec
=============================================================================
