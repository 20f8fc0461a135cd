------------------------------ MODULE CpuProofs ------------------------------
(***************************************************************************)
(* Proofs about Cpu.  Invariante is inductive: Correspondencia alone does  *)
(* not say that a thread in a queue, or about to be sent, has a context.   *)
(*                                                                         *)
(* With it, Cpu implements Computo: a thread whose context is copied back  *)
(* and forth and who loses the CPU at any instruction runs its script once.*)
(*                                                                         *)
(* The last sections are about the data: the words and the bytes           *)
(* (CpuTypeOK, which needs what Potencia and Leido compute) and the        *)
(* program counter (CpuSigueSiempre, by EnScript).                         *)
(***************************************************************************)
EXTENDS CpuProps, TLAPS

Listas == INSTANCE ListasLemas

Colas ==
    /\ DOMAIN pcb \subseteq Hilos
    /\ listos \subseteq DOMAIN pcb /\ bloqueados \subseteq DOMAIN pcb
    /\ listos \cap bloqueados = {}

Turno ==
    /\ kpc \in {"planifica", "despacha", "responde", "fin"}
    /\ kpc \in {"despacha", "responde"} =>
          hilo_en_exec \in DOMAIN pcb \ (listos \cup bloqueados)

Invariante ==
    /\ Colas
    /\ Turno
    /\ despacho \in Seq(Hilos)
    /\ respuesta # <<>> =>
          respuesta = <<[hilo |-> hilo_en_exec, motivo |-> respuesta[1].motivo]>>
    /\ cpc \in EtiquetasCpu
    /\ ~flag_fin_programa
    /\ Correspondencia

LEMMA InitInvariante == Init => Invariante
  BY DEF Init, Invariante, Colas, Turno, Correspondencia, Trabaja, EtiquetasCpu

\* Until the answer is read nothing else is under way.
LEMMA UnaRespuesta ==
  ASSUME Invariante, kpc = "responde", respuesta # <<>>
  PROVE  /\ despacho = <<>> /\ ~Trabaja
         /\ Tail(respuesta) = <<>> /\ respuesta[1].hilo = hilo_en_exec
<1> DEFINE m == respuesta[1].motivo
<1>1. respuesta = <<[hilo |-> hilo_en_exec, motivo |-> m]>>
  BY DEF Invariante
<1>2. despacho = <<>> /\ ~Trabaja
  <2>1. \/ respuesta = <<>>
        \/ despacho = <<>> /\ Len(respuesta) = 1 /\ ~Trabaja
    BY Zenon DEF Invariante, Correspondencia
  <2> QED BY <2>1, Zenon
<1>3. Tail(respuesta) = <<>> /\ respuesta[1].hilo = hilo_en_exec
  <2> HIDE DEF m
  <2> QED BY <1>1
<1> QED BY <1>2, <1>3, Zenon

USE DEF vars, kernel, quantum, memoria, dispatch

LEMMA NextInvariante == Invariante /\ [Next]_vars => Invariante'
<1> SUFFICES ASSUME Invariante, [Next]_vars PROVE Invariante'
    OBVIOUS
<1> USE DEF Invariante, Colas, Turno, Correspondencia, Trabaja, EtiquetasCpu
<1>1. ASSUME NEW h \in Hilos, Planificar(h) PROVE Invariante'
  BY <1>1 DEF Planificar
<1>2. CASE EnviarHilo
  <2>1. despacho = <<>> /\ hilo_en_exec \in Hilos
    BY <1>2 DEF EnviarHilo
  <2>2. despacho' = <<hilo_en_exec>>
    BY <1>2, <2>1 DEF EnviarHilo
  <2> QED
    BY <1>2, <2>1, <2>2 DEF EnviarHilo
<1>3. CASE NoEnviar
  BY <1>3 DEF NoEnviar
<1>4. CASE Interrupcion
  BY <1>4 DEF Interrupcion, Atender, Syscalls
<1>5. CASE TerminaHilo
  BY <1>5 DEF TerminaHilo, Atender, SinContexto
<1>6. CASE TerminaProceso
  <2> DEFINE suyos == {h \in Hilos : Pid[h] = Pid[hilo_en_exec]}
  <2>1. PICK m \in {"PROCESS_EXIT", "SEGFAULT", "CONTINUE"} : Atender(m, "fin")
    BY <1>6 DEF TerminaProceso
  <2>2. pcb' = SinContexto(suyos) /\ listos' = listos \ suyos
        /\ bloqueados' = bloqueados \ suyos
    BY <1>6 DEF TerminaProceso
  <2>3. /\ kpc = "responde" /\ respuesta # <<>> /\ kpc' = "fin"
        /\ respuesta' = Tail(respuesta)
        /\ UNCHANGED <<despacho, dispatch, flag_fin_programa>>
    BY <2>1 DEF Atender
  <2>4. kpc = "responde" /\ respuesta # <<>>
    BY <2>1 DEF Atender
  <2>5. despacho = <<>> /\ ~Trabaja
    BY <2>4, UnaRespuesta, Zenon
  <2>6. respuesta' = <<>>
    BY <2>3, <2>4, UnaRespuesta, Zenon
  <2>7. Colas'
    <3> HIDE DEF suyos
    <3> QED BY <2>2 DEF SinContexto
  <2> QED
    BY <2>3, <2>7, <2>5, <2>6
<1>7. ASSUME NEW m \in Syscalls, Bloquea(m) PROVE Invariante'
  BY <1>7 DEF Bloquea, Atender
<1>8. ASSUME NEW h \in Hilos, Cancela(h) PROVE Invariante'
  <2>1. /\ kpc = "responde" /\ respuesta # <<>> /\ kpc' = "fin"
        /\ respuesta' = Tail(respuesta)
        /\ UNCHANGED <<despacho, dispatch, flag_fin_programa>>
    BY <1>8 DEF Cancela, Atender
  <2>2. despacho = <<>> /\ ~Trabaja
    BY <2>1, UnaRespuesta, Zenon
  <2>3. respuesta' = <<>>
    BY <2>1, UnaRespuesta, Zenon
  <2>4. Colas'
    BY <1>8 DEF Cancela, SinContexto
  <2> QED
    BY <2>1, <2>2, <2>3, <2>4
<1>9. ASSUME NEW m \in Syscalls, Continua(m) PROVE Invariante'
  BY <1>9 DEF Continua, Atender
<1>10. CASE FinDeTurno
  BY <1>10 DEF FinDeTurno
<1>11. CASE Temporizador
  BY <1>11 DEF Temporizador, Vence, Desaloja
<1>12. CASE RecibirHilo
  BY <1>12 DEF RecibirHilo, En
<1>13. CASE MarcarEjecutando
  BY <1>13 DEF MarcarEjecutando, En
<1>14. CASE ObtenerContexto
  BY <1>14 DEF ObtenerContexto, En, Seguir, EsContexto
<1>15. CASE Fetch
  BY <1>15 DEF Fetch, En
<1>16. CASE Execute
  BY <1>16 DEF Execute, En
<1>17. CASE Bucle
  BY <1>17 DEF Bucle, En
<1>18. CASE FijarMotivo
  BY <1>18 DEF FijarMotivo, En
<1>19. CASE ActualizarContexto
  BY <1>19 DEF ActualizarContexto, En, Seguir, EsContexto
<1>20. CASE EnviarMotivo
  <2>1. respuesta = <<>> /\ kpc = "responde" /\ hilo = hilo_en_exec
    BY <1>20 DEF EnviarMotivo, En
  <2>2. respuesta' = <<[hilo |-> hilo, motivo |-> motivo]>>
    BY <1>20, <2>1 DEF EnviarMotivo
  <2> QED
    BY <1>20, <2>1, <2>2 DEF EnviarMotivo, En
<1>21. CASE LimpiarContexto
  BY <1>21 DEF LimpiarContexto, En
<1>22. CASE BajarFlags
  BY <1>22 DEF BajarFlags, En
<1>23. CASE Interrupt
  BY <1>23 DEF Interrupt, RecibirInterrupcion, MarcarInterrupcion
<1>24. ASSUME NEW h \in Hilos, Despertar(h) PROVE Invariante'
  BY <1>24 DEF Despertar
<1>25. CASE UNCHANGED vars
  BY <1>25
<1> QED
  BY <1>1, <1>2, <1>3, <1>4, <1>5, <1>6, <1>7, <1>8, <1>9, <1>10, <1>11, <1>12, <1>13, <1>14,
     <1>15, <1>16, <1>17, <1>18, <1>19, <1>20, <1>21, <1>22, <1>23, <1>24, <1>25
     DEF Next, Planificador, Dispatch

(* Nothing the CPU holds or the sockets carry is ever about a thread other *)
(* than the one whose turn it is, however the interrupt port and the       *)
(* quantum interleave (planificador_corto_plazo.c:105, servidor_cpu.c:24). *)
THEOREM CorrespondenciaSiempre == Spec => []Correspondencia
<1>1. Init => Invariante
  BY InitInvariante
<1>2. Invariante /\ [Next]_vars => Invariante'
  BY NextInvariante
<1>3. Invariante => Correspondencia
  BY DEF Invariante
<1> QED BY <1>1, <1>2, <1>3, PTL DEF Spec

(* memoria always knows the thread the CPU asks about, so the CPU never    *)
(* stops for PID_NOT_FOUND (operaciones_memoria.c:34,128), as long as no   *)
(* dump fails (see Cpu).                                                   *)
THEOREM NuncaAborta == Spec => []~flag_fin_programa
<1>1. Init => Invariante
  BY InitInvariante
<1>2. Invariante /\ [Next]_vars => Invariante'
  BY NextInvariante
<1>3. Invariante => ~flag_fin_programa
  BY DEF Invariante
<1> QED BY <1>1, <1>2, <1>3, PTL DEF Spec

-----------------------------------------------------------------------------
(* The refinement of Computo.                                              *)

EsCtx(c) == /\ c = [x \in DOMAIN c |-> c[x]]
            /\ {"pc", "reg"} \subseteq DOMAIN c /\ c.pc \in Nat

\* An execution that goes on has no reason to stop.
Forma(e) ==
    /\ DOMAIN e = {"ctx", "ram", "desalojo", "interrupt", "motivo"}
    /\ EsCtx(e.ctx) /\ e.desalojo \in BOOLEAN /\ e.interrupt \in BOOLEAN
    /\ e.desalojo = FALSE => e.motivo = "CONTINUE"

LEMMA FaltaForma == ASSUME NEW e, Forma(e) PROVE Forma(Falta(e))
  BY DEF Forma, Falta

LEMMA GetRegistryForma == ASSUME NEW e, NEW r, Forma(e) PROVE Forma(GetRegistry(e, r))
  BY FaltaForma DEF GetRegistry

LEMMA SetRegistryForma ==
  ASSUME NEW e, NEW r, NEW v, Forma(e) PROVE Forma(SetRegistry(e, r, v))
<1>1. CASE r \in Registros
  <2> DEFINE c == [e.ctx EXCEPT !.reg = [@ EXCEPT ![r] = v]]
             n == [e EXCEPT !.ctx = c]
  <2>1. SetRegistry(e, r, v) = n
    BY <1>1 DEF SetRegistry
  <2>2. EsCtx(c)
    BY DEF Forma, EsCtx
  <2>3. Forma(n)
    <3> HIDE DEF c
    <3> QED BY <2>2 DEF Forma
  <2> QED BY <2>1, <2>3
<1>2. CASE r \notin Registros
  BY <1>2, FaltaForma DEF SetRegistry
<1> QED BY <1>1, <1>2

LEMMA CheckForma ==
  ASSUME NEW e, NEW q, Forma(e), e.desalojo = TRUE \/ q = "CONTINUE"
  PROVE  Forma(CheckDesalojo(e, q))
  BY DEF Forma, CheckDesalojo

LEMMA JnzForma ==
  ASSUME NEW e, NEW i, Forma(e), i.pc \in Nat PROVE Forma(Jnz(e, i))
<1> DEFINE l == GetRegistry(e, i.origen)
           s == IF Valor(e, i.origen) = 0 THEN l ELSE [l EXCEPT !.ctx.pc = i.pc]
<1>1. Forma(l)
  BY GetRegistryForma
<1>2. Forma(s)
  <2> HIDE DEF l
  <2>1. ASSUME NEW c, c = [l.ctx EXCEPT !.pc = i.pc] PROVE EsCtx(c)
    BY <1>1, <2>1 DEF Forma, EsCtx
  <2>2. EsCtx([l.ctx EXCEPT !.pc = i.pc])
    BY <2>1
  <2>3. Forma([l EXCEPT !.ctx = [l.ctx EXCEPT !.pc = i.pc]])
    BY <1>1, <2>2 DEF Forma
  <2> QED BY <1>1, <2>3
<1>3. Jnz(e, i) = CheckDesalojo(s, "CONTINUE")
  BY DEF Jnz
<1> HIDE DEF s
<1> QED BY <1>2, <1>3, CheckForma

LEMMA TraducidaForma == ASSUME NEW e, NEW r, Forma(e) PROVE Forma(Traducida(e, r))
  BY GetRegistryForma, FaltaForma DEF Traducida

LEMMA RechazadaForma == ASSUME NEW e, Forma(e) PROVE Forma(Rechazada(e))
<1>1. Forma(Falta(e))
  BY FaltaForma
<1>2. Falta(e).desalojo = TRUE
  BY DEF Forma, Falta
<1> QED BY <1>1, <1>2 DEF Forma, Rechazada

LEMMA MemoriaForma ==
  ASSUME NEW e, NEW i, Forma(e) PROVE Forma(ReadMem(e, i)) /\ Forma(WriteMem(e, i))
<1>1. Forma(ReadMem(e, i))
  <2>1. Forma(Traducida(e, i.origen))
    BY TraducidaForma
  <2>2. \/ ReadMem(e, i) = Rechazada(Traducida(e, i.origen))
        \/ \E v : ReadMem(e, i) = SetRegistry(Traducida(e, i.origen), i.destino, v)
    BY Zenon DEF ReadMem
  <2> QED BY <2>1, <2>2, RechazadaForma, SetRegistryForma
<1>2. Forma(WriteMem(e, i))
  <2> DEFINE t == GetRegistry(Traducida(e, i.destino), i.origen)
  <2>1. Forma(t)
    BY TraducidaForma, GetRegistryForma
  <2>2. \/ WriteMem(e, i) = Rechazada(t)
        \/ \E m : WriteMem(e, i) = [t EXCEPT !.ram = m]
    BY Zenon DEF WriteMem
  <2> HIDE DEF t
  <2> QED BY <2>1, <2>2, RechazadaForma DEF Forma
<1> QED BY <1>1, <1>2

LEMMA EjecutadaForma ==
  ASSUME NEW e, NEW i, Forma(e), i.op = "JNZ" => i.pc \in Nat
  PROVE  Forma(Ejecutada(e, i))
<1>1. Forma(Set(e, i)) /\ Forma(Log(e, i)) /\ Forma(Sum(e, i)) /\ Forma(Sub(e, i))
  BY GetRegistryForma, SetRegistryForma, CheckForma, Zenon DEF Set, Log, Sum, Sub
<1>2. Forma(Syscall(e, i))
  <2>1. Forma([e EXCEPT !.desalojo = TRUE]) /\ [e EXCEPT !.desalojo = TRUE].desalojo = TRUE
    BY DEF Forma
  <2> QED BY <2>1, CheckForma, Zenon DEF Syscall
<1>3. Forma(Desconocida(e))
  <2>1. Forma(Falta(e)) /\ Falta(e).desalojo = TRUE
    BY FaltaForma DEF Forma, Falta
  <2> QED BY <2>1, CheckForma, Zenon DEF Desconocida
<1>4. i.op = "JNZ" => Forma(Jnz(e, i))
  BY JnzForma
<1>5. Forma(ReadMem(e, i)) /\ Forma(WriteMem(e, i))
  BY MemoriaForma
<1> QED BY <1>1, <1>2, <1>3, <1>4, <1>5 DEF Ejecutada

-----------------------------------------------------------------------------
(* The flags and the context between two system calls.                     *)

Coherente ==
    /\ \A h \in DOMAIN pcb : EsCtx(pcb[h])
    /\ cpc \in {"fetch", "execute", "bucle", "motivo", "actualiza"} => EsCtx(contexto)
    /\ cpc = "execute" => contexto.pc \in 1..Len(Programa[hilo])
    /\ cpc \in {"recibe", "ejecutando", "contexto", "fetch", "execute"} =>
          flag_desalojo = FALSE /\ motivo = "CONTINUE"
    /\ cpc \in {"bucle", "motivo"} /\ flag_desalojo = FALSE => motivo = "CONTINUE"
    /\ cpc = "motivo" /\ flag_desalojo = FALSE => flag_interrupt = TRUE
    /\ cpc \in {"actualiza", "envia"} /\ motivo = "CONTINUE" => flag_desalojo = TRUE
    /\ flag_desalojo \in BOOLEAN /\ flag_interrupt \in BOOLEAN
    /\ fallo # "ninguno" => cpc = "fetch"

LEMMA InitCoherente == Init => Coherente
<1>1. \A h \in Hilos : EsCtx(Contexto[h])
  BY ConstantesCpu DEF Registro, EsCtx
<1> QED BY <1>1 DEF Init, Coherente

LEMMA AntesForma ==
  ASSUME Invariante, Coherente, cpc = "execute"
  PROVE  Forma(Ejecutada(Ejecucion, Programa[hilo][contexto.pc]))
<1>1. Forma(Ejecucion)
  BY DEF Coherente, Forma, Ejecucion
<1>2. hilo \in Hilos
  BY DEF Invariante, Colas, Turno, Correspondencia, Trabaja
<1>3. Programa[hilo][contexto.pc].op = "JNZ" => Programa[hilo][contexto.pc].pc \in Nat
  BY <1>2, ConstantesCpu DEF Coherente
<1> QED BY <1>1, <1>3, EjecutadaForma

USE DEF vars, kernel, quantum, memoria, dispatch

LEMMA NextCoherente == Invariante /\ Coherente /\ [Next]_vars => Coherente'
<1> SUFFICES ASSUME Invariante, Coherente, [Next]_vars PROVE Coherente'
    OBVIOUS
<1> USE DEF Coherente
<1>1. ASSUME NEW h \in Hilos, Planificar(h) PROVE Coherente'
  BY <1>1 DEF Planificar
<1>2. CASE EnviarHilo
  BY <1>2 DEF EnviarHilo
<1>3. CASE NoEnviar
  BY <1>3 DEF NoEnviar
<1>4. CASE Interrupcion
  BY <1>4 DEF Interrupcion, Atender
<1>5. CASE TerminaHilo
  BY <1>5 DEF TerminaHilo, Atender, SinContexto
<1>6. CASE TerminaProceso
  BY <1>6 DEF TerminaProceso, Atender, SinContexto
<1>7. ASSUME NEW m \in Syscalls, Bloquea(m) PROVE Coherente'
  BY <1>7 DEF Bloquea, Atender
<1>8. ASSUME NEW h \in Hilos, Cancela(h) PROVE Coherente'
  BY <1>8 DEF Cancela, Atender, SinContexto
<1>9. ASSUME NEW m \in Syscalls, Continua(m) PROVE Coherente'
  BY <1>9 DEF Continua, Atender
<1>10. CASE FinDeTurno
  BY <1>10 DEF FinDeTurno
<1>11. CASE Temporizador
  BY <1>11 DEF Temporizador, Vence, Desaloja
<1>12. CASE RecibirHilo
  BY <1>12 DEF RecibirHilo, En
<1>13. CASE MarcarEjecutando
  BY <1>13 DEF MarcarEjecutando, En
<1>14. CASE ObtenerContexto
  <2>1. hilo \in DOMAIN pcb
    BY <1>14 DEF ObtenerContexto, En, Invariante, Colas, Turno, Correspondencia, Trabaja
  <2> QED
    BY <1>14, <2>1 DEF ObtenerContexto, En, Seguir, EsContexto
<1>15. CASE Fetch
  <2>1. CASE fallo' = fallo
    <3>1. /\ contexto' = [contexto EXCEPT !.pc = @ + 1] /\ cpc' = "execute" /\ cpc = "fetch"
          /\ contexto.pc < Len(Programa[hilo])
          /\ fallo = "ninguno"
          /\ UNCHANGED <<pcb, hilo, flag_desalojo, motivo, flag_interrupt>>
      BY <1>15, <2>1 DEF Fetch, En
    <3>2. EsCtx(contexto') /\ contexto'.pc = contexto.pc + 1 /\ contexto.pc \in Nat
      BY <3>1 DEF EsCtx
    <3>3. Len(Programa[hilo]) \in Nat
      BY <3>1, ConstantesCpu DEF Invariante, Colas, Turno, Correspondencia, Trabaja
    <3> QED BY <2>1, <3>1, <3>2, <3>3
  <2>2. CASE fallo' # fallo
    BY <1>15, <2>2 DEF Fetch, En
  <2> QED BY <2>1, <2>2
<1>16. CASE Execute
  <2> DEFINE e == Ejecutada(Ejecucion, Programa[hilo][contexto.pc])
  <2>1. Forma(e)
    BY <1>16, AntesForma DEF Execute, En
  <2>2. /\ contexto' = e.ctx /\ flag_desalojo' = e.desalojo
        /\ flag_interrupt' = e.interrupt /\ motivo' = e.motivo
        /\ cpc' = "bucle" /\ pcb' = pcb /\ fallo' = "ninguno"
    BY <1>16 DEF Execute, En
  <2> HIDE DEF e
  <2> QED BY <2>1, <2>2 DEF Forma
<1>17. CASE Bucle
  BY <1>17 DEF Bucle, En, Invariante
<1>18. CASE FijarMotivo
  BY <1>18 DEF FijarMotivo, En
<1>19. CASE ActualizarContexto
  BY <1>19 DEF ActualizarContexto, En, Seguir, Abortar, EsContexto
<1>20. CASE EnviarMotivo
  BY <1>20 DEF EnviarMotivo, En
<1>21. CASE LimpiarContexto
  BY <1>21 DEF LimpiarContexto, En
<1>22. CASE BajarFlags
  BY <1>22 DEF BajarFlags, En
<1>23. CASE Interrupt
  BY <1>23 DEF Interrupt, RecibirInterrupcion, MarcarInterrupcion
<1>24. ASSUME NEW h \in Hilos, Despertar(h) PROVE Coherente'
  BY <1>24 DEF Despertar
<1>25. CASE UNCHANGED vars
  BY <1>25
<1> QED
  BY <1>1, <1>2, <1>3, <1>4, <1>5, <1>6, <1>7, <1>8, <1>9, <1>10, <1>11, <1>12, <1>13, <1>14,
     <1>15, <1>16, <1>17, <1>18, <1>19, <1>20, <1>21, <1>22, <1>23, <1>24, <1>25
     DEF Next, Planificador, Dispatch

-----------------------------------------------------------------------------
(* The refinement.                                                         *)

\* Computo runs the same instructions.
LEMMA MismasInstrucciones ==
  ASSUME NEW e, NEW i PROVE I!Ejecutada(e, i) = Ejecutada(e, i)
<1>0. I!Potencia = Potencia
  BY Zenon DEF I!Potencia, Potencia
<1>1. I!Syscalls = Syscalls /\ I!Modulo = Modulo
  BY <1>0 DEF I!Syscalls, Syscalls, I!Bloqueantes, Bloqueantes, I!Inmediatas, Inmediatas,
              I!Modulo, Modulo
<1>2. \A f, r, v : /\ I!Falta(f) = Falta(f) /\ I!Valor(f, r) = Valor(f, r)
                  /\ I!GetRegistry(f, r) = GetRegistry(f, r)
                  /\ I!SetRegistry(f, r, v) = SetRegistry(f, r, v)
                  /\ I!CheckDesalojo(f, v) = CheckDesalojo(f, v)
                  /\ I!Rechazada(f) = Rechazada(f)
  BY DEF I!Falta, Falta, I!Valor, Valor, I!GetRegistry, GetRegistry, I!SetRegistry, SetRegistry,
         I!CheckDesalojo, CheckDesalojo, I!Rechazada, Rechazada
<1>3. \A f, r : /\ I!TraduccionFalla(f, r) = TraduccionFalla(f, r)
               /\ I!Mmu(f, r) = Mmu(f, r) /\ I!Traducida(f, r) = Traducida(f, r)
  BY <1>1, <1>2 DEF I!TraduccionFalla, TraduccionFalla, I!Mmu, Mmu, I!Traducida, Traducida
<1>4. \A a : I!ConSigno(a) = ConSigno(a) /\ I!FueraDeRango(a) = FueraDeRango(a)
  BY <1>1 DEF I!ConSigno, ConSigno, I!FueraDeRango, FueraDeRango
<1>5. \A m, a, v : I!Leido(m, a) = Leido(m, a) /\ I!Escrito(m, a, v) = Escrito(m, a, v)
  <2>1. \A m, a : I!Leido(m, a) = Leido(m, a)
    BY <1>0, Zenon DEF I!Leido, Leido
  <2>2. \A m, a, v : I!Escrito(m, a, v) = Escrito(m, a, v)
    BY <1>0 DEF I!Escrito, Escrito, I!Octeto, Octeto
  <2> QED BY <2>1, <2>2
<1>6. I!Set(e, i) = Set(e, i) /\ I!Sum(e, i) = Sum(e, i) /\ I!Sub(e, i) = Sub(e, i)
  BY <1>1, <1>2 DEF I!Set, Set, I!Sum, Sum, I!Sub, Sub
<1>7. I!Jnz(e, i) = Jnz(e, i) /\ I!Log(e, i) = Log(e, i)
  BY <1>2 DEF I!Jnz, Jnz, I!Log, Log
<1>8. I!ReadMem(e, i) = ReadMem(e, i)
  BY <1>2, <1>3, <1>4, <1>5 DEF I!ReadMem, ReadMem
<1>9. I!WriteMem(e, i) = WriteMem(e, i)
  BY <1>2, <1>3, <1>4, <1>5 DEF I!WriteMem, WriteMem
<1>10. I!Syscall(e, i) = Syscall(e, i) /\ I!Desconocida(e) = Desconocida(e)
  BY <1>2 DEF I!Syscall, Syscall, I!Desconocida, Desconocida
<1> QED
  BY <1>1, <1>6, <1>7, <1>8, <1>9, <1>10 DEF I!Ejecutada, Ejecutada

LEMMA InitComputo == Init => I!Init
<1> SUFFICES ASSUME Init PROVE I!Init
    OBVIOUS
<1>1. \A h \in Hilos : Estado(h) = "activo" /\ Actual(h) = Contexto[h]
  BY DEF Init, Estado, EsContexto, Actual, EnCpu
<1>2. DOMAIN pcb = Hilos
  BY DEF Init
<1> QED BY <1>1, <1>2 DEF Init, I!Init, I!Direcciones, Direcciones

\* The mapping reads nothing but these variables.
LEMMA MapaIgual ==
  ASSUME UNCHANGED <<DOMAIN pcb, ram, atendidas>>,
         \A h \in DOMAIN pcb : Actual(h)' = Actual(h),
         \A h \in Hilos : Estado(h)' = Estado(h)
  PROVE  UNCHANGED I!vars
  BY DEF I!vars

USE DEF EsContexto, EnCpu

\* A thread out of the CPU is what memoria says, and waits for nothing.
LEMMA Contestado ==
  ASSUME Invariante, Coherente, kpc = "responde", respuesta # <<>>
  PROVE  /\ fallo = "ninguno" /\ ~Trabaja
         /\ hilo_en_exec \in Hilos /\ hilo_en_exec \in DOMAIN pcb
         /\ Estado(hilo_en_exec) = EstadoDe(TRUE, FALSE, respuesta[1].motivo)
<1>1. fallo = "ninguno" /\ cpc \notin {"fetch"}
  BY UnaRespuesta DEF Coherente, Trabaja
<1>2. hilo_en_exec \in Hilos /\ hilo_en_exec \in DOMAIN pcb
  BY DEF Invariante, Colas, Turno
<1> QED BY <1>1, <1>2, UnaRespuesta DEF Estado

\* After an answer the turn is over, and every thread left is at rest.
LEMMA Reposo ==
  ASSUME NEW m, NEW s \in {"fin", "despacha"}, Atender(m, s), Invariante, Coherente
  PROVE  /\ \A h \in Hilos : Estado(h)' = IF h \in DOMAIN pcb' THEN "activo" ELSE "fin"
         /\ \A h \in Hilos \ {hilo_en_exec} :
               Estado(h) = IF h \in DOMAIN pcb THEN "activo" ELSE "fin"
         /\ Estado(hilo_en_exec) = EstadoDe(TRUE, FALSE, m)
         /\ \A h \in DOMAIN pcb : Actual(h) = pcb[h]
         /\ \A h \in DOMAIN pcb' : Actual(h)' = pcb'[h]
         /\ ram' = ram
<1>1. kpc = "responde" /\ respuesta # <<>> /\ respuesta[1].motivo = m /\ kpc' = s
  BY DEF Atender
<1>2. cpc \in {"recibe", "limpia", "flags"} /\ cpc' = cpc /\ ram' = ram
  BY <1>1, UnaRespuesta DEF Atender, Trabaja, Invariante, EtiquetasCpu
<1>3. Estado(hilo_en_exec) = EstadoDe(TRUE, FALSE, m)
  BY <1>1, Contestado
<1> QED BY <1>1, <1>2, <1>3 DEF Estado, Actual

LEMMA FinDeHilos ==
  ASSUME NEW m, Atender(m, "fin"), Invariante, Coherente,
         NEW hs \in SUBSET Hilos, hilo_en_exec \in hs, pcb' = SinContexto(hs)
  PROVE  I!Termina(hs)
<1>1. DOMAIN pcb' = DOMAIN pcb \ hs /\ \A h \in DOMAIN pcb' : pcb'[h] = pcb[h]
  BY DEF SinContexto
<1>2. \A h \in DOMAIN pcb' : Actual(h)' = Actual(h)
  BY <1>1, Reposo
<1>3. \A g \in Hilos : Estado(g)' = IF g \in hs THEN "fin" ELSE Estado(g)
  BY <1>1, Reposo
<1>4. [h \in DOMAIN pcb |-> Actual(h)]' = I!Sin(hs)
  BY <1>1, <1>2 DEF I!Sin
<1>5. [h \in Hilos |-> Estado(h)]'
      = [g \in Hilos |-> IF g \in hs THEN "fin" ELSE [h \in Hilos |-> Estado(h)][g]]
  BY <1>3
<1> QED BY <1>4, <1>5, Reposo DEF I!Termina

LEMMA UnoMenos ==
  ASSUME NEW m, Atender(m, "fin"), Invariante, Coherente,
         NEW g \in Hilos, pcb' = SinContexto({g})
  PROVE  /\ [h \in DOMAIN pcb |-> Actual(h)]' = I!Sin({g})
         /\ [h \in Hilos |-> Estado(h)]'
            = [[h \in Hilos |-> Estado(h)] EXCEPT ![hilo_en_exec] = "activo", ![g] = "fin"]
         /\ ram' = ram
<1>1. DOMAIN pcb' = DOMAIN pcb \ {g} /\ \A h \in DOMAIN pcb' : pcb'[h] = pcb[h]
  BY DEF SinContexto
<1>2. \A h \in DOMAIN pcb' : Actual(h)' = Actual(h)
  BY <1>1, Reposo
<1>3. hilo_en_exec \in Hilos /\ hilo_en_exec \in DOMAIN pcb
  BY DEF Atender, Invariante, Colas, Turno
<1>4. \A h \in Hilos : Estado(h)' = IF h = g THEN "fin"
                                    ELSE IF h = hilo_en_exec THEN "activo" ELSE Estado(h)
  BY <1>1, <1>3, Reposo
<1>5. [h \in DOMAIN pcb |-> Actual(h)]' = I!Sin({g})
  BY <1>1, <1>2 DEF I!Sin
<1>6. [h \in Hilos |-> Estado(h)]'
      = [[h \in Hilos |-> Estado(h)] EXCEPT ![hilo_en_exec] = "activo", ![g] = "fin"]
  BY <1>3, <1>4
<1> QED BY <1>5, <1>6, Reposo

LEMMA NextComputo == Invariante /\ Coherente /\ [Next]_vars => [I!Next]_(I!vars)
<1> SUFFICES ASSUME Invariante, Coherente, [Next]_vars PROVE I!Next \/ UNCHANGED I!vars
    OBVIOUS
<1>1. ASSUME NEW h \in Hilos, Planificar(h) PROVE UNCHANGED I!vars
  BY <1>1, MapaIgual DEF Planificar, Actual, Estado
<1>2. CASE EnviarHilo
  BY <1>2, MapaIgual DEF EnviarHilo, Actual, Estado, Invariante, Correspondencia, Trabaja
<1>3. CASE NoEnviar
  BY <1>3, MapaIgual DEF NoEnviar, Actual, Estado
<1>4. CASE Interrupcion
  <2>1. EstadoDe(TRUE, FALSE, "INTERRUPCION") = "activo"
    BY DEF EstadoDe, Syscalls, Bloqueantes, Inmediatas
  <2>2. Atender("INTERRUPCION", "fin") /\ pcb' = pcb
    BY <1>4 DEF Interrupcion
  <2>3. atendidas' = atendidas
    BY <2>2 DEF Atender, Syscalls, Bloqueantes, Inmediatas
  <2>4. hilo_en_exec \in DOMAIN pcb
    BY <2>2 DEF Atender, Invariante, Turno
  <2> QED BY <2>1, <2>2, <2>3, <2>4, Reposo, MapaIgual
<1>5. CASE TerminaHilo
  <2> DEFINE h == hilo_en_exec
  <2>1. Atender("THREAD_EXIT", "fin") /\ pcb' = SinContexto({h})
    BY <1>5 DEF TerminaHilo
  <2>2. h \in Hilos /\ atendidas' = [atendidas EXCEPT ![h] = @ + 1]
    BY <2>1 DEF Atender, Syscalls, Invariante, Colas, Turno
  <2>3. Estado(h) = "pide"
    BY <2>1, Reposo DEF EstadoDe, Syscalls
  <2>4. I!Cancelar(h, h)
    BY <2>1, <2>2, <2>3, UnoMenos DEF I!Cancelar, I!Atendida
  <2> QED BY <2>2, <2>4 DEF I!Next, I!Proceso
<1>6. ASSUME NEW g \in Hilos, Cancela(g) PROVE I!Next
  <2> DEFINE h == hilo_en_exec
  <2>1. Atender("THREAD_CANCEL", "fin") /\ pcb' = SinContexto({g}) /\ g \in DOMAIN pcb
    BY <1>6 DEF Cancela
  <2>2. h \in Hilos /\ atendidas' = [atendidas EXCEPT ![h] = @ + 1] /\ Pid[g] = Pid[h]
    BY <1>6, <2>1 DEF Cancela, Atender, Syscalls, Invariante, Colas, Turno
  <2>3. Estado(h) = "pide"
    BY <2>1, Reposo DEF EstadoDe, Syscalls
  <2>4. I!Cancelar(h, g)
    BY <2>1, <2>2, <2>3, UnoMenos DEF I!Cancelar, I!Atendida
  <2> QED BY <2>2, <2>4 DEF I!Next, I!Proceso
<1>7. CASE TerminaProceso
  <2> DEFINE h == hilo_en_exec
             hs == {g \in Hilos : Pid[g] = Pid[h]}
  <2>1. PICK m \in {"PROCESS_EXIT", "SEGFAULT", "CONTINUE"} : Atender(m, "fin")
    BY <1>7 DEF TerminaProceso
  <2>2. pcb' = SinContexto(hs) /\ h \in Hilos
    BY <1>7, <2>1 DEF TerminaProceso, Atender, Invariante, Colas, Turno
  <2>3. I!Proceso(h) = hs
    BY DEF I!Proceso
  <2>4. I!Termina(I!Proceso(h))
    BY <2>1, <2>2, <2>3, FinDeHilos
  <2>5. CASE m = "PROCESS_EXIT"
    <3>1. Estado(h) = "pide" /\ atendidas' = [atendidas EXCEPT ![h] = @ + 1]
      BY <2>1, <2>5, Reposo DEF EstadoDe, Syscalls, Atender
    <3>2. I!Salir(h)
      BY <2>2, <2>3, <2>4, <3>1 DEF I!Salir, I!Atendida
    <3> QED BY <2>2, <3>2 DEF I!Next
  <2>6. CASE m # "PROCESS_EXIT"
    <3>1. Estado(h) \in {"muere", "invalida"} /\ atendidas' = atendidas
      BY <2>1, <2>6, Reposo DEF EstadoDe, Syscalls, Bloqueantes, Inmediatas, Atender
    <3>2. I!Matar(h)
      BY <2>2, <2>3, <2>4, <3>1 DEF I!Matar
    <3> QED BY <2>2, <3>2 DEF I!Next
  <2> QED BY <2>5, <2>6
<1>8. ASSUME NEW m \in Syscalls, Bloquea(m) \/ Continua(m) PROVE I!Next
  <2> DEFINE h == hilo_en_exec
  <2>1. PICK s \in {"fin", "despacha"} : Atender(m, s) /\ pcb' = pcb
    BY <1>8 DEF Bloquea, Continua
  <2>2. h \in Hilos /\ h \in DOMAIN pcb /\ atendidas' = [atendidas EXCEPT ![h] = @ + 1]
    BY <2>1 DEF Atender, Invariante, Colas, Turno
  <2>3. Estado(h) = "pide"
    BY <2>1, Reposo DEF EstadoDe
  <2>4. I!Atender(h)
    BY <2>1, <2>2, <2>3, Reposo DEF I!Atender, I!Atendida
  <2> QED BY <2>2, <2>4 DEF I!Next
<1>9. CASE FinDeTurno
  BY <1>9, MapaIgual DEF FinDeTurno, Actual, Estado
<1>10. CASE Temporizador
  BY <1>10, MapaIgual DEF Temporizador, Vence, Desaloja, Actual, Estado
<1>11. CASE RecibirHilo
  BY <1>11, MapaIgual DEF RecibirHilo, En, Actual, Estado
<1>12. CASE MarcarEjecutando
  BY <1>12, MapaIgual DEF MarcarEjecutando, En, Actual, Estado
<1>13. CASE ObtenerContexto
  <2>1. hilo \in DOMAIN pcb
    BY <1>13 DEF ObtenerContexto, En, Invariante, Colas, Turno, Correspondencia, Trabaja
  <2> QED
    BY <1>13, <2>1, MapaIgual DEF ObtenerContexto, En, Seguir, Actual, Estado
<1>14. CASE Fetch
  <2> DEFINE c == [contexto EXCEPT !.pc = @ + 1]
  <2>1. /\ cpc = "fetch" /\ fallo = "ninguno"
        /\ UNCHANGED <<kpc, hilo_en_exec, respuesta, pcb, ram, atendidas, hilo>>
        /\ \/ cpc' = "fetch" /\ contexto' = contexto
           \/ cpc' = "execute" /\ contexto' = c
    BY <1>14 DEF Fetch, En
  <2>2. respuesta = <<>> /\ kpc = "responde" /\ hilo = hilo_en_exec
    BY <2>1 DEF Invariante, Correspondencia, Trabaja
  <2>3. [c EXCEPT !.pc = c.pc - 1] = contexto
    <3>1. EsCtx(contexto)
      BY <2>1 DEF Coherente
    <3>2. c.pc = contexto.pc + 1 /\ c.pc - 1 = contexto.pc
      BY <3>1 DEF EsCtx
    <3> QED BY <3>1, <3>2 DEF EsCtx
  <2>4. \A h \in DOMAIN pcb : Actual(h)' = Actual(h)
    <3> HIDE DEF c
    <3>1. CASE cpc' = "fetch" /\ contexto' = contexto
      BY <2>1, <3>1 DEF Actual
    <3>2. CASE cpc' = "execute" /\ contexto' = c
      <4>1. [contexto' EXCEPT !.pc = contexto'.pc - 1] = contexto
        BY <2>3, <3>2
      <4> QED BY <2>1, <3>2, <4>1 DEF Actual
    <3> QED BY <2>1, <3>1, <3>2
  <2>5. \A h \in Hilos : Estado(h)' = Estado(h)
    BY <2>1, <2>2 DEF Estado
  <2> QED BY <2>1, <2>4, <2>5, MapaIgual
<1>15. CASE Execute
  <2>1. hilo \in Hilos
    BY <1>15 DEF Execute, En, Invariante, Colas, Turno, Correspondencia, Trabaja
  <2>2. PICK h \in Hilos : h = hilo
    BY <2>1
  <2> DEFINE i == Programa[h][contexto.pc]
             c == [contexto EXCEPT !.pc = @ - 1]
             e == Ejecutada(Ejecucion, i)
  <2>3. /\ cpc = "execute" /\ cpc' = "bucle" /\ fallo = "ninguno"
        /\ contexto' = e.ctx /\ ram' = e.ram /\ flag_desalojo' = e.desalojo
        /\ flag_interrupt' = e.interrupt /\ motivo' = e.motivo
        /\ UNCHANGED <<kpc, hilo_en_exec, respuesta, pcb, atendidas, hilo, fallo>>
    BY <1>15, <2>2 DEF Execute, En
  <2>4. /\ h = hilo_en_exec /\ h \in Hilos /\ h \in DOMAIN pcb /\ kpc = "responde"
        /\ respuesta = <<>>
    BY <2>3, <2>2 DEF Invariante, Colas, Turno, Correspondencia, Trabaja
  <2>5. [c EXCEPT !.pc = @ + 1] = contexto /\ c.pc + 1 = contexto.pc /\ c.pc < Len(Programa[h])
    <3>1. Len(Programa[h]) \in Nat
      BY <2>4, ConstantesCpu
    <3>2. contexto.pc \in 1..Len(Programa[h]) /\ EsCtx(contexto)
      BY <2>3, <2>2 DEF Coherente
    <3>3. c.pc = contexto.pc - 1 /\ c.pc + 1 = contexto.pc /\ c.pc < Len(Programa[h])
      BY <3>1, <3>2 DEF EsCtx
    <3>4. [c EXCEPT !.pc = @ + 1] = contexto
      BY <3>2, <3>3 DEF EsCtx
    <3> QED BY <3>3, <3>4
  <2>6. Ejecucion = [ctx |-> [c EXCEPT !.pc = @ + 1], ram |-> ram, desalojo |-> FALSE,
                     interrupt |-> flag_interrupt, motivo |-> "CONTINUE"]
    BY <2>3, <2>5 DEF Coherente, Ejecucion
  <2>7. /\ Actual(h) = c /\ Actual(h)' = e.ctx
        /\ \A g \in DOMAIN pcb \ {h} : Actual(g)' = Actual(g)
    BY <2>3, <2>2 DEF Actual
  <2>8. /\ Estado(h) = "activo" /\ Estado(h)' = EstadoDe(e.desalojo, e.interrupt, e.motivo)
        /\ \A g \in Hilos \ {h} : Estado(g)' = Estado(g)
    BY <2>3, <2>4 DEF Estado
  <2>9. e = I!Ejecutada([ctx |-> [c EXCEPT !.pc = @ + 1], ram |-> ram, desalojo |-> FALSE,
                         interrupt |-> flag_interrupt, motivo |-> "CONTINUE"],
                        Programa[h][c.pc + 1])
    BY <2>5, <2>6, MismasInstrucciones
  <2>10. flag_interrupt \in BOOLEAN
    BY DEF Coherente
  <2> HIDE DEF e, c
  <2>11. I!EstadoDe(e.desalojo, e.interrupt, e.motivo) = EstadoDe(e.desalojo, e.interrupt, e.motivo)
    BY DEF I!EstadoDe, EstadoDe, I!Syscalls, Syscalls, I!Bloqueantes, Bloqueantes,
           I!Inmediatas, Inmediatas
  <2>12. I!Instruccion(h, flag_interrupt)
    <3>1. /\ h \in DOMAIN [g \in DOMAIN pcb |-> Actual(g)]
          /\ [g \in DOMAIN pcb |-> Actual(g)][h] = c
          /\ [g \in Hilos |-> Estado(g)][h] = "activo"
      BY <2>4, <2>7, <2>8
    <3>2. [g \in DOMAIN pcb |-> Actual(g)]'
          = [[g \in DOMAIN pcb |-> Actual(g)] EXCEPT ![h] = e.ctx]
      BY <2>3, <2>4, <2>7
    <3>3. [g \in Hilos |-> Estado(g)]'
          = [[g \in Hilos |-> Estado(g)] EXCEPT
               ![h] = I!EstadoDe(e.desalojo, e.interrupt, e.motivo)]
      BY <2>4, <2>8, <2>11
    <3>4. ram' = e.ram /\ atendidas' = atendidas /\ c.pc < Len(Programa[h])
      BY <2>3, <2>5
    <3> QED BY <2>9, <3>1, <3>2, <3>3, <3>4 DEF I!Instruccion
  <2> QED BY <2>4, <2>10, <2>12 DEF I!Next
<1>16. CASE Bucle
  <2>1. flag_desalojo = FALSE => EstadoDe(FALSE, FALSE, motivo) = "activo"
    BY <1>16 DEF Bucle, En, Coherente, EstadoDe, Syscalls, Bloqueantes, Inmediatas
  <2> QED
    BY <1>16, <2>1, MapaIgual DEF Bucle, En, Actual, Estado, Invariante, Coherente
<1>17. CASE FijarMotivo
  <2>1. EstadoDe(flag_desalojo, flag_interrupt, motivo) = EstadoDe(flag_desalojo, FALSE, motivo')
    BY <1>17 DEF FijarMotivo, Coherente, EstadoDe, Syscalls, Bloqueantes, Inmediatas
  <2> QED
    BY <1>17, <2>1, MapaIgual DEF FijarMotivo, En, Actual, Estado
<1>18. CASE ActualizarContexto
  <2>1. hilo \in DOMAIN pcb
    BY <1>18 DEF ActualizarContexto, En, Invariante, Colas, Turno, Correspondencia, Trabaja
  <2>2. /\ cpc = "actualiza" /\ cpc' = "envia"
        /\ pcb' = [pcb EXCEPT ![hilo] = contexto]
        /\ UNCHANGED <<flag_desalojo, flag_interrupt, motivo, kernel, respuesta, ram, hilo,
                       contexto, fallo>>
    BY <1>18, <2>1 DEF ActualizarContexto, En, Seguir
  <2>3. DOMAIN pcb' = DOMAIN pcb /\ \A h \in DOMAIN pcb : Actual(h)' = Actual(h)
    BY <2>1, <2>2 DEF Actual
  <2>4. \A h \in Hilos : Estado(h)' = Estado(h)
    BY <2>2, <2>3 DEF Estado
  <2> QED BY <2>2, <2>3, <2>4, MapaIgual
<1>19. CASE EnviarMotivo
  <2>1. respuesta = <<>> /\ kpc = "responde" /\ hilo = hilo_en_exec
    BY <1>19 DEF EnviarMotivo, En, Invariante, Correspondencia, Trabaja
  <2>2. respuesta' = <<[hilo |-> hilo, motivo |-> motivo]>>
    BY <1>19, <2>1 DEF EnviarMotivo
  <2>3. EstadoDe(flag_desalojo, FALSE, motivo) = EstadoDe(TRUE, FALSE, motivo)
    BY <1>19 DEF EnviarMotivo, En, Coherente, EstadoDe
  <2>4. \A h \in DOMAIN pcb : Actual(h)' = Actual(h)
    BY <1>19 DEF EnviarMotivo, En, Actual
  <2>5. \A h \in Hilos : Estado(h)' = Estado(h)
    <3>1. /\ cpc = "envia" /\ cpc' = "limpia" /\ fallo = "ninguno" /\ respuesta'[1].motivo = motivo
          /\ respuesta' # <<>>
          /\ UNCHANGED <<kernel, memoria, flag_desalojo, flag_interrupt, motivo, fallo>>
      BY <1>19, <2>2 DEF EnviarMotivo, En
    <3> QED BY <2>1, <2>3, <3>1 DEF Estado
  <2> QED BY <1>19, <2>4, <2>5, MapaIgual DEF EnviarMotivo
<1>20. CASE LimpiarContexto
  BY <1>20, MapaIgual DEF LimpiarContexto, En, Actual, Estado
<1>21. CASE BajarFlags
  BY <1>21, MapaIgual DEF BajarFlags, En, Actual, Estado
<1>22. CASE Interrupt
  <2>1. CASE RecibirInterrupcion
    BY <2>1, MapaIgual DEF RecibirInterrupcion, Actual, Estado
  <2>2. CASE MarcarInterrupcion
    <3> DEFINE h == hilo_en_exec
    <3>1. /\ flag_interrupt' = TRUE
          /\ UNCHANGED <<kernel, respuesta, memoria, dispatch, fallo>>
      BY <2>2 DEF MarcarInterrupcion
    <3>2. \A g \in DOMAIN pcb : Actual(g)' = Actual(g)
      BY <3>1 DEF Actual
    <3>3. CASE /\ h \in Hilos /\ Estado(h) = "invalida" /\ respuesta = <<>>
               /\ cpc \in {"bucle", "motivo"}
      <4>1. Estado(h)' = "activo"
        BY <3>1, <3>3 DEF Estado, EstadoDe
      <4>2. \A g \in Hilos \ {h} : Estado(g)' = Estado(g)
        BY <3>1 DEF Estado
      <4>3. I!Perdonar(h)
        BY <3>1, <3>2, <3>3, <4>1, <4>2 DEF I!Perdonar
      <4> QED BY <3>3, <4>3 DEF I!Next
    <3>4. CASE ~(/\ h \in Hilos /\ Estado(h) = "invalida" /\ respuesta = <<>>
                 /\ cpc \in {"bucle", "motivo"})
      <4>1. EstadoDe(flag_desalojo, flag_interrupt, motivo) # "invalida"
            => EstadoDe(flag_desalojo, TRUE, motivo)
               = EstadoDe(flag_desalojo, flag_interrupt, motivo)
        BY DEF EstadoDe
      <4>2. \A g \in Hilos : Estado(g)' = Estado(g)
        BY <3>1, <3>4, <4>1 DEF Estado
      <4> QED BY <3>1, <3>2, <4>2, MapaIgual
    <3> QED BY <3>3, <3>4
  <2> QED BY <1>22, <2>1, <2>2 DEF Interrupt
<1>23. ASSUME NEW h \in Hilos, Despertar(h) PROVE UNCHANGED I!vars
  BY <1>23, MapaIgual DEF Despertar, Actual, Estado
<1>24. CASE UNCHANGED vars
  BY <1>24, MapaIgual DEF Actual, Estado
<1> QED
  BY <1>1, <1>2, <1>3, <1>4, <1>5, <1>7, <1>6, <1>8, <1>9, <1>10, <1>11, <1>12, <1>13, <1>14,
     <1>15, <1>16, <1>17, <1>18, <1>19, <1>20, <1>21, <1>22, <1>23, <1>24
     DEF Next, Planificador, Dispatch

(* However often the quantum ends, and whenever FIN_DE_CLOCK arrives, each *)
(* thread runs its script as it would alone, and no system call is lost or *)
(* repeated, for any scripts, machine and number of FIN_DE_CLOCK in flight *)
(* (ciclo_instruccion.c:149-174, servidor_cpu.c:24-123).                   *)
THEOREM CpuCumpleComputo == Spec => CumpleComputo
<1>1. Init => Invariante /\ Coherente /\ I!Init
  BY InitInvariante, InitCoherente, InitComputo
<1>2. Invariante /\ Coherente /\ [Next]_vars
      => Invariante' /\ Coherente' /\ [I!Next]_(I!vars)
  BY NextInvariante, NextCoherente, NextComputo
<1> QED BY <1>1, <1>2, PTL DEF Spec, CumpleComputo, I!Spec

-----------------------------------------------------------------------------
(* The powers of Valores, and the words they make.                         *)

LEMMA PotenciaRecursiva ==
  /\ Potencia \in [0..Octetos -> Nat \ {0}]
  /\ Potencia[0] = 1
  /\ \A k \in 1..Octetos : Potencia[k] = Valores * Potencia[k - 1]
<1> DEFINE S == Nat \ {0}
           g == [p \in Nat \X S |-> Valores * p[2]]
<1>1. Octetos \in Nat /\ Valores \in Nat \ {0, 1} /\ 1 \in S
  BY ConstantesInstrucciones
<1>2. \A p \in Nat \X S : p[2] \in S /\ Valores * p[2] \in S
  <2>1. \A x \in S : Valores * x \in S
    BY <1>1
  <2> QED BY <2>1
<1>3. g \in [Nat \X S -> S]
  BY <1>2
<1>4. PICK f \in [0..Octetos -> S] : Listas!Recorre(f, Octetos, 1, g)
  <2> HIDE DEF g
  <2> QED BY <1>1, <1>3, Listas!Recursion
<1>5. f = [k \in 0..Octetos |-> IF k = 0 THEN 1 ELSE g[<<k, f[k - 1]>>]]
  BY <1>4 DEF Listas!Recorre
<1>6. \A k \in 1..Octetos : g[<<k, f[k - 1]>>] = Valores * f[k - 1]
  <2> TAKE k \in 1..Octetos
  <2>1. <<k, f[k - 1]>> \in Nat \X S
    BY <1>1, <1>4
  <2> QED BY <2>1
<1>7. f = [k \in 0..Octetos |-> IF k = 0 THEN 1 ELSE Valores * f[k - 1]]
  <2> HIDE DEF g
  <2>1. ASSUME NEW k \in 0..Octetos
        PROVE  f[k] = IF k = 0 THEN 1 ELSE Valores * f[k - 1]
    <3>1. f[k] = IF k = 0 THEN 1 ELSE g[<<k, f[k - 1]>>]
      BY <1>5
    <3>2. k # 0 => k \in 1..Octetos
      BY <1>1
    <3> QED BY <1>6, <3>1, <3>2
  <2> QED BY <1>4, <2>1
<1>8. Potencia = [k \in 0..Octetos |-> IF k = 0 THEN 1 ELSE Valores * Potencia[k - 1]]
  BY <1>7, Zenon DEF Potencia
<1>9. \A k \in 0..Octetos : Potencia[k] = IF k = 0 THEN 1 ELSE Valores * Potencia[k - 1]
  BY <1>8, Zenon
<1>10. \A k \in 0..Octetos : Potencia[k] \in S
  <2> DEFINE Mal == {k \in 0..Octetos : Potencia[k] \notin S}
  <2>1. SUFFICES ASSUME Mal # {} PROVE FALSE
    OBVIOUS
  <2>2. Mal \in SUBSET Nat
    BY <1>1
  <2>3. PICK n \in Mal : \A y \in Mal : n <= y
    BY <2>1, <2>2, Listas!MinimoExiste
  <2>4. n # 0
    BY <2>3, <1>9, <1>1
  <2>5. n - 1 \in 0..Octetos /\ n - 1 \notin Mal
    BY <2>3, <2>4, <1>1
  <2>6. Potencia[n - 1] \in S
    BY <2>5
  <2>7. Potencia[n] = Valores * Potencia[n - 1]
    BY <2>3, <2>4, <1>9
  <2> QED BY <2>3, <2>6, <2>7, <1>1
<1> QED BY <1>1, <1>8, <1>9, <1>10

LEMMA ModuloPar == Modulo \in Nat /\ Modulo >= 2 /\ 2 * TamMemoria <= Modulo
<1>1. Octetos \in Nat \ {0} /\ Valores \in Nat \ {0, 1} /\ 2 * TamMemoria <= Modulo
      /\ TamMemoria \in Nat \ {0}
  BY ConstantesInstrucciones
<1>2. Modulo \in Nat
  BY <1>1, PotenciaRecursiva DEF Modulo
<1> QED BY <1>1, <1>2

\* One more digit in base V.
LEMMA Digito ==
  ASSUME NEW V \in Nat \ {0, 1}, NEW P \in Nat \ {0}, NEW s \in 0..(P - 1),
         NEW b \in 0..(V - 1)
  PROVE  s + b * P \in 0..(V * P - 1)
<1>1. b * P <= (V - 1) * P /\ b * P >= 0 /\ b * P \in Nat
  BY Z3
<1>2. (V - 1) * P = V * P - P /\ V * P \in Nat
  BY Z3
<1> QED BY <1>1, <1>2

LEMMA OctetoByte ==
  ASSUME NEW v \in Palabra, NEW k \in 0..(Octetos - 1) PROVE Octeto(v, k) \in Byte
<1>1. Valores \in Nat \ {0, 1} /\ Octetos \in Nat
  BY ConstantesInstrucciones
<1>2. Potencia[k] \in Nat \ {0}
  BY <1>1, PotenciaRecursiva
<1>3. v \div Potencia[k] \in Int
  BY <1>2, ModuloPar DEF Palabra
<1> QED BY <1>1, <1>3 DEF Octeto, Byte

LEMMA LeidoPalabra ==
  ASSUME NEW m \in [Direcciones -> Byte], NEW a \in Int, -1 <= a, a + Octetos <= TamMemoria
  PROVE  Leido(m, a) \in Palabra
<1> DEFINE suma[k \in 0..Octetos] ==
              IF k = 0 THEN 0 ELSE suma[k - 1] + m[a + k - 1] * Potencia[k - 1]
           b(k) == IF k \in 1..Octetos THEN m[a + k - 1] * Potencia[k - 1] ELSE 0
           g == [p \in Nat \X Int |-> p[2] + b(p[1])]
<1>1. /\ Octetos \in Nat \ {0} /\ Valores \in Nat \ {0, 1} /\ TamMemoria \in Nat \ {0}
      /\ 0 \in Int
  BY ConstantesInstrucciones
<1>2. \A k \in 1..Octetos : m[a + k - 1] \in 0..(Valores - 1) /\ Potencia[k - 1] \in Nat \ {0}
  <2> TAKE k \in 1..Octetos
  <2>1. a + k - 1 \in Direcciones /\ k - 1 \in 0..Octetos
    BY <1>1 DEF Direcciones
  <2> QED BY <2>1, PotenciaRecursiva DEF Byte
<1>3. \A k \in Nat : b(k) \in Int
  <2> TAKE k \in Nat
  <2>1. CASE k \in 1..Octetos
    BY <2>1, <1>2, <1>1
  <2> QED BY <2>1
<1>4. g \in [Nat \X Int -> Int]
  <2> HIDE DEF b
  <2>1. \A p \in Nat \X Int : p[2] + b(p[1]) \in Int
    BY <1>3
  <2> QED BY <2>1
<1>5. PICK f \in [0..Octetos -> Int] : Listas!Recorre(f, Octetos, 0, g)
  <2> HIDE DEF g
  <2> QED BY <1>1, <1>4, Listas!Recursion
<1>6. f = [k \in 0..Octetos |-> IF k = 0 THEN 0 ELSE f[k - 1] + m[a + k - 1] * Potencia[k - 1]]
  <2>1. f = [k \in 0..Octetos |-> IF k = 0 THEN 0 ELSE g[<<k, f[k - 1]>>]]
    BY <1>5 DEF Listas!Recorre
  <2>2. ASSUME NEW k \in 1..Octetos
        PROVE  g[<<k, f[k - 1]>>] = f[k - 1] + m[a + k - 1] * Potencia[k - 1]
    <3>1. f[k - 1] \in Int /\ k \in Nat
      BY <1>1, <1>5
    <3>2. b(k) = m[a + k - 1] * Potencia[k - 1]
      OBVIOUS
    <3>3. g[<<k, f[k - 1]>>] = f[k - 1] + b(k)
      <4> HIDE DEF b
      <4> QED BY <3>1
    <3> QED BY <3>2, <3>3
  <2> HIDE DEF g, b
  <2>3. ASSUME NEW k \in 0..Octetos
        PROVE  f[k] = IF k = 0 THEN 0 ELSE f[k - 1] + m[a + k - 1] * Potencia[k - 1]
    <3>1. f[k] = IF k = 0 THEN 0 ELSE g[<<k, f[k - 1]>>]
      BY <2>1
    <3>2. k # 0 => k \in 1..Octetos
      BY <1>1
    <3> QED BY <2>2, <3>1, <3>2
  <2> QED BY <1>5, <2>3
<1>7. suma = [k \in 0..Octetos |->
                IF k = 0 THEN 0 ELSE suma[k - 1] + m[a + k - 1] * Potencia[k - 1]]
  BY <1>6, Zenon
<1> HIDE DEF suma
<1>8. \A k \in 0..Octetos :
         suma[k] = IF k = 0 THEN 0 ELSE suma[k - 1] + m[a + k - 1] * Potencia[k - 1]
  BY <1>7, Zenon
<1>9. \A k \in 0..Octetos : suma[k] \in 0..(Potencia[k] - 1)
  <2> DEFINE Mal == {k \in 0..Octetos : suma[k] \notin 0..(Potencia[k] - 1)}
  <2>1. SUFFICES ASSUME Mal # {} PROVE FALSE
    OBVIOUS
  <2>2. Mal \in SUBSET Nat
    BY <1>1
  <2>3. PICK n \in Mal : \A y \in Mal : n <= y
    BY <2>1, <2>2, Listas!MinimoExiste
  <2>4. n # 0
    BY <2>3, <1>8, <1>1, PotenciaRecursiva
  <2>5. n - 1 \in 0..Octetos /\ n - 1 \notin Mal /\ n \in 1..Octetos
    BY <2>3, <2>4, <1>1
  <2>6. suma[n - 1] \in 0..(Potencia[n - 1] - 1)
    BY <2>5
  <2>7. suma[n] = suma[n - 1] + m[a + n - 1] * Potencia[n - 1]
    BY <2>4, <2>5, <1>8
  <2>8. Potencia[n] = Valores * Potencia[n - 1]
    BY <2>5, PotenciaRecursiva
  <2>9. suma[n - 1] + m[a + n - 1] * Potencia[n - 1] \in 0..(Valores * Potencia[n - 1] - 1)
    BY <1>1, <1>2, <2>5, <2>6, Digito
  <2> QED BY <2>3, <2>7, <2>8, <2>9
<1>10. Leido(m, a) = suma[Octetos]
  BY DEF Leido, suma
<1> QED BY <1>1, <1>9, <1>10 DEF Palabra, Modulo

-----------------------------------------------------------------------------
(* What an instruction does to an execution has the types of TypeOK.       *)

Tipada(e) ==
    e \in [ctx : Registro, ram : [Direcciones -> Byte], desalojo : BOOLEAN,
           interrupt : BOOLEAN, motivo : Motivos]

LEMMA FaltaTipada == ASSUME NEW e, Tipada(e) PROVE Tipada(Falta(e))
  BY DEF Tipada, Falta, Motivos

LEMMA ValorPalabra == ASSUME NEW e, NEW r, Tipada(e) PROVE Valor(e, r) \in Palabra
  BY ModuloPar DEF Tipada, Valor, Registro, Palabra

LEMMA GetRegistryTipada == ASSUME NEW e, NEW r, Tipada(e) PROVE Tipada(GetRegistry(e, r))
  BY FaltaTipada DEF GetRegistry

LEMMA SetRegistryTipada ==
  ASSUME NEW e, NEW r, NEW v \in Palabra, Tipada(e) PROVE Tipada(SetRegistry(e, r, v))
<1>1. CASE r \in Registros
  <2> DEFINE c == [e.ctx EXCEPT !.reg = [@ EXCEPT ![r] = v]]
             n == [e EXCEPT !.ctx = c]
  <2>1. SetRegistry(e, r, v) = n
    BY <1>1 DEF SetRegistry
  <2>2. c \in Registro
    BY DEF Tipada, Registro
  <2>3. Tipada(n)
    <3> HIDE DEF c
    <3> QED BY <2>2 DEF Tipada
  <2> QED BY <2>1, <2>3
<1>2. CASE r \notin Registros
  BY <1>2, FaltaTipada DEF SetRegistry
<1> QED BY <1>1, <1>2

LEMMA CheckTipada ==
  ASSUME NEW e, NEW q \in Motivos, Tipada(e) PROVE Tipada(CheckDesalojo(e, q))
  BY DEF Tipada, CheckDesalojo

LEMMA JnzTipada == ASSUME NEW e, NEW i, Tipada(e), i.pc \in Nat PROVE Tipada(Jnz(e, i))
<1> DEFINE l == GetRegistry(e, i.origen)
           c == [l.ctx EXCEPT !.pc = i.pc]
           s == IF Valor(e, i.origen) = 0 THEN l ELSE [l EXCEPT !.ctx = c]
<1>1. Tipada(l)
  BY GetRegistryTipada
<1>2. Tipada(s)
  <2> HIDE DEF l
  <2>1. c \in Registro
    BY <1>1 DEF Tipada, Registro
  <2>2. Tipada([l EXCEPT !.ctx = c])
    <3> HIDE DEF c
    <3> QED BY <1>1, <2>1 DEF Tipada
  <2> QED BY <1>1, <2>2
<1>3. Jnz(e, i) = CheckDesalojo(s, "CONTINUE")
  BY DEF Jnz
<1>4. "CONTINUE" \in Motivos
  BY DEF Motivos
<1> HIDE DEF s
<1> QED BY <1>2, <1>3, <1>4, CheckTipada

LEMMA TraducidaTipada == ASSUME NEW e, NEW r, Tipada(e) PROVE Tipada(Traducida(e, r))
  BY GetRegistryTipada, FaltaTipada DEF Traducida

LEMMA RechazadaTipada == ASSUME NEW e, Tipada(e) PROVE Tipada(Rechazada(e))
<1>1. Tipada(Falta(e))
  BY FaltaTipada
<1> QED BY <1>1 DEF Tipada, Rechazada

\* A request memoria accepts is about bytes it has, counting the one before
\* the first: base and limite are inside the memory, and a sum that exceeds it
\* is read as a negative number.
LEMMA DireccionDePedido ==
  ASSUME NEW e, NEW r, Tipada(e), ~FueraDeRango(Mmu(e, r))
  PROVE  /\ ConSigno(Mmu(e, r)) \in Int /\ -1 <= ConSigno(Mmu(e, r))
         /\ ConSigno(Mmu(e, r)) + Octetos <= TamMemoria
<1> DEFINE v == Valor(e, r)
           b == e.ctx.base
<1>1. /\ Octetos \in Nat \ {0} /\ TamMemoria \in Nat \ {0}
      /\ Modulo \in Nat /\ Modulo >= 2 /\ 2 * TamMemoria <= Modulo
  BY ConstantesInstrucciones, ModuloPar
<1>2. /\ v \in Nat /\ b \in 0..(TamMemoria - 1) /\ e.ctx.limite \in 0..(TamMemoria - 1)
  BY ValorPalabra, <1>1 DEF Tipada, Registro, Palabra
<1> HIDE DEF v, b
<1>3. CASE TraduccionFalla(e, r)
  <2>1. Mmu(e, r) = Modulo - 1
    BY <1>3 DEF Mmu
  <2>2. ConSigno(Modulo - 1) = -1
    BY <1>1 DEF ConSigno
  <2> QED BY <1>1, <2>1, <2>2 DEF FueraDeRango
<1>4. CASE ~TraduccionFalla(e, r)
  <2>1. v + Octetos <= TamMemoria - 1
    BY <1>1, <1>2, <1>4 DEF TraduccionFalla, v
  <2>2. b + v \in Nat /\ b + v + Octetos <= 2 * TamMemoria - 2
    BY <1>1, <1>2, <2>1
  <2>3. b + v \in 0..(Modulo - 1)
    BY <1>1, <2>2
  <2>4. Mmu(e, r) = b + v
    <3>1. Mmu(e, r) = (b + v) % Modulo
      BY <1>4 DEF Mmu, b, v
    <3>2. (b + v) % Modulo = b + v
      BY <1>1, <2>3
    <3> QED BY <3>1, <3>2
  <2> QED BY <1>1, <2>2, <2>3, <2>4 DEF FueraDeRango, ConSigno
<1> QED BY <1>3, <1>4

LEMMA ReadMemTipada == ASSUME NEW e, NEW i, Tipada(e) PROVE Tipada(ReadMem(e, i))
<1> DEFINE t == Traducida(e, i.origen)
           a == ConSigno(Mmu(e, i.origen))
<1>1. Tipada(t)
  BY TraducidaTipada
<1>2. CASE FueraDeRango(Mmu(e, i.origen))
  BY <1>1, <1>2, RechazadaTipada, Zenon DEF ReadMem
<1>3. CASE ~FueraDeRango(Mmu(e, i.origen))
  <2>1. a \in Int /\ -1 <= a /\ a + Octetos <= TamMemoria
    BY <1>3, DireccionDePedido, Zenon
  <2>2. e.ram \in [Direcciones -> Byte]
    BY DEF Tipada
  <2> HIDE DEF a
  <2>3. Leido(e.ram, a) \in Palabra
    BY <2>1, <2>2, LeidoPalabra
  <2>4. ReadMem(e, i) = SetRegistry(t, i.destino, Leido(e.ram, a))
    BY <1>3, Zenon DEF ReadMem, a
  <2> HIDE DEF t
  <2> QED BY <1>1, <2>3, <2>4, SetRegistryTipada
<1> QED BY <1>2, <1>3

LEMMA WriteMemTipada == ASSUME NEW e, NEW i, Tipada(e) PROVE Tipada(WriteMem(e, i))
<1> DEFINE t == GetRegistry(Traducida(e, i.destino), i.origen)
           a == ConSigno(Mmu(e, i.destino))
           v == Valor(e, i.origen)
           m == Escrito(e.ram, a, v)
<1>1. Tipada(t)
  BY TraducidaTipada, GetRegistryTipada
<1>2. CASE FueraDeRango(Mmu(e, i.destino))
  BY <1>1, <1>2, RechazadaTipada, Zenon DEF WriteMem
<1>3. CASE ~FueraDeRango(Mmu(e, i.destino))
  <2>1. e.ram \in [Direcciones -> Byte] /\ v \in Palabra
    BY ValorPalabra DEF Tipada
  <2>2. m \in [Direcciones -> Byte]
    <3> HIDE DEF v, a
    <3>1. \A d \in Direcciones : d - a \in 0..(Octetos - 1) => Octeto(v, d - a) \in Byte
      BY <2>1, OctetoByte
    <3> QED BY <2>1, <3>1 DEF Escrito
  <2>3. WriteMem(e, i) = [t EXCEPT !.ram = m]
    BY <1>3, Zenon DEF WriteMem
  <2> HIDE DEF t, m
  <2> QED BY <1>1, <2>2, <2>3 DEF Tipada
<1> QED BY <1>2, <1>3

LEMMA EjecutadaTipada ==
  ASSUME NEW e, NEW i, Tipada(e), i.op = "JNZ" => i.pc \in Nat,
         i.op = "SET" => i.valor \in Palabra
  PROVE  Tipada(Ejecutada(e, i))
<1>0. /\ "CONTINUE" \in Motivos /\ "SEGFAULT" \in Motivos
      /\ \A o \in Syscalls : o \in Motivos
  BY DEF Motivos
<1>1. i.op = "SET" => Tipada(Set(e, i))
  BY <1>0, SetRegistryTipada, CheckTipada, Zenon DEF Set
<1>2. Tipada(Log(e, i))
  BY <1>0, GetRegistryTipada, CheckTipada, Zenon DEF Log
<1>3. Tipada(Sum(e, i)) /\ Tipada(Sub(e, i))
  <2> DEFINE a == Valor(e, i.destino)
             b == Valor(e, i.origen)
  <2>1. (a + b) % Modulo \in Palabra /\ (a - b) % Modulo \in Palabra
    <3>1. a \in Palabra /\ b \in Palabra
      BY ValorPalabra
    <3> HIDE DEF a, b
    <3> QED BY <3>1, ModuloPar DEF Palabra
  <2> QED
    BY <1>0, <2>1, GetRegistryTipada, SetRegistryTipada, CheckTipada, Zenon DEF Sum, Sub
<1>4. i.op \in Syscalls => Tipada(Syscall(e, i))
  <2>1. Tipada([e EXCEPT !.desalojo = TRUE])
    BY DEF Tipada
  <2> QED BY <1>0, <2>1, CheckTipada, Zenon DEF Syscall
<1>5. Tipada(Desconocida(e))
  BY <1>0, FaltaTipada, CheckTipada, Zenon DEF Desconocida
<1>6. i.op = "JNZ" => Tipada(Jnz(e, i))
  BY JnzTipada
<1>7. Tipada(ReadMem(e, i)) /\ Tipada(WriteMem(e, i))
  BY ReadMemTipada, WriteMemTipada
<1> QED BY <1>1, <1>2, <1>3, <1>4, <1>5, <1>6, <1>7, Zenon DEF Ejecutada

LEMMA InitTypeOK == Init => TypeOK
<1> SUFFICES ASSUME Init PROVE TypeOK
    OBVIOUS
<1>1. Vacio \in Registro
  BY ConstantesInstrucciones, ModuloPar DEF Vacio, Registro, Palabra
<1>2. ram \in [Direcciones -> Byte]
  BY ConstantesInstrucciones DEF Init, Byte
<1>3. \A h \in DOMAIN pcb : pcb[h] \in Registro
  BY ConstantesCpu DEF Init
<1>4. DOMAIN pcb \subseteq Hilos /\ atendidas \in [Hilos -> Nat] /\ motivo \in Motivos
  BY DEF Init, Motivos
<1>5. despacho \in Seq(Hilos) /\ respuesta \in Seq(Respuesta)
      /\ interrupciones \in 0..MaxRelojes
  BY ConstantesCpu DEF Init
<1>6. /\ listos \subseteq Hilos /\ bloqueados \subseteq Hilos
      /\ hilo_en_exec = NULO /\ hilo = NULO /\ kpc = "planifica" /\ rr = "no"
      /\ contexto = Vacio /\ cpc = "recibe" /\ ipc = "recibe" /\ fallo = "ninguno"
  BY DEF Init
<1>7. /\ flag_ejecutando \in BOOLEAN /\ flag_desalojo \in BOOLEAN
      /\ flag_interrupt \in BOOLEAN /\ flag_fin_programa \in BOOLEAN
      /\ flag_desalojar \in BOOLEAN
  BY Zenon DEF Init
<1> QED
  BY <1>1, <1>2, <1>3, <1>4, <1>5, <1>6, <1>7 DEF TypeOK, EtiquetasCpu

LEMMA PasoTipado ==
  ASSUME Invariante, Coherente, TypeOK, cpc = "execute"
  PROVE  Tipada(Ejecutada(Ejecucion, Programa[hilo][contexto.pc]))
<1>1. Tipada(Ejecucion)
  BY DEF TypeOK, Coherente, Tipada, Ejecucion
<1>2. hilo \in Hilos /\ contexto.pc \in 1..Len(Programa[hilo])
  BY DEF Invariante, Colas, Turno, Correspondencia, Trabaja, Coherente
<1>3. /\ Programa[hilo][contexto.pc].op = "JNZ" => Programa[hilo][contexto.pc].pc \in Nat
      /\ Programa[hilo][contexto.pc].op = "SET" => Programa[hilo][contexto.pc].valor \in Palabra
  BY <1>2, ConstantesCpu
<1> QED BY <1>1, <1>3, EjecutadaTipada

LEMMA NextTypeOK == Invariante /\ Coherente /\ TypeOK /\ [Next]_vars => TypeOK'
<1> SUFFICES ASSUME Invariante, Coherente, TypeOK, [Next]_vars PROVE TypeOK'
    OBVIOUS
<1> USE DEF TypeOK, EtiquetasCpu
<1>0. kpc \in {"despacha", "responde"} => hilo_en_exec \in Hilos
  BY DEF Invariante, Colas, Turno
<1>01. "SEGFAULT" \in Motivos /\ "CONTINUE" \in Motivos /\ "INTERRUPCION" \in Motivos
  BY DEF Motivos
<1>02. ASSUME NEW m, NEW s, Atender(m, s), s \in {"despacha", "fin"}
       PROVE  /\ kpc = "responde" /\ kpc' = s /\ respuesta' \in Seq(Respuesta)
              /\ atendidas' \in [Hilos -> Nat]
  BY <1>02, <1>0 DEF Atender
<1>1. ASSUME NEW h \in Hilos, Planificar(h) PROVE TypeOK'
  BY <1>1 DEF Planificar
<1>2. CASE EnviarHilo
  BY <1>2, <1>0 DEF EnviarHilo
<1>3. CASE NoEnviar
  <2>1. flag_desalojar' \in BOOLEAN
    BY <1>3, Zenon DEF NoEnviar
  <2> QED BY <1>3, <1>0, <2>1 DEF NoEnviar
<1>4. CASE Interrupcion
  BY <1>4, <1>0, <1>02 DEF Interrupcion, Atender
<1>5. CASE TerminaHilo
  BY <1>5, <1>02 DEF TerminaHilo, Atender, SinContexto
<1>6. CASE TerminaProceso
  <2> DEFINE suyos == {h \in Hilos : Pid[h] = Pid[hilo_en_exec]}
  <2>1. PICK m \in {"PROCESS_EXIT", "SEGFAULT", "CONTINUE"} : Atender(m, "fin")
    BY <1>6 DEF TerminaProceso
  <2>2. pcb' = SinContexto(suyos) /\ listos' = listos \ suyos
        /\ bloqueados' = bloqueados \ suyos
    BY <1>6 DEF TerminaProceso
  <2> HIDE DEF suyos
  <2> QED BY <1>02, <2>1, <2>2 DEF Atender, SinContexto
<1>7. ASSUME NEW m \in Syscalls, Bloquea(m) PROVE TypeOK'
  BY <1>7, <1>0, <1>02 DEF Bloquea, Atender
<1>8. ASSUME NEW h \in Hilos, Cancela(h) PROVE TypeOK'
  BY <1>8, <1>02 DEF Cancela, Atender, SinContexto
<1>9. ASSUME NEW m \in Syscalls, Continua(m) PROVE TypeOK'
  BY <1>9, <1>02 DEF Continua, Atender
<1>10. CASE FinDeTurno
  <2>1. flag_desalojar' \in BOOLEAN
    BY <1>10, Zenon DEF FinDeTurno
  <2> QED BY <1>10, <2>1 DEF FinDeTurno
<1>11. CASE Temporizador
  <2>1. CASE Vence
    BY <2>1 DEF Vence
  <2>2. CASE Desaloja
    <3>1. flag_desalojar' \in BOOLEAN
      BY <2>2, Zenon DEF Desaloja
    <3> QED BY <2>2, <3>1, ConstantesCpu DEF Desaloja
  <2> QED BY <1>11, <2>1, <2>2 DEF Temporizador
<1>12. CASE RecibirHilo
  BY <1>12 DEF RecibirHilo, En
<1>13. CASE MarcarEjecutando
  BY <1>13 DEF MarcarEjecutando, En
<1>14. CASE ObtenerContexto
  <2>1. hilo \in DOMAIN pcb
    BY <1>14 DEF ObtenerContexto, En, Invariante, Colas, Turno, Correspondencia, Trabaja
  <2> QED
    BY <1>14, <2>1 DEF ObtenerContexto, En, Seguir, EsContexto
<1>15. CASE Fetch
  <2> DEFINE c == [contexto EXCEPT !.pc = @ + 1]
  <2>0. c \in Registro
    <3>1. contexto \in Registro
      OBVIOUS
    <3>2. ASSUME NEW n \in Nat, NEW d, d = [contexto EXCEPT !.pc = n] PROVE d \in Registro
      BY <3>1, <3>2 DEF Registro
    <3>3. contexto.pc + 1 \in Nat
      BY <3>1 DEF Registro
    <3> QED BY <3>2, <3>3
  <2>1. contexto' \in Registro
    <3>1. contexto' = c \/ contexto' = contexto
      BY <1>15 DEF Fetch
    <3> HIDE DEF c
    <3> QED BY <2>0, <3>1
  <2> HIDE DEF c
  <2> QED BY <1>15, <2>1 DEF Fetch, En
<1>16. CASE Execute
  <2> DEFINE e == Ejecutada(Ejecucion, Programa[hilo][contexto.pc])
  <2>1. Tipada(e)
    BY <1>16, PasoTipado DEF Execute, En
  <2>2. /\ contexto' = e.ctx /\ ram' = e.ram /\ flag_desalojo' = e.desalojo
        /\ flag_interrupt' = e.interrupt /\ motivo' = e.motivo /\ cpc' = "bucle"
        /\ UNCHANGED <<kernel, quantum, despacho, respuesta, pcb, hilo, ipc,
                       flag_ejecutando, flag_fin_programa, fallo>>
    BY <1>16 DEF Execute
  <2> HIDE DEF e
  <2> QED BY <2>1, <2>2 DEF Tipada
<1>17. CASE Bucle
  BY <1>17 DEF Bucle
<1>18. CASE FijarMotivo
  BY <1>18, <1>01 DEF FijarMotivo
<1>19. CASE ActualizarContexto
  <2>1. hilo \in DOMAIN pcb
    BY <1>19 DEF ActualizarContexto, En, Invariante, Colas, Turno, Correspondencia, Trabaja
  <2> QED
    BY <1>19, <2>1 DEF ActualizarContexto, Seguir, EsContexto
<1>20. CASE EnviarMotivo
  <2>1. hilo \in Hilos
    BY <1>20 DEF EnviarMotivo, En, Invariante, Colas, Turno, Correspondencia, Trabaja
  <2>2. [hilo |-> hilo, motivo |-> motivo] \in Respuesta
    BY <2>1 DEF Respuesta
  <2>3. respuesta' \in Seq(Respuesta)
    BY <1>20, <2>2 DEF EnviarMotivo
  <2> QED BY <1>20, <2>3 DEF EnviarMotivo
<1>21. CASE LimpiarContexto
  <2>1. Vacio \in Registro
    BY ConstantesInstrucciones, ModuloPar DEF Vacio, Registro, Palabra
  <2> QED BY <1>21, <2>1 DEF LimpiarContexto
<1>22. CASE BajarFlags
  BY <1>22, <1>01 DEF BajarFlags
<1>23. CASE Interrupt
  <2>1. CASE RecibirInterrupcion
    BY <2>1, ConstantesCpu DEF RecibirInterrupcion
  <2>2. CASE MarcarInterrupcion
    <3>1. flag_interrupt' \in BOOLEAN
      BY <2>2, Zenon DEF MarcarInterrupcion
    <3> QED BY <2>2, <3>1 DEF MarcarInterrupcion
  <2> QED BY <1>23, <2>1, <2>2 DEF Interrupt
<1>24. ASSUME NEW h \in Hilos, Despertar(h) PROVE TypeOK'
  BY <1>24 DEF Despertar
<1>25. CASE UNCHANGED vars
  BY <1>25
<1> QED
  BY <1>1, <1>2, <1>3, <1>4, <1>5, <1>6, <1>7, <1>8, <1>9, <1>10, <1>11, <1>12, <1>13, <1>14,
     <1>15, <1>16, <1>17, <1>18, <1>19, <1>20, <1>21, <1>22, <1>23, <1>24, <1>25
     DEF Next, Planificador, Dispatch

(* Every variable of the CPU, of the scheduler and of memoria keeps the    *)
(* values of its type for any scripts and machine: registers stay words    *)
(* although sums and differences wrap around, the bytes memoria gives and  *)
(* takes for any translated address, the one a failed translation leaves   *)
(* behind included, are bytes it has (operaciones_cpu.c:177-215), and      *)
(* every packet in flight is one its reader knows.                         *)
THEOREM CpuTypeOK == Spec => []TypeOK
<1>1. Init => Invariante /\ Coherente /\ TypeOK
  BY InitInvariante, InitCoherente, InitTypeOK
<1>2. Invariante /\ Coherente /\ TypeOK /\ [Next]_vars => Invariante' /\ Coherente' /\ TypeOK'
  BY NextInvariante, NextCoherente, NextTypeOK
<1> QED BY <1>1, <1>2, PTL DEF Spec

-----------------------------------------------------------------------------
(* The program counter stays in the script.                                *)

LEMMA FlagsDejanContexto ==
  ASSUME NEW e, Tipada(e)
  PROVE  /\ Falta(e).ctx = e.ctx /\ Rechazada(e).ctx = e.ctx
         /\ \A r : GetRegistry(e, r).ctx = e.ctx /\ Traducida(e, r).ctx = e.ctx
         /\ \A q : CheckDesalojo(e, q).ctx = e.ctx /\ CheckDesalojo(e, q).motivo = q
<1>1. Falta(e).ctx = e.ctx
  BY DEF Tipada, Falta
<1>2. Rechazada(e).ctx = e.ctx
  BY <1>1, FaltaTipada DEF Tipada, Rechazada
<1>3. \A r : GetRegistry(e, r).ctx = e.ctx
  BY <1>1 DEF GetRegistry
<1>4. \A r : Traducida(e, r).ctx = e.ctx
  <2> TAKE r
  <2>1. Tipada(GetRegistry(e, r)) /\ GetRegistry(e, r).ctx = e.ctx
    BY <1>3, GetRegistryTipada
  <2>2. Falta(GetRegistry(e, r)).ctx = GetRegistry(e, r).ctx
    BY <2>1 DEF Tipada, Falta
  <2> QED BY <2>1, <2>2 DEF Traducida
<1>5. \A q : CheckDesalojo(e, q).ctx = e.ctx /\ CheckDesalojo(e, q).motivo = q
  BY DEF Tipada, CheckDesalojo
<1> QED BY <1>1, <1>2, <1>3, <1>4, <1>5

LEMMA SetRegistryDejaPc ==
  ASSUME NEW e, NEW r, NEW v, Tipada(e) PROVE SetRegistry(e, r, v).ctx.pc = e.ctx.pc
<1>1. CASE r \in Registros
  <2> DEFINE c == [e.ctx EXCEPT !.reg = [@ EXCEPT ![r] = v]]
             n == [e EXCEPT !.ctx = c]
  <2>1. SetRegistry(e, r, v) = n
    BY <1>1 DEF SetRegistry
  <2>2. c.pc = e.ctx.pc
    BY DEF Tipada, Registro
  <2>3. n.ctx = c
    <3> HIDE DEF c
    <3> QED BY DEF Tipada
  <2> QED BY <2>1, <2>2, <2>3
<1>2. CASE r \notin Registros
  BY <1>2, FlagsDejanContexto DEF SetRegistry
<1> QED BY <1>1, <1>2

\* Only a jump moves the program counter, and to where it says.
LEMMA SoloSalta ==
  ASSUME NEW e, NEW i, Tipada(e), i.op = "SET" => i.valor \in Palabra
  PROVE  \/ Ejecutada(e, i).ctx.pc = e.ctx.pc
         \/ i.op = "JNZ" /\ Ejecutada(e, i).ctx.pc = i.pc
<1> DEFINE Queda(n) == n.ctx.pc = e.ctx.pc
<1>1. i.op = "SET" => Queda(Set(e, i))
  <2> DEFINE s == SetRegistry(e, i.destino, i.valor)
  <2>1. SUFFICES ASSUME i.valor \in Palabra PROVE Queda(Set(e, i))
    OBVIOUS
  <2>2. Tipada(s) /\ s.ctx.pc = e.ctx.pc
    BY <2>1, SetRegistryTipada, SetRegistryDejaPc
  <2> HIDE DEF s
  <2>3. CheckDesalojo(s, "CONTINUE").ctx = s.ctx
    BY <2>2, FlagsDejanContexto
  <2> QED BY <2>2, <2>3 DEF Set, s
<1>2. Queda(Log(e, i))
  BY GetRegistryTipada, FlagsDejanContexto DEF Log
<1>3. ASSUME NEW v \in Palabra
      PROVE  Queda(CheckDesalojo(SetRegistry(GetRegistry(e, i.origen), i.destino, v), "CONTINUE"))
  <2> DEFINE g == GetRegistry(e, i.origen)
             s == SetRegistry(g, i.destino, v)
  <2>1. Tipada(g) /\ g.ctx = e.ctx
    BY GetRegistryTipada, FlagsDejanContexto
  <2> HIDE DEF g
  <2>2. Tipada(s) /\ s.ctx.pc = g.ctx.pc
    BY <2>1, SetRegistryTipada, SetRegistryDejaPc
  <2> HIDE DEF s
  <2>3. CheckDesalojo(s, "CONTINUE").ctx = s.ctx
    BY <2>2, FlagsDejanContexto
  <2> QED BY <2>1, <2>2, <2>3 DEF s, g
<1>4. Queda(Sum(e, i)) /\ Queda(Sub(e, i))
  <2> DEFINE a == Valor(e, i.destino)
             b == Valor(e, i.origen)
  <2>1. (a + b) % Modulo \in Palabra /\ (a - b) % Modulo \in Palabra
    <3>1. a \in Palabra /\ b \in Palabra
      BY ValorPalabra
    <3> HIDE DEF a, b
    <3> QED BY <3>1, ModuloPar DEF Palabra
  <2> HIDE DEF Queda
  <2> QED BY <1>3, <2>1, Zenon DEF Sum, Sub
<1>5. Queda(Syscall(e, i))
  <2> DEFINE s == [e EXCEPT !.desalojo = TRUE]
  <2>1. Tipada(s) /\ s.ctx = e.ctx
    BY DEF Tipada
  <2> HIDE DEF s
  <2>2. CheckDesalojo(s, i.op).ctx = s.ctx
    BY <2>1, FlagsDejanContexto
  <2> QED BY <2>1, <2>2 DEF Syscall, s
<1>6. Queda(Desconocida(e))
  BY FaltaTipada, FlagsDejanContexto DEF Desconocida
<1>7. i.op = "JNZ" => Queda(Jnz(e, i)) \/ Jnz(e, i).ctx.pc = i.pc
  <2> DEFINE l == GetRegistry(e, i.origen)
             c == [l.ctx EXCEPT !.pc = i.pc]
             n == [l EXCEPT !.ctx = c]
  <2>1. Tipada(l) /\ l.ctx = e.ctx
    BY GetRegistryTipada, FlagsDejanContexto
  <2> HIDE DEF l
  <2>2. c.pc = i.pc
    BY <2>1 DEF Tipada, Registro
  <2> HIDE DEF c
  <2>3. CheckDesalojo(n, "CONTINUE").ctx = c
    BY <2>1 DEF Tipada, CheckDesalojo
  <2>4. CheckDesalojo(l, "CONTINUE").ctx = l.ctx
    BY <2>1, FlagsDejanContexto
  <2>5. Jnz(e, i) = CheckDesalojo(l, "CONTINUE") \/ Jnz(e, i) = CheckDesalojo(n, "CONTINUE")
    BY Zenon DEF Jnz, l, n, c
  <2> QED BY <2>1, <2>2, <2>3, <2>4, <2>5
<1>8. Queda(ReadMem(e, i))
  <2> DEFINE t == Traducida(e, i.origen)
  <2>1. Tipada(t) /\ t.ctx = e.ctx
    BY TraducidaTipada, FlagsDejanContexto
  <2>2. \/ ReadMem(e, i) = Rechazada(t)
        \/ \E v : ReadMem(e, i) = SetRegistry(t, i.destino, v)
    BY Zenon DEF ReadMem
  <2> HIDE DEF t
  <2> QED BY <2>1, <2>2, FlagsDejanContexto, SetRegistryDejaPc
<1>9. Queda(WriteMem(e, i))
  <2> DEFINE d == Traducida(e, i.destino)
             t == GetRegistry(d, i.origen)
  <2>1. Tipada(d) /\ d.ctx = e.ctx
    BY TraducidaTipada, FlagsDejanContexto
  <2>2. Tipada(t) /\ t.ctx = e.ctx
    <3> HIDE DEF d
    <3> QED BY <2>1, GetRegistryTipada, FlagsDejanContexto
  <2>3. WriteMem(e, i) = Rechazada(t) \/ \E m : WriteMem(e, i) = [t EXCEPT !.ram = m]
    BY Zenon DEF WriteMem
  <2> HIDE DEF t
  <2>4. \A m : [t EXCEPT !.ram = m].ctx = t.ctx
    BY <2>2 DEF Tipada
  <2> QED BY <2>2, <2>3, <2>4, FlagsDejanContexto
<1> HIDE DEF Queda
<1>10. \/ Queda(Ejecutada(e, i))
       \/ i.op = "JNZ" /\ Ejecutada(e, i).ctx.pc = i.pc
  <2>1. CASE i.op = "JNZ" /\ Ejecutada(e, i) = Jnz(e, i)
    BY <1>7, <2>1, Zenon
  <2>2. CASE ~(i.op = "JNZ" /\ Ejecutada(e, i) = Jnz(e, i))
    BY <1>1, <1>2, <1>4, <1>5, <1>6, <1>8, <1>9, <2>2 DEF Ejecutada
  <2> QED BY <2>1, <2>2
<1> QED BY <1>10 DEF Queda

\* Whose exit the kernel is about to carry out.
Sale(h) ==
    /\ kpc = "responde" /\ h = hilo_en_exec
    /\ \/ cpc = "envia" /\ motivo \in Salidas
       \/ respuesta # <<>> /\ respuesta[1].motivo \in Salidas

EnScript ==
    /\ fallo = "ninguno"
    /\ \A h \in DOMAIN pcb : pcb[h].pc < Len(Programa[h]) \/ Sale(h)
    /\ cpc = "fetch" => contexto.pc < Len(Programa[hilo])
    /\ cpc \in {"bucle", "motivo", "actualiza"} =>
          contexto.pc < Len(Programa[hilo]) \/ motivo \in Salidas

LEMMA InitEnScript == ASSUME ProgramasCerrados PROVE Init => EnScript
<1> SUFFICES ASSUME Init PROVE EnScript
    OBVIOUS
<1>1. \A h \in DOMAIN pcb : pcb[h].pc < Len(Programa[h])
  BY DEF Init, ProgramasCerrados, ScriptCerrado
<1> QED BY <1>1 DEF Init, EnScript

LEMMA PasoEnScript ==
  ASSUME ProgramasCerrados, Invariante, Coherente, TypeOK, cpc = "execute",
         NEW e, e = Ejecutada(Ejecucion, Programa[hilo][contexto.pc])
  PROVE  e.ctx.pc < Len(Programa[hilo]) \/ e.motivo \in Salidas
<1> DEFINE p == Programa[hilo]
           i == p[contexto.pc]
<1>1. hilo \in Hilos /\ contexto.pc \in 1..Len(p) /\ Len(p) \in Nat
  BY ConstantesCpu DEF Invariante, Colas, Turno, Correspondencia, Trabaja, Coherente
<1>2. Tipada(Ejecucion) /\ Ejecucion.ctx = contexto
  BY DEF TypeOK, Coherente, Tipada, Ejecucion
<1>3. i.op = "SET" => i.valor \in Palabra
  BY <1>1, ConstantesCpu
<1>4. e.ctx.pc = contexto.pc \/ (i.op = "JNZ" /\ e.ctx.pc = i.pc)
  BY <1>2, <1>3, SoloSalta
<1>5. p[Len(p)].op \in Salidas /\ (i.op = "JNZ" => i.pc < Len(p))
  BY <1>1 DEF ProgramasCerrados, ScriptCerrado
<1>6. CASE contexto.pc = Len(p)
  <2>1. i.op \in Salidas
    BY <1>5, <1>6
  <2>2. e = Syscall(Ejecucion, i)
    BY <2>1 DEF Ejecutada, Salidas, Syscalls
  <2>3. e.motivo = i.op
    <3> DEFINE s == [Ejecucion EXCEPT !.desalojo = TRUE]
    <3>1. Tipada(s)
      BY <1>2 DEF Tipada
    <3> HIDE DEF s
    <3>2. CheckDesalojo(s, i.op).motivo = i.op
      BY <3>1, FlagsDejanContexto
    <3> QED BY <2>2, <3>2 DEF Syscall, s
  <2> QED BY <2>1, <2>3
<1>7. CASE contexto.pc # Len(p)
  <2>1. e.ctx.pc < Len(p)
    <3>1. contexto.pc < Len(p)
      BY <1>1, <1>7
    <3> HIDE DEF p, i
    <3> QED BY <1>4, <1>5, <3>1
  <2> QED BY <2>1
<1> QED BY <1>6, <1>7

LEMMA NextEnScript ==
  ASSUME ProgramasCerrados
  PROVE  Invariante /\ Coherente /\ TypeOK /\ EnScript /\ [Next]_vars => EnScript'
<1> SUFFICES ASSUME Invariante, Coherente, TypeOK, EnScript, [Next]_vars PROVE EnScript'
    OBVIOUS
<1> USE DEF EnScript, Sale
<1>01. ASSUME NEW m, NEW s, Atender(m, s), s \in {"despacha", "fin"}
       PROVE  /\ respuesta[1].motivo = m /\ fallo' = fallo
              /\ cpc' = cpc /\ cpc \in {"recibe", "limpia", "flags"}
  <2>1. kpc = "responde" /\ respuesta # <<>> /\ Head(respuesta).motivo = m
    BY <1>01 DEF Atender
  <2>2. ~Trabaja
    BY <2>1, UnaRespuesta, Zenon
  <2>3. respuesta \in Seq(Respuesta)
    BY DEF TypeOK
  <2> QED BY <1>01, <2>1, <2>2, <2>3 DEF Atender, Trabaja
<1>02. ASSUME NEW m, NEW s, Atender(m, s), s \in {"despacha", "fin"}, pcb' = pcb,
              m \notin Salidas
       PROVE  EnScript'
  <2>1. \A h \in DOMAIN pcb : ~Sale(h)
    BY <1>01, <1>02
  <2> QED BY <1>01, <1>02, <2>1
<1>03. ASSUME NEW m, NEW s, Atender(m, s), s \in {"despacha", "fin"}, NEW hs,
              pcb' = SinContexto(hs), m \in Salidas => hilo_en_exec \in hs
       PROVE  EnScript'
  <2>1. \A h \in DOMAIN pcb \ hs : ~Sale(h)
    BY <1>01, <1>03
  <2>2. \A h \in DOMAIN pcb' : h \in DOMAIN pcb \ hs /\ pcb'[h] = pcb[h]
    BY <1>03 DEF SinContexto
  <2> QED BY <1>01, <1>03, <2>1, <2>2
<1>04. cpc \notin {"recibe", "limpia", "flags"} =>
          /\ kpc = "responde" /\ respuesta = <<>> /\ hilo = hilo_en_exec
          /\ hilo \in DOMAIN pcb
  BY DEF Invariante, Correspondencia, Trabaja, Colas, Turno
<1>1. ASSUME NEW h \in Hilos, Planificar(h) PROVE EnScript'
  BY <1>1 DEF Planificar
<1>2. CASE EnviarHilo
  BY <1>2 DEF EnviarHilo
<1>3. CASE NoEnviar
  BY <1>3 DEF NoEnviar
<1>4. CASE Interrupcion
  BY <1>4, <1>02 DEF Interrupcion, Salidas
<1>5. CASE TerminaHilo
  BY <1>5, <1>03 DEF TerminaHilo
<1>6. CASE TerminaProceso
  <2> DEFINE suyos == {h \in Hilos : Pid[h] = Pid[hilo_en_exec]}
  <2>1. PICK m \in {"PROCESS_EXIT", "SEGFAULT", "CONTINUE"} : Atender(m, "fin")
    BY <1>6 DEF TerminaProceso
  <2>2. pcb' = SinContexto(suyos)
    BY <1>6 DEF TerminaProceso
  <2>3. hilo_en_exec \in suyos
    BY <2>1 DEF Atender, Invariante, Colas, Turno
  <2> HIDE DEF suyos
  <2> QED BY <1>03, <2>1, <2>2, <2>3
<1>7. ASSUME NEW m \in Syscalls, Bloquea(m) PROVE EnScript'
  BY <1>7, <1>02 DEF Bloquea, Bloqueantes, Salidas
<1>8. ASSUME NEW h \in Hilos, Cancela(h) PROVE EnScript'
  <2>1. Atender("THREAD_CANCEL", "fin") /\ pcb' = SinContexto({h})
    BY <1>8 DEF Cancela
  <2>2. "THREAD_CANCEL" \notin Salidas
    BY DEF Salidas
  <2> QED BY <1>03, <2>1, <2>2
<1>9. ASSUME NEW m \in Syscalls, Continua(m) PROVE EnScript'
  BY <1>9, <1>02 DEF Continua, Inmediatas, Salidas
<1>10. CASE FinDeTurno
  BY <1>10 DEF FinDeTurno
<1>11. CASE Temporizador
  BY <1>11 DEF Temporizador, Vence, Desaloja
<1>12. CASE RecibirHilo
  BY <1>12 DEF RecibirHilo, En
<1>13. CASE MarcarEjecutando
  BY <1>13 DEF MarcarEjecutando, En
<1>14. CASE ObtenerContexto
  BY <1>14, <1>04 DEF ObtenerContexto, En, Seguir, EsContexto
<1>15. CASE Fetch
  BY <1>15, <1>04 DEF Fetch, En, EsContexto
<1>16. CASE Execute
  <2>1. PICK e : e = Ejecutada(Ejecucion, Programa[hilo][contexto.pc])
    OBVIOUS
  <2>2. /\ contexto' = e.ctx /\ motivo' = e.motivo /\ cpc = "execute" /\ cpc' = "bucle"
        /\ UNCHANGED <<kernel, respuesta, pcb, hilo, fallo>>
    BY <1>16, <2>1 DEF Execute, En
  <2>3. e.ctx.pc < Len(Programa[hilo]) \/ e.motivo \in Salidas
    BY <2>1, <2>2, PasoEnScript
  <2> QED BY <2>2, <2>3, <1>04
<1>17. CASE Bucle
  BY <1>17 DEF Bucle, En, Coherente, Salidas
<1>18. CASE FijarMotivo
  BY <1>18 DEF FijarMotivo, En, Salidas
<1>19. CASE ActualizarContexto
  BY <1>19, <1>04 DEF ActualizarContexto, En, Seguir, EsContexto
<1>20. CASE EnviarMotivo
  <2>1. respuesta = <<>> /\ kpc = "responde" /\ hilo = hilo_en_exec
    BY <1>20, <1>04 DEF EnviarMotivo, En
  <2>2. respuesta' # <<>> /\ respuesta'[1].motivo = motivo
    BY <1>20, <2>1 DEF EnviarMotivo
  <2> QED
    BY <1>20, <2>1, <2>2 DEF EnviarMotivo, En
<1>21. CASE LimpiarContexto
  BY <1>21 DEF LimpiarContexto, En
<1>22. CASE BajarFlags
  BY <1>22 DEF BajarFlags, En
<1>23. CASE Interrupt
  BY <1>23 DEF Interrupt, RecibirInterrupcion, MarcarInterrupcion
<1>24. ASSUME NEW h \in Hilos, Despertar(h) PROVE EnScript'
  BY <1>24 DEF Despertar
<1>25. CASE UNCHANGED vars
  BY <1>25
<1> QED
  BY <1>1, <1>2, <1>3, <1>4, <1>5, <1>6, <1>7, <1>8, <1>9, <1>10, <1>11, <1>12, <1>13, <1>14,
     <1>15, <1>16, <1>17, <1>18, <1>19, <1>20, <1>21, <1>22, <1>23, <1>24, <1>25
     DEF Next, Planificador, Dispatch

(* Whatever the quantum interrupts, a script that ends with an exit is     *)
(* never run past its end: the CPU neither stops for a thread memoria does *)
(* not know nor decodes an instruction that is not there                   *)
(* (ciclo_instruccion.c:28, operaciones_memoria.c:34,128).                 *)
THEOREM CpuSigueSiempre == ASSUME ProgramasCerrados PROVE Spec => []CpuSigue
<1>1. Init => Invariante /\ Coherente /\ TypeOK /\ EnScript
  BY InitInvariante, InitCoherente, InitTypeOK, InitEnScript
<1>2. Invariante /\ Coherente /\ TypeOK /\ EnScript /\ [Next]_vars
      => Invariante' /\ Coherente' /\ TypeOK' /\ EnScript'
  BY NextInvariante, NextCoherente, NextTypeOK, NextEnScript
<1>3. Invariante /\ EnScript => CpuSigue
  BY DEF Invariante, EnScript, CpuSigue
<1> QED BY <1>1, <1>2, <1>3, PTL DEF Spec
=============================================================================
