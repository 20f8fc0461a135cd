-------------------------------- MODULE Cpu --------------------------------
(***************************************************************************)
(* cpu/src: the thread of the dispatch port, which executes, and the       *)
(* thread of the interrupt port, which sets flag_interrupt.  They share    *)
(* four flags and no lock.  Around them, what they need of the others: the *)
(* short-term scheduler and its quantum timer, which dispatch threads and  *)
(* send FIN_DE_CLOCK, and memoria, which keeps the contexts, the scripts   *)
(* and the user memory (memoria/src/operaciones_cpu.c).                    *)
(*                                                                         *)
(* A step is a request to memoria, or what is done between two accesses to *)
(* a flag the other thread touches.  Dumps succeed here: one that fails    *)
(* ends a process whose thread may be on the CPU, which is in Kernel.      *)
(***************************************************************************)
EXTENDS Instrucciones

CONSTANTS
    Hilos, Pid,         \* the threads, and the process of each
    Programa,           \* the instructions of each thread
    Contexto,           \* the context memoria gave each thread
    NULO,
    MaxRelojes          \* bound: FIN_DE_CLOCK in flight

\* A context: base and limite are the ends of a partition.
Registro == [pc : Nat, base : 0..(TamMemoria - 1), limite : 0..(TamMemoria - 1),
             reg : [Registros -> Palabra]]

ASSUME ConstantesCpu ==
    /\ NULO \notin Hilos
    /\ MaxRelojes \in Nat \ {0}
    /\ \A h \in Hilos :
          /\ Contexto[h] \in Registro
          /\ Len(Programa[h]) \in Nat
          /\ \A i \in 1..Len(Programa[h]) :
                /\ Programa[h][i].op = "JNZ" => Programa[h][i].pc \in Nat
                /\ Programa[h][i].op = "SET" => Programa[h][i].valor \in Palabra

VARIABLES
    listos, bloqueados,                 \* cola_ready, cola_blocked
    hilo_en_exec, flag_desalojar,
    kpc, rr,                            \* scheduler, and rr_handler
    atendidas,                          \* system calls carried out, by thread
    despacho, respuesta, interrupciones,    \* sockets
    pcb, ram,                           \* memoria: saved contexts, user memory
    cpc, ipc,                           \* dispatch and interrupt threads
    hilo, contexto,                     \* t_contexto_cpu
    flag_ejecutando, flag_desalojo, flag_interrupt, flag_fin_programa, motivo,
    fallo

kernel  == <<listos, bloqueados, hilo_en_exec, kpc, atendidas>>
quantum == <<flag_desalojar, rr, interrupciones>>
memoria == <<pcb, ram>>
dispatch == <<cpc, hilo, contexto, flag_desalojo, motivo>>
vars == <<kernel, quantum, despacho, respuesta, memoria, dispatch, ipc,
          flag_ejecutando, flag_interrupt, flag_fin_programa, fallo>>

Vacio == [pc |-> 0, base |-> 0, limite |-> 0, reg |-> [r \in Registros |-> 0]]

EsContexto(h) == h \in DOMAIN pcb
SinContexto(hs) == [h \in DOMAIN pcb \ hs |-> pcb[h]]

-----------------------------------------------------------------------------
(* The short-term scheduler, client of the dispatch port.                  *)

\* rr_handler is joined before the next turn.
Planificar(h) ==
    /\ kpc = "planifica" /\ rr = "no" /\ h \in listos
    /\ listos' = listos \ {h}
    /\ hilo_en_exec' = h /\ rr' = "espera" /\ kpc' = "despacha"
    /\ UNCHANGED <<bloqueados, flag_desalojar, atendidas, interrupciones, despacho,
                   respuesta, memoria, dispatch, ipc, flag_ejecutando, flag_interrupt,
                   flag_fin_programa, fallo>>

EnviarHilo ==
    /\ kpc = "despacha" /\ ~flag_desalojar
    /\ despacho' = Append(despacho, hilo_en_exec) /\ kpc' = "responde"
    /\ UNCHANGED <<listos, bloqueados, hilo_en_exec, atendidas, quantum, respuesta,
                   memoria, dispatch, ipc, flag_ejecutando, flag_interrupt,
                   flag_fin_programa, fallo>>

\* manejar_cambio_estado: the quantum ended while the kernel served a call.
NoEnviar ==
    /\ kpc = "despacha" /\ flag_desalojar
    /\ listos' = listos \cup {hilo_en_exec} /\ flag_desalojar' = FALSE /\ kpc' = "fin"
    /\ UNCHANGED <<bloqueados, hilo_en_exec, rr, atendidas, interrupciones, despacho,
                   respuesta, memoria, dispatch, ipc, flag_ejecutando, flag_interrupt,
                   flag_fin_programa, fallo>>

\* The pid and tid of the answer are ignored: it is taken to be hilo_en_exec's.
Atender(m, sigue) ==
    /\ kpc = "responde" /\ respuesta # <<>> /\ Head(respuesta).motivo = m
    /\ respuesta' = Tail(respuesta) /\ kpc' = sigue
    /\ atendidas' = IF m \in Syscalls
                    THEN [atendidas EXCEPT ![hilo_en_exec] = @ + 1] ELSE atendidas
    /\ UNCHANGED <<hilo_en_exec, quantum, despacho, ram, dispatch, ipc, flag_ejecutando,
                   flag_interrupt, flag_fin_programa, fallo>>

Interrupcion ==
    /\ Atender("INTERRUPCION", "fin")
    /\ listos' = listos \cup {hilo_en_exec}
    /\ UNCHANGED <<bloqueados, pcb>>

\* Mutant: what mutex_lock and thread_join return is not looked at.
BloqueaYSigue(m) ==
    /\ m \in Bloqueantes /\ Atender(m, "despacha")
    /\ bloqueados' = bloqueados \cup {hilo_en_exec}
    /\ UNCHANGED <<listos, pcb>>

Bloquea(m) ==
    /\ m \in Bloqueantes /\ Atender(m, "fin")
    /\ bloqueados' = bloqueados \cup {hilo_en_exec}
    /\ UNCHANGED <<listos, pcb>>

Continua(m) ==
    /\ m \in Inmediatas /\ Atender(m, "despacha")
    /\ UNCHANGED <<listos, bloqueados, pcb>>

\* FIN_HILO for a thread of the same process, maybe the caller, which in any
\* case is left in no queue.
Cancela(h) ==
    /\ Atender("THREAD_CANCEL", "fin") /\ EsContexto(h) /\ Pid[h] = Pid[hilo_en_exec]
    /\ pcb' = SinContexto({h})
    /\ listos' = listos \ {h} /\ bloqueados' = bloqueados \ {h}

\* FIN_HILO
TerminaHilo ==
    /\ Atender("THREAD_EXIT", "fin")
    /\ pcb' = SinContexto({hilo_en_exec})
    /\ UNCHANGED <<listos, bloqueados>>

\* FIN_PROCESO: asked for, or the answer to a reason that is no system call
TerminaProceso ==
    LET suyos == {h \in Hilos : Pid[h] = Pid[hilo_en_exec]} IN
    /\ \E m \in {"PROCESS_EXIT", "SEGFAULT", "CONTINUE"} : Atender(m, "fin")
    /\ pcb' = SinContexto(suyos)
    /\ listos' = listos \ suyos /\ bloqueados' = bloqueados \ suyos

FinDeTurno ==
    /\ kpc = "fin"
    /\ hilo_en_exec' = NULO /\ flag_desalojar' = FALSE /\ kpc' = "planifica"
    /\ UNCHANGED <<listos, bloqueados, rr, atendidas, interrupciones, despacho, respuesta,
                   memoria, dispatch, ipc, flag_ejecutando, flag_interrupt,
                   flag_fin_programa, fallo>>

Despertar(h) ==
    /\ h \in bloqueados
    /\ bloqueados' = bloqueados \ {h} /\ listos' = listos \cup {h}
    /\ UNCHANGED <<hilo_en_exec, kpc, atendidas, quantum, despacho, respuesta, memoria,
                   dispatch, ipc, flag_ejecutando, flag_interrupt, flag_fin_programa, fallo>>

\* The quantum may end at any moment, before the thread is sent to the CPU too.
Vence ==
    /\ rr = "espera"
    /\ rr' = IF hilo_en_exec # NULO THEN "desaloja" ELSE "no"
    /\ UNCHANGED <<kernel, flag_desalojar, interrupciones, despacho, respuesta, memoria,
                   dispatch, ipc, flag_ejecutando, flag_interrupt, flag_fin_programa, fallo>>

Desaloja ==
    /\ rr = "desaloja" /\ interrupciones < MaxRelojes
    /\ rr' = "no" /\ flag_desalojar' = TRUE /\ interrupciones' = interrupciones + 1
    /\ UNCHANGED <<kernel, despacho, respuesta, memoria, dispatch, ipc, flag_ejecutando,
                   flag_interrupt, flag_fin_programa, fallo>>

-----------------------------------------------------------------------------
(* The dispatch thread of the CPU.                                         *)

En(etiqueta) == fallo = "ninguno" /\ cpc = etiqueta

RecibirHilo ==
    /\ En("recibe") /\ ~flag_fin_programa /\ despacho # <<>>
    /\ hilo' = Head(despacho) /\ despacho' = Tail(despacho)
    /\ cpc' = "ejecutando"
    /\ UNCHANGED <<kernel, quantum, respuesta, memoria, contexto, flag_desalojo, motivo,
                   ipc, flag_ejecutando, flag_interrupt, flag_fin_programa, fallo>>

MarcarEjecutando ==
    /\ En("ejecutando")
    /\ flag_ejecutando' = TRUE /\ cpc' = "contexto"
    /\ UNCHANGED <<kernel, quantum, despacho, respuesta, memoria, hilo, contexto,
                   flag_desalojo, motivo, ipc, flag_interrupt, flag_fin_programa, fallo>>

\* memoria does not know the thread: PID_NOT_FOUND.
Abortar ==
    /\ flag_fin_programa' = TRUE /\ flag_desalojo' = TRUE /\ flag_interrupt' = TRUE
    /\ motivo' = "SEGFAULT"

Seguir == UNCHANGED <<flag_fin_programa, flag_desalojo, flag_interrupt, motivo>>

\* Mutant: the loop tests its flags before the first instruction.
ObtenerContextoYProbar ==
    /\ En("contexto") /\ cpc' = "bucle"
    /\ IF EsContexto(hilo) THEN Seguir /\ contexto' = pcb[hilo]
       ELSE Abortar /\ UNCHANGED contexto
    /\ UNCHANGED <<kernel, quantum, despacho, respuesta, memoria, hilo, ipc,
                   flag_ejecutando, fallo>>

ObtenerContexto ==
    /\ En("contexto") /\ cpc' = "fetch"
    /\ IF EsContexto(hilo) THEN Seguir /\ contexto' = pcb[hilo]
       ELSE Abortar /\ UNCHANGED contexto
    /\ UNCHANGED <<kernel, quantum, despacho, respuesta, memoria, hilo, ipc,
                   flag_ejecutando, fallo>>

\* Mutant: the last instruction of a script is not found.
FetchCorto ==
    /\ En("fetch")
    /\ IF EsContexto(hilo) /\ contexto.pc + 1 < Len(Programa[hilo])
       THEN contexto' = [contexto EXCEPT !.pc = @ + 1] /\ cpc' = "execute" /\ UNCHANGED fallo
       ELSE fallo' = "puntero_nulo" /\ UNCHANGED <<contexto, cpc>>
    /\ UNCHANGED <<kernel, quantum, despacho, respuesta, memoria, hilo, flag_desalojo,
                   motivo, ipc, flag_ejecutando, flag_interrupt, flag_fin_programa>>

\* Without an instruction, decode dereferences NULL.
Fetch ==
    /\ En("fetch")
    /\ IF EsContexto(hilo) /\ contexto.pc < Len(Programa[hilo])
       THEN contexto' = [contexto EXCEPT !.pc = @ + 1] /\ cpc' = "execute" /\ UNCHANGED fallo
       ELSE fallo' = "puntero_nulo" /\ UNCHANGED <<contexto, cpc>>
    /\ UNCHANGED <<kernel, quantum, despacho, respuesta, memoria, hilo, flag_desalojo,
                   motivo, ipc, flag_ejecutando, flag_interrupt, flag_fin_programa>>

Ejecucion ==
    [ctx |-> contexto, ram |-> ram, desalojo |-> flag_desalojo,
     interrupt |-> flag_interrupt, motivo |-> motivo]

Execute ==
    /\ En("execute")
    /\ LET e == Ejecutada(Ejecucion, Programa[hilo][contexto.pc]) IN
          /\ contexto' = e.ctx /\ ram' = e.ram /\ flag_desalojo' = e.desalojo
          /\ flag_interrupt' = e.interrupt /\ motivo' = e.motivo
    /\ cpc' = "bucle"
    /\ UNCHANGED <<kernel, quantum, despacho, respuesta, pcb, hilo, ipc, flag_ejecutando,
                   flag_fin_programa, fallo>>

\* The condition of the loop of ejecutar_hilo
Bucle ==
    /\ En("bucle")
    /\ cpc' = IF flag_desalojo \/ flag_interrupt \/ flag_fin_programa
              THEN "motivo" ELSE "fetch"
    /\ UNCHANGED <<kernel, quantum, despacho, respuesta, memoria, hilo, contexto,
                   flag_desalojo, motivo, ipc, flag_ejecutando, flag_interrupt,
                   flag_fin_programa, fallo>>

\* Mutant: an interruption takes the place of any other reason.
FijarMotivoSiempre ==
    /\ En("motivo") /\ cpc' = "actualiza"
    /\ motivo' = IF flag_interrupt THEN "INTERRUPCION" ELSE motivo
    /\ UNCHANGED <<kernel, quantum, despacho, respuesta, memoria, hilo, contexto,
                   flag_desalojo, ipc, flag_ejecutando, flag_interrupt, flag_fin_programa,
                   fallo>>

FijarMotivo ==
    /\ En("motivo") /\ cpc' = "actualiza"
    /\ motivo' = IF flag_interrupt /\ motivo = "CONTINUE" THEN "INTERRUPCION" ELSE motivo
    /\ UNCHANGED <<kernel, quantum, despacho, respuesta, memoria, hilo, contexto,
                   flag_desalojo, ipc, flag_ejecutando, flag_interrupt, flag_fin_programa,
                   fallo>>

ActualizarContexto ==
    /\ En("actualiza") /\ cpc' = "envia"
    /\ IF EsContexto(hilo) THEN Seguir /\ pcb' = [pcb EXCEPT ![hilo] = contexto]
       ELSE Abortar /\ UNCHANGED pcb
    /\ UNCHANGED <<kernel, quantum, despacho, respuesta, ram, hilo, contexto, ipc,
                   flag_ejecutando, fallo>>

EnviarMotivo ==
    /\ En("envia") /\ cpc' = "limpia"
    /\ respuesta' = Append(respuesta, [hilo |-> hilo, motivo |-> motivo])
    /\ UNCHANGED <<kernel, quantum, despacho, memoria, hilo, contexto, flag_desalojo, motivo,
                   ipc, flag_ejecutando, flag_interrupt, flag_fin_programa, fallo>>

\* clean_contexto, and the first of the flags
LimpiarContexto ==
    /\ En("limpia") /\ cpc' = "flags"
    /\ hilo' = NULO /\ contexto' = Vacio /\ flag_ejecutando' = FALSE
    /\ UNCHANGED <<kernel, quantum, despacho, respuesta, memoria, flag_desalojo, motivo,
                   ipc, flag_interrupt, flag_fin_programa, fallo>>

BajarFlags ==
    /\ En("flags") /\ cpc' = "recibe"
    /\ flag_desalojo' = FALSE /\ flag_interrupt' = FALSE /\ motivo' = "CONTINUE"
    /\ UNCHANGED <<kernel, quantum, despacho, respuesta, memoria, hilo, contexto, ipc,
                   flag_ejecutando, flag_fin_programa, fallo>>

-----------------------------------------------------------------------------
(* The interrupt thread.  FIN_DE_CLOCK does not say for which thread it is. *)

RecibirInterrupcion ==
    /\ fallo = "ninguno" /\ ipc = "recibe" /\ ~flag_fin_programa /\ interrupciones > 0
    /\ interrupciones' = interrupciones - 1
    /\ ipc' = IF flag_ejecutando THEN "marca" ELSE "recibe"
    /\ UNCHANGED <<kernel, flag_desalojar, rr, despacho, respuesta, memoria, dispatch,
                   flag_ejecutando, flag_interrupt, flag_fin_programa, fallo>>

MarcarInterrupcion ==
    /\ fallo = "ninguno" /\ ipc = "marca"
    /\ flag_interrupt' = TRUE /\ ipc' = "recibe"
    /\ UNCHANGED <<kernel, quantum, despacho, respuesta, memoria, dispatch,
                   flag_ejecutando, flag_fin_programa, fallo>>

-----------------------------------------------------------------------------

Init ==
    /\ listos = Hilos /\ bloqueados = {}
    /\ hilo_en_exec = NULO /\ flag_desalojar = FALSE
    /\ kpc = "planifica" /\ rr = "no"
    /\ atendidas = [h \in Hilos |-> 0]
    /\ despacho = <<>> /\ respuesta = <<>> /\ interrupciones = 0
    /\ pcb = [h \in Hilos |-> Contexto[h]] /\ ram = [d \in Direcciones |-> 0]
    /\ cpc = "recibe" /\ ipc = "recibe" /\ hilo = NULO /\ contexto = Vacio
    /\ flag_ejecutando = FALSE /\ flag_desalojo = FALSE /\ flag_interrupt = FALSE
    /\ flag_fin_programa = FALSE /\ motivo = "CONTINUE" /\ fallo = "ninguno"

Planificador ==
    \/ \E h \in Hilos : Planificar(h) \/ Cancela(h)
    \/ EnviarHilo \/ NoEnviar \/ Interrupcion \/ TerminaHilo \/ TerminaProceso
    \/ \E m \in Syscalls : Bloquea(m) \/ Continua(m)
    \/ FinDeTurno

Temporizador == Vence \/ Desaloja

Dispatch ==
    \/ RecibirHilo \/ MarcarEjecutando \/ ObtenerContexto \/ Fetch \/ Execute \/ Bucle
    \/ FijarMotivo \/ ActualizarContexto \/ EnviarMotivo \/ LimpiarContexto \/ BajarFlags

Interrupt == RecibirInterrupcion \/ MarcarInterrupcion

Next == Planificador \/ Temporizador \/ Dispatch \/ Interrupt \/ \E h \in Hilos : Despertar(h)

Spec == Init /\ [][Next]_vars

Fairness ==
    /\ WF_vars(Planificador) /\ WF_vars(Temporizador)
    /\ WF_vars(Dispatch) /\ WF_vars(Interrupt)
    /\ \A h \in Hilos : WF_vars(Despertar(h))

FairSpec == Spec /\ Fairness
=============================================================================
