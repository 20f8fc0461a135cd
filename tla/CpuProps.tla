------------------------------ MODULE CpuProps ------------------------------
(***************************************************************************)
(* What the CPU, its two ports and the contexts in memoria must satisfy.   *)
(***************************************************************************)
EXTENDS Cpu

Respuesta == [hilo : Hilos, motivo : Motivos]
EtiquetasCpu == {"recibe", "ejecutando", "contexto", "fetch", "execute", "bucle",
                 "motivo", "actualiza", "envia", "limpia", "flags"}

(* The variables of the CPU, the scheduler and memoria hold values of      *)
(* their types, and every packet in flight is one its reader knows.        *)
TypeOK ==
    /\ listos \subseteq Hilos /\ bloqueados \subseteq Hilos
    /\ hilo_en_exec \in Hilos \cup {NULO} /\ hilo \in Hilos \cup {NULO}
    /\ kpc \in {"planifica", "despacha", "responde", "fin"}
    /\ rr \in {"no", "espera", "desaloja"} /\ interrupciones \in 0..MaxRelojes
    /\ atendidas \in [Hilos -> Nat]
    /\ despacho \in Seq(Hilos) /\ respuesta \in Seq(Respuesta)
    /\ DOMAIN pcb \subseteq Hilos /\ \A h \in DOMAIN pcb : pcb[h] \in Registro
    /\ ram \in [Direcciones -> Byte] /\ contexto \in Registro
    /\ cpc \in EtiquetasCpu /\ ipc \in {"recibe", "marca"} /\ motivo \in Motivos
    /\ flag_ejecutando \in BOOLEAN /\ flag_desalojo \in BOOLEAN
    /\ flag_interrupt \in BOOLEAN /\ flag_fin_programa \in BOOLEAN
    /\ flag_desalojar \in BOOLEAN
    /\ fallo \in {"ninguno", "puntero_nulo"}

\* The CPU works for the scheduler from the packet that names a thread to its answer.
Trabaja == cpc \notin {"recibe", "limpia", "flags"}

(* The scheduler does not look at whom an answer is about                  *)
(* (planificador_corto_plazo.c:105): what the CPU has, or the sockets      *)
(* carry, must be the turn of hilo_en_exec and of nobody else, which is in *)
(* no queue meanwhile.                                                     *)
Correspondencia ==
    /\ kpc = "responde" <=> (Trabaja \/ despacho # <<>> \/ respuesta # <<>>)
    /\ kpc = "responde" =>
          /\ hilo_en_exec \in DOMAIN pcb \ (listos \cup bloqueados)
          /\ \/ despacho = <<hilo_en_exec>> /\ respuesta = <<>> /\ ~Trabaja
             \/ despacho = <<>> /\ respuesta = <<>> /\ Trabaja /\ hilo = hilo_en_exec
             \/ /\ despacho = <<>> /\ Len(respuesta) = 1 /\ ~Trabaja
                /\ respuesta[1].hilo = hilo_en_exec

Salidas == {"THREAD_EXIT", "PROCESS_EXIT"}

\* A script ends its thread, as all of pruebas/scripts do, and jumps into itself.
ScriptCerrado(c, p) ==
    /\ c.pc < Len(p) /\ p[Len(p)].op \in Salidas
    /\ \A i \in 1..Len(p) : p[i].op = "JNZ" => p[i].pc < Len(p)

ProgramasCerrados == \A h \in Hilos : ScriptCerrado(Contexto[h], Programa[h])

(* The CPU outlives the threads it runs: memoria knows every thread it     *)
(* asks about (operaciones_memoria.c:34,76,128), so it does not stop, and  *)
(* no fetch comes back without an instruction (ciclo_instruccion.c:28).    *)
CpuSigue == fallo = "ninguno" /\ ~flag_fin_programa

-----------------------------------------------------------------------------
(* The ideal thread behind the copies of its context.                      *)

EnCpu(h) == hilo = h /\ cpc \in {"fetch", "execute", "bucle", "motivo", "actualiza"}

Actual(h) ==
    IF ~EnCpu(h) THEN pcb[h]
    ELSE IF cpc = "execute" THEN [contexto EXCEPT !.pc = @ - 1] ELSE contexto

Estado(h) ==
    IF ~EsContexto(h) THEN "fin"
    ELSE IF kpc # "responde" \/ h # hilo_en_exec \/ fallo # "ninguno" THEN "activo"
    ELSE IF respuesta # <<>> THEN EstadoDe(TRUE, FALSE, respuesta[1].motivo)
    ELSE IF cpc \in {"bucle", "motivo"} THEN EstadoDe(flag_desalojo, flag_interrupt, motivo)
    ELSE IF cpc \in {"actualiza", "envia"} THEN EstadoDe(flag_desalojo, FALSE, motivo)
    ELSE "activo"

I == INSTANCE Computo WITH
    ctx <- [h \in DOMAIN pcb |-> Actual(h)],
    estado <- [h \in Hilos |-> Estado(h)]

(* However often the quantum ends, and whenever FIN_DE_CLOCK arrives, each *)
(* thread runs its script as it would alone, and no system call is lost    *)
(* or repeated (ciclo_instruccion.c:149-174, servidor_cpu.c:56-69).        *)
CumpleComputo == I!Spec

(* A WRITE_MEM stays inside the partition of its process, which memoria    *)
(* hands out as base and limite (memoria/src/operaciones_kernel.c:95-97):  *)
(* "la base desde donde tiene acceso a memoria es la particion".           *)
Aislamiento ==
    [][\A d \in Direcciones : ram'[d] # ram[d] => d \in contexto.base..contexto.limite]_vars

(* Every script comes to its end although the quantum may end at any       *)
(* instruction: each turn on the CPU makes some progress                   *)
(* (ciclo_instruccion.c:151), so it is enough that from some moment on no  *)
(* turn is lost before it starts (planificador_corto_plazo.c:73-80): the   *)
(* quantum, slept in milliseconds, then ends neither before the thread is  *)
(* sent to the CPU nor while its turn is closed.  What is left are callers *)
(* of THREAD_CANCEL, which the kernel never runs again (the same file:161).*)
TodosTerminan ==
    <>[][Vence => kpc \notin {"despacha", "fin"}]_vars =>
        <>(DOMAIN pcb \cap (listos \cup bloqueados \cup {hilo_en_exec}) = {})
=============================================================================
