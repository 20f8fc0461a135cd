------------------------------ MODULE Computo ------------------------------
(***************************************************************************)
(* What the CPU promises: every thread runs its instructions one by one,   *)
(* in order and each of them once, on registers of its own and on the      *)
(* memory, as if nobody ever took the CPU from it; and the kernel carries  *)
(* out each system call once.  There are no flags, no quantum, and no      *)
(* copies of a context.                                                    *)
(***************************************************************************)
EXTENDS Instrucciones

CONSTANTS Hilos, Pid, Programa, Contexto

VARIABLES
    ctx,        \* the context of each live thread
    ram,
    estado,     \* of each thread; see Estados
    atendidas

vars == <<ctx, ram, estado, atendidas>>

\* See EstadoDe; "fin" is a thread that is no more.
Estados == {"activo", "pide", "muere", "invalida", "fin"}

Sin(hs) == [h \in DOMAIN ctx \ hs |-> ctx[h]]

Init ==
    /\ ctx = [h \in Hilos |-> Contexto[h]]
    /\ ram = [d \in Direcciones |-> 0]
    /\ estado = [h \in Hilos |-> "activo"]
    /\ atendidas = [h \in Hilos |-> 0]

Instruccion(h, interrupt) ==
    /\ h \in DOMAIN ctx /\ estado[h] = "activo" /\ ctx[h].pc < Len(Programa[h])
    /\ LET e == Ejecutada([ctx |-> [ctx[h] EXCEPT !.pc = @ + 1], ram |-> ram,
                           desalojo |-> FALSE, interrupt |-> interrupt,
                           motivo |-> "CONTINUE"],
                          Programa[h][ctx[h].pc + 1])
       IN  /\ ctx' = [ctx EXCEPT ![h] = e.ctx] /\ ram' = e.ram
           /\ estado' = [estado EXCEPT ![h] = EstadoDe(e.desalojo, e.interrupt, e.motivo)]
    /\ UNCHANGED atendidas

Perdonar(h) ==
    /\ estado[h] = "invalida"
    /\ estado' = [estado EXCEPT ![h] = "activo"]
    /\ UNCHANGED <<ctx, ram, atendidas>>

Atendida(h) == atendidas' = [atendidas EXCEPT ![h] = @ + 1]

Atender(h) ==
    /\ estado[h] = "pide" /\ Atendida(h)
    /\ estado' = [estado EXCEPT ![h] = "activo"]
    /\ UNCHANGED <<ctx, ram>>

Proceso(h) == {g \in Hilos : Pid[g] = Pid[h]}

Termina(hs) ==
    /\ ctx' = Sin(hs)
    /\ estado' = [g \in Hilos |-> IF g \in hs THEN "fin" ELSE estado[g]]
    /\ UNCHANGED ram

Salir(h) == estado[h] = "pide" /\ Atendida(h) /\ Termina(Proceso(h))

\* THREAD_EXIT, or THREAD_CANCEL of this or another thread of the process
Cancelar(h, g) ==
    /\ estado[h] = "pide" /\ Atendida(h) /\ UNCHANGED ram
    /\ ctx' = Sin({g})
    /\ estado' = [estado EXCEPT ![h] = "activo", ![g] = "fin"]

Matar(h) ==
    estado[h] \in {"muere", "invalida"} /\ UNCHANGED atendidas /\ Termina(Proceso(h))

Next == \E h \in Hilos :
    \/ \E interrupt \in BOOLEAN : Instruccion(h, interrupt)
    \/ Perdonar(h) \/ Atender(h)
    \/ Salir(h) \/ Matar(h) \/ \E g \in Proceso(h) : Cancelar(h, g)

Spec == Init /\ [][Next]_vars
=============================================================================
