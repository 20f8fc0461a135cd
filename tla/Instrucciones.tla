--------------------------- MODULE Instrucciones ---------------------------
(***************************************************************************)
(* The instructions of the CPU (cpu/src/instrucciones.c, utils.c) and the  *)
(* requests on the user memory they make (memoria/src/operaciones_cpu.c).  *)
(*                                                                         *)
(* An execution is a record: the context of the thread, the user memory,   *)
(* and the flags and the reason the dispatch thread looks at afterwards.   *)
(***************************************************************************)
EXTENDS Integers, Sequences

CONSTANTS
    Registros,      \* AX to HX
    Octetos,        \* sizeof(uint32_t)
    Valores,        \* values of a byte
    TamMemoria      \* tamanio_memoria

\* Valores ^ k, written so that it can be reasoned about
Potencia[k \in 0..Octetos] == IF k = 0 THEN 1 ELSE Valores * Potencia[k - 1]

Modulo  == Potencia[Octetos]
Palabra == 0..(Modulo - 1)
Byte    == 0..(Valores - 1)

ASSUME ConstantesInstrucciones ==
    /\ Octetos \in Nat \ {0} /\ Valores \in Nat \ {0, 1}
    /\ TamMemoria \in Nat \ {0} /\ 2 * TamMemoria <= Modulo

\* Bytes a request can touch: a failed translation reaches the one before the
\* first (df = -1).
Direcciones == (-1)..(TamMemoria - 1)

\* System calls after which the kernel may run another thread, or the same one.
Bloqueantes == {"IO", "DUMP_MEMORY", "THREAD_JOIN", "MUTEX_LOCK"}
Inmediatas  == {"PROCESS_CREATE", "THREAD_CREATE", "THREAD_JOIN", "MUTEX_CREATE",
                "MUTEX_LOCK", "MUTEX_UNLOCK"}
Syscalls    == Bloqueantes \cup Inmediatas
                   \cup {"THREAD_CANCEL", "THREAD_EXIT", "PROCESS_EXIT"}
Motivos     == Syscalls \cup {"CONTINUE", "INTERRUPCION", "SEGFAULT"}

Falta(e) == [e EXCEPT !.desalojo = TRUE, !.motivo = "SEGFAULT"]

Valor(e, r) == IF r \in Registros THEN e.ctx.reg[r] ELSE 0

GetRegistry(e, r) == IF r \in Registros THEN e ELSE Falta(e)

SetRegistry(e, r, v) ==
    IF r \in Registros THEN [e EXCEPT !.ctx.reg[r] = v] ELSE Falta(e)

\* The new reason replaces whatever set_registry or get_registry left there.
CheckDesalojo(e, motivo) ==
    [e EXCEPT !.desalojo = e.desalojo \/ e.interrupt, !.motivo = motivo]

Set(e, i) == CheckDesalojo(SetRegistry(e, i.destino, i.valor), "CONTINUE")

\* Mutant: a sum wider than the registers.
SumAncha(e, i) ==
    LET res == Valor(e, i.destino) + Valor(e, i.origen)
    IN  CheckDesalojo(SetRegistry(GetRegistry(e, i.origen), i.destino, res), "CONTINUE")

Sum(e, i) ==
    LET res == (Valor(e, i.destino) + Valor(e, i.origen)) % Modulo
    IN  CheckDesalojo(SetRegistry(GetRegistry(e, i.origen), i.destino, res), "CONTINUE")

Sub(e, i) ==
    LET res == (Valor(e, i.destino) - Valor(e, i.origen)) % Modulo
    IN  CheckDesalojo(SetRegistry(GetRegistry(e, i.origen), i.destino, res), "CONTINUE")

Jnz(e, i) ==
    LET leido == GetRegistry(e, i.origen)
    IN  CheckDesalojo(IF Valor(e, i.origen) = 0 THEN leido
                      ELSE [leido EXCEPT !.ctx.pc = i.pc], "CONTINUE")

Log(e, i) == CheckDesalojo(GetRegistry(e, i.origen), "CONTINUE")

-----------------------------------------------------------------------------
(* The MMU and the user memory.  An address travels as uint32_t and memoria *)
(* reads it as int; the sum with sizeof is done in 64 bits without sign.    *)

TraduccionFalla(e, r) == Valor(e, r) + Octetos > e.ctx.limite

Mmu(e, r) ==
    IF TraduccionFalla(e, r) THEN Modulo - 1 ELSE (e.ctx.base + Valor(e, r)) % Modulo

ConSigno(df) == IF 2 * df >= Modulo THEN df - Modulo ELSE df

FueraDeRango(df) ==
    \/ ConSigno(df) + Octetos < 0
    \/ ConSigno(df) + Octetos >= TamMemoria

\* Byte k of a word, little-endian
Octeto(v, k) == (v \div Potencia[k]) % Valores

Leido(m, a) ==
    LET suma[k \in 0..Octetos] ==
            IF k = 0 THEN 0 ELSE suma[k - 1] + m[a + k - 1] * Potencia[k - 1]
    IN  suma[Octetos]

Escrito(m, a, v) ==
    [d \in DOMAIN m |-> IF d - a \in 0..(Octetos - 1) THEN Octeto(v, d - a) ELSE m[d]]

Traducida(e, r) ==
    IF TraduccionFalla(e, r) THEN Falta(GetRegistry(e, r)) ELSE GetRegistry(e, r)

Rechazada(e) == [Falta(e) EXCEPT !.interrupt = TRUE]

\* A failed translation does not keep the request from being made.
ReadMem(e, i) ==
    LET df == Mmu(e, i.origen)
        t  == Traducida(e, i.origen)
    IN  IF FueraDeRango(df) THEN Rechazada(t)
        ELSE SetRegistry(t, i.destino, Leido(e.ram, ConSigno(df)))

WriteMem(e, i) ==
    LET df == Mmu(e, i.destino)
        t  == GetRegistry(Traducida(e, i.destino), i.origen)
    IN  IF FueraDeRango(df) THEN Rechazada(t)
        ELSE [t EXCEPT !.ram = Escrito(e.ram, ConSigno(df), Valor(e, i.origen))]

-----------------------------------------------------------------------------

Syscall(e, i) == CheckDesalojo([e EXCEPT !.desalojo = TRUE], i.op)

Desconocida(e) == CheckDesalojo(Falta(e), "SEGFAULT")

\* What the kernel will do with a thread whose instruction left these flags: go
\* on with it, carry out its system call, or end its process.  A wrong register
\* ends it ("invalida") unless FIN_DE_CLOCK arrives before the answer.
EstadoDe(desalojo, interrupt, motivo) ==
    IF motivo \in Syscalls THEN "pide"
    ELSE IF motivo = "SEGFAULT" THEN "muere"
    ELSE IF motivo = "CONTINUE" /\ desalojo /\ ~interrupt THEN "invalida"
    ELSE "activo"

\* decode and execute
Ejecutada(e, i) ==
    CASE i.op = "SET"       -> Set(e, i)
      [] i.op = "SUM"       -> Sum(e, i)
      [] i.op = "SUB"       -> Sub(e, i)
      [] i.op = "JNZ"       -> Jnz(e, i)
      [] i.op = "LOG"       -> Log(e, i)
      [] i.op = "READ_MEM"  -> ReadMem(e, i)
      [] i.op = "WRITE_MEM" -> WriteMem(e, i)
      [] i.op \in Syscalls  -> Syscall(e, i)
      [] OTHER              -> Desconocida(e)
=============================================================================
