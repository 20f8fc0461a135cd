------------------------------- MODULE MCCpu -------------------------------
(***************************************************************************)
(* Instances of Cpu: scripts like those of pruebas/scripts, on a machine   *)
(* of four-bit words of two bytes.                                         *)
(***************************************************************************)
EXTENDS CpuProps, TLC

CONSTANTS h1, h2, h3

SET(r, v)   == [op |-> "SET", destino |-> r, valor |-> v]
SUM(r, s)   == [op |-> "SUM", destino |-> r, origen |-> s]
SUB(r, s)   == [op |-> "SUB", destino |-> r, origen |-> s]
JNZ(r, n)   == [op |-> "JNZ", origen |-> r, pc |-> n]
LOG(r)      == [op |-> "LOG", origen |-> r]
READ(r, d)  == [op |-> "READ_MEM", destino |-> r, origen |-> d]
WRITE(d, r) == [op |-> "WRITE_MEM", destino |-> d, origen |-> r]
CALL(o)     == [op |-> o]

Procesos2 == h1 :> 1 @@ h2 :> 1 @@ h3 :> 2

\* Two threads of a process, of which one writes a word of its memory in a loop,
\* and the other ends or cancels one of the two as it reads there; and a process
\* that names a register that is none and, if that is forgiven, reads past its
\* partition
Carrera ==
    h1 :> <<SET("CX", 4), SUB("DX", "CX"), CALL("MUTEX_LOCK"),
            WRITE("AX", "DX"), SUM("CX", "CX"), JNZ("CX", 3), CALL("PROCESS_EXIT")>>
    @@ h2 :> <<READ("BX", "AX"), JNZ("BX", 3), CALL("THREAD_CANCEL"), CALL("THREAD_EXIT")>>
    @@ h3 :> <<SET("AX", 12), SET("PC", 0), READ("BX", "AX"), CALL("PROCESS_EXIT")>>

Rango(b, l) == [pc |-> 0, base |-> b, limite |-> l, reg |-> [r \in Registros |-> 0]]
\* Two threads of which the one with the lower partition writes near its end
Borde ==
    h1 :> <<READ("BX", "AX"), LOG("BX"), CALL("IO"), JNZ("BX", 2), CALL("PROCESS_EXIT")>>
    @@ h3 :> <<SET("AX", 1), SET("BX", 5), WRITE("AX", "BX"), CALL("PROCESS_EXIT")>>

Contiguos == h1 :> Rango(0, 3) @@ h2 :> Rango(0, 3) @@ h3 :> Rango(4, 7)
Bajo == h1 :> Rango(4, 7) @@ h3 :> Rango(2, 3)

ASSUME ProgramasCerrados

Registros4 == {"AX", "BX", "CX", "DX"}
=============================================================================
