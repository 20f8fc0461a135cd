----------------------------- MODULE MCMemoria -----------------------------
(***************************************************************************)
(* Instances of Memoria: memories of a few bytes with the shapes of the    *)
(* tests MEM_DINAMICA_BASE and MEM_FIJA_BASE.                              *)
(***************************************************************************)
EXTENDS MemoriaProps, TLC

Procesos3 == 0..2
Procesos6 == 0..5
Hebras2   == 0..1

SinFijas  == <<>>
Tres      == <<2, 4, 3>>
\* The fourth is larger than the memory; the fifth needs most of it.
Grandes   == 0 :> 2 @@ 1 :> 4 @@ 2 :> 2 @@ 3 :> 9 @@ 4 :> 7 @@ 5 :> 3
ParaFijas == 0 :> 2 @@ 1 :> 2 @@ 2 :> 3
SinUno    == Procesos3 \ {1}
KernelSinDump == {"LP", "CP"}
Todos         == {"LP", "CP", "DUMP"}
=============================================================================
