----------------------------- MODULE Filesystem -----------------------------
(***************************************************************************)
(* filesystem/src: one thread per MEMORY_DUMP, over a bitmap and a block   *)
(* file that are mapped MAP_SHARED and so outlive the process.  Each bit   *)
(* is read and written under mutex_bitmap, but a reservation takes and     *)
(* releases the mutex once per bit, so the steps of two dumps interleave   *)
(* between a test and the set that follows it.  Both files are mapped by   *)
(* whole pages, so past their end there is a tail that can be read and     *)
(* written but is not in the file.                                         *)
(***************************************************************************)
EXTENDS Integers, Sequences, FiniteSets, SequencesExt

CONSTANTS
    Dumps,          \* the dumps memoria asks for; each has a file name of its own
    Tamano,         \* size in bytes of each
    BlockSize, BlockCount,  \* filesystem.config
    Pagina,         \* bytes of a page of memory
    Previos,        \* how many blocks earlier executions may have taken
    MaxCaidas       \* bound on the times the process is killed and started again

ASSUME ConstantesFilesystem ==
    /\ \A d \in Dumps : Tamano[d] \in Nat \ {0}
    /\ BlockSize \in Nat \ {0} /\ BlockCount \in Nat \ {0} /\ Pagina \in Nat \ {0}
    /\ BlockSize % 4 = 0       \* an access copies four bytes: none straddles blocks
    /\ Pagina % BlockSize = 0  \* a block is mapped whole or not at all
    /\ Previos \subseteq 0..BlockCount
    /\ MaxCaidas \in Nat

VARIABLES
    bitmap,         \* blocks marked as taken, bitmap.dat
    bloques,        \* what each block holds, bloques.dat
    archivos,       \* the metadata files of MOUNT_DIR/files
    respuesta,      \* what memoria was told
    pc, loc,        \* where the thread of each dump is, its locals
    caidas, fallo

vars == <<bitmap, bloques, archivos, respuesta, pc, loc, caidas, fallo>>
disco == <<bitmap, bloques, archivos>>

EnPaginas(n) == Pagina * ((n + Pagina - 1) \div Pagina)

\* bitmap.dat, and what its pages hold past it.
BytesBitmap == (BlockCount + 7) \div 8
BitsArchivo == 0..(8 * BytesBitmap - 1)
ColaBits    == (8 * BytesBitmap)..(8 * EnPaginas(BytesBitmap) - 1)
Bits        == BitsArchivo \cup ColaBits

\* bloques.dat, and what its pages hold past it.
Bloques     == 0..(BlockCount - 1)
ColaBloques == BlockCount..(EnPaginas(BlockCount * BlockSize) \div BlockSize - 1)
Mapeados    == Bloques \cup ColaBloques
Vacio       == <<>>

Datos(d, k)  == [dump |-> d, parte |-> k]       \* k-th piece of the contents
Indice(l)    == [punteros |-> l]

\* Data blocks a dump takes; its index block makes one more.
Requeridos(d) == (Tamano[d] + BlockSize - 1) \div BlockSize
LimiteIndices == BlockSize \div 4
Inicial == [i |-> 0, libres |-> 0, lista |-> <<>>, k |-> 1]

En(d, etiqueta) == fallo = "ninguno" /\ pc[d] = etiqueta
Va(d, etiqueta) == pc' = [pc EXCEPT ![d] = etiqueta]

-----------------------------------------------------------------------------

Llega(d) ==
    /\ En(d, "no")
    /\ Va(d, "cuenta")
    /\ UNCHANGED <<disco, respuesta, loc, caidas, fallo>>

\* verificar_espacio_bitmap, one bit at a time
Cuenta(d) ==
    LET l == loc[d] IN
    /\ En(d, "cuenta")
    /\ IF l.i < BlockCount
       THEN /\ loc' = [loc EXCEPT ![d].i = @ + 1,
                    ![d].libres = IF l.i \in bitmap THEN @ ELSE @ + 1]
            /\ UNCHANGED pc
       ELSE /\ loc' = [loc EXCEPT ![d].i = 0]
            /\ Va(d, "verifica")
    /\ UNCHANGED <<disco, respuesta, caidas, fallo>>

HayEspacio(d) == LimiteIndices >= Requeridos(d) /\ loc[d].libres >= Requeridos(d)

\* Mutant: it creates the file before it looks at the space.
VerificaCreando(d) ==
    /\ En(d, "verifica")
    /\ archivos' = [e \in DOMAIN archivos \cup {d} |->
            IF e = d THEN [tamano |-> Tamano[d], indice |-> 0] ELSE archivos[e]]
    /\ IF HayEspacio(d)
       THEN Va(d, "busca") /\ UNCHANGED respuesta
       ELSE Va(d, "fin") /\ respuesta' = [respuesta EXCEPT ![d] = "MEMORY_DUMP"]
    /\ UNCHANGED <<bitmap, bloques, loc, caidas, fallo>>

\* Mutant: a refusal is not sent.
VerificaCallado(d) ==
    /\ En(d, "verifica")
    /\ IF HayEspacio(d) THEN Va(d, "busca") ELSE Va(d, "fin")
    /\ UNCHANGED <<disco, respuesta, loc, caidas, fallo>>

Verifica(d) ==
    /\ En(d, "verifica")
    /\ \/ /\ HayEspacio(d)
          /\ Va(d, "busca")
          /\ UNCHANGED respuesta
       \/ /\ ~HayEspacio(d)
          /\ respuesta' = [respuesta EXCEPT ![d] = "MEMORY_DUMP"]
          /\ Va(d, "fin")
    /\ UNCHANGED <<disco, loc, caidas, fallo>>

\* Mutant: one block too many.
BuscaUnoMas(d) ==
    LET l == loc[d]
        falta == Len(l.lista) < Requeridos(d) + 2
    IN
    /\ En(d, "busca")
    /\ \/ /\ ~falta
          /\ Va(d, "metadata")
          /\ UNCHANGED <<loc, fallo>>
       \/ /\ falta /\ l.i \in Bits \cap bitmap
          /\ loc' = [loc EXCEPT ![d].i = @ + 1]
          /\ UNCHANGED <<pc, fallo>>
       \/ /\ falta /\ l.i \in Bits \ bitmap
          /\ Va(d, "marca")
          /\ UNCHANGED <<loc, fallo>>
       \/ /\ falta /\ l.i \notin Bits
          /\ fallo' = "fuera_del_mapeo"
          /\ UNCHANGED <<pc, loc>>
    /\ UNCHANGED <<disco, respuesta, caidas>>

\* reservar_bitmap: the loop ends when it has its blocks, not at BlockCount.  Past
\* it come the padding bits of the last byte of bitmap.dat and the tail of its page,
\* which it takes as free blocks; only past the mapping does the access fail.
Busca(d) ==
    LET l == loc[d]
        falta == Len(l.lista) < Requeridos(d) + 1
    IN
    /\ En(d, "busca")
    /\ \/ /\ ~falta
          /\ Va(d, "metadata")
          /\ UNCHANGED <<loc, fallo>>
       \/ /\ falta /\ l.i \in Bits \cap bitmap
          /\ loc' = [loc EXCEPT ![d].i = @ + 1]
          /\ UNCHANGED <<pc, fallo>>
       \/ /\ falta /\ l.i \in Bits \ bitmap
          /\ Va(d, "marca")
          /\ UNCHANGED <<loc, fallo>>
       \/ /\ falta /\ l.i \notin Bits
          /\ fallo' = "fuera_del_mapeo"
          /\ UNCHANGED <<pc, loc>>
    /\ UNCHANGED <<disco, respuesta, caidas>>

\* cambiar_bit does not look at the bit again
Marca(d) ==
    /\ En(d, "marca")
    /\ bitmap' = bitmap \cup {loc[d].i}
    /\ loc' = [loc EXCEPT ![d].lista = Append(@, loc[d].i), ![d].i = @ + 1]
    /\ Va(d, "busca")
    /\ UNCHANGED <<bloques, archivos, respuesta, caidas, fallo>>

Metadata(d) ==
    /\ En(d, "metadata")
    /\ archivos' = [e \in DOMAIN archivos \cup {d} |->
            IF e = d THEN [tamano |-> Tamano[d], indice |-> loc[d].lista[1]]
            ELSE archivos[e]]
    /\ Va(d, "indices")
    /\ UNCHANGED <<bitmap, bloques, respuesta, loc, caidas, fallo>>

\* A write past the mapping is an invalid access.
FueraDelMapeo(b) ==
    /\ b \notin Mapeados
    /\ fallo' = "fuera_del_mapeo"
    /\ UNCHANGED <<bloques, respuesta, pc, loc>>

Indices(d) ==
    LET l == loc[d].lista IN
    /\ En(d, "indices")
    /\ \/ FueraDelMapeo(l[1])
       \/ /\ l[1] \in Mapeados
          /\ bloques' = [bloques EXCEPT ![l[1]] = Indice(Tail(l))]
          /\ Va(d, "datos")
          /\ UNCHANGED <<respuesta, loc, fallo>>
    /\ UNCHANGED <<bitmap, archivos, caidas>>

\* Mutant: the last block is not written.
EscribeMenosUno(d) ==
    LET l == loc[d]
        quedan == l.k < Len(l.lista) - 1
    IN
    /\ En(d, "datos")
    /\ \/ quedan /\ FueraDelMapeo(l.lista[l.k + 1])
       \/ /\ quedan /\ l.lista[l.k + 1] \in Mapeados
          /\ bloques' = [bloques EXCEPT ![l.lista[l.k + 1]] = Datos(d, l.k)]
          /\ loc' = [loc EXCEPT ![d].k = @ + 1]
          /\ UNCHANGED <<respuesta, pc, fallo>>
       \/ /\ ~quedan
          /\ respuesta' = [respuesta EXCEPT ![d] = "SUCCESS"]
          /\ Va(d, "fin")
          /\ UNCHANGED <<bloques, loc, fallo>>
    /\ UNCHANGED <<bitmap, archivos, caidas>>

\* One data block at a time; SUCCESS once all are written.
Escribe(d) ==
    LET l == loc[d]
        quedan == l.k < Len(l.lista)
    IN
    /\ En(d, "datos")
    /\ \/ quedan /\ FueraDelMapeo(l.lista[l.k + 1])
       \/ /\ quedan /\ l.lista[l.k + 1] \in Mapeados
          /\ bloques' = [bloques EXCEPT ![l.lista[l.k + 1]] = Datos(d, l.k)]
          /\ loc' = [loc EXCEPT ![d].k = @ + 1]
          /\ UNCHANGED <<respuesta, pc, fallo>>
       \/ /\ ~quedan
          /\ respuesta' = [respuesta EXCEPT ![d] = "SUCCESS"]
          /\ Va(d, "fin")
          /\ UNCHANGED <<bloques, loc, fallo>>
    /\ UNCHANGED <<bitmap, archivos, caidas>>

\* Mutant: a restart clears the bitmap.
ReinicioVacio ==
    /\ fallo = "ninguno"
    /\ caidas < MaxCaidas
    /\ caidas' = caidas + 1
    /\ bitmap' = {}
    /\ pc' = [d \in Dumps |-> IF pc[d] = "no" THEN "no" ELSE "fin"]
    /\ UNCHANGED <<bloques, archivos, respuesta, loc, fallo>>

\* Mutant: a restart clears bloques.dat even though it exists.
ReinicioSinBloques ==
    /\ fallo = "ninguno"
    /\ caidas < MaxCaidas
    /\ caidas' = caidas + 1
    /\ bloques' = [b \in Mapeados |-> Vacio]
    /\ pc' = [d \in Dumps |-> IF pc[d] = "no" THEN "no" ELSE "fin"]
    /\ UNCHANGED <<bitmap, archivos, respuesta, loc, fallo>>

\* The process is killed and started again on the files it left: the bitmap is
\* only reset when bitmap.dat does not exist.
Reinicio ==
    /\ fallo = "ninguno"
    /\ caidas < MaxCaidas       \* bound
    /\ caidas' = caidas + 1
    /\ pc' = [d \in Dumps |-> IF pc[d] = "no" THEN "no" ELSE "fin"]
    /\ UNCHANGED <<disco, respuesta, loc, fallo>>

\* When the system writes a page back it clears the tail, which is in no file; the
\* pages outlive the process, so this may come at any time or not at all.
DescargaBitmap ==
    /\ fallo = "ninguno"
    /\ bitmap \cap ColaBits # {}
    /\ bitmap' = bitmap \ ColaBits
    /\ UNCHANGED <<bloques, archivos, respuesta, pc, loc, caidas, fallo>>

DescargaBloques ==
    /\ fallo = "ninguno"
    /\ \E b \in ColaBloques : bloques[b] # Vacio
    /\ bloques' = [b \in Mapeados |-> IF b \in Bloques THEN bloques[b] ELSE Vacio]
    /\ UNCHANGED <<bitmap, archivos, respuesta, pc, loc, caidas, fallo>>

-----------------------------------------------------------------------------

Init ==
    /\ \E n \in Previos : bitmap = 0..(n - 1)  \* the first free block is always taken
    /\ bloques = [b \in Mapeados |-> Vacio]
    /\ archivos = [d \in {} |-> Vacio]
    /\ respuesta = [d \in Dumps |-> "ninguna"]
    /\ pc = [d \in Dumps |-> "no"]
    /\ loc = [d \in Dumps |-> Inicial]
    /\ caidas = 0 /\ fallo = "ninguno"

Atender(d) ==
    \/ Cuenta(d) \/ Verifica(d) \/ Busca(d) \/ Marca(d)
    \/ Metadata(d) \/ Indices(d) \/ Escribe(d)

Next ==
    \/ Reinicio \/ DescargaBitmap \/ DescargaBloques
    \/ \E d \in Dumps : Llega(d) \/ Atender(d)

Spec == Init /\ [][Next]_vars

\* The operating system runs every thread of the server.
FairSpec == Spec /\ \A d \in Dumps : WF_vars(Atender(d))
=============================================================================
