-------------------------- MODULE FilesystemProps --------------------------
(***************************************************************************)
(* What the files, the bitmap and the answers of filesystem must satisfy.  *)
(***************************************************************************)
EXTENDS Filesystem

Etiquetas == {"no", "cuenta", "verifica", "busca", "marca", "metadata", "indices",
              "datos", "fin"}

Locales == [i : Nat, libres : 0..BlockCount, lista : Seq(Bits), k : Nat \ {0}]

(* Bits and blocks are within the pages that are mapped, though not within *)
(* the BLOCK_COUNT of filesystem.config, and no thread reserves more of    *)
(* them than its dump and its index take.                                  *)
TypeOK ==
    /\ bitmap \subseteq Bits
    /\ DOMAIN bloques = Mapeados /\ DOMAIN archivos \subseteq Dumps
    /\ \A d \in DOMAIN archivos : archivos[d].indice \in Bits
    /\ respuesta \in [Dumps -> {"ninguna", "SUCCESS", "MEMORY_DUMP"}]
    /\ pc \in [Dumps -> Etiquetas]
    /\ loc \in [Dumps -> Locales]
    /\ \A d \in Dumps : Len(loc[d].lista) <= Requeridos(d) + 1
    /\ caidas \in 0..MaxCaidas /\ fallo \in {"ninguno", "fuera_del_mapeo"}

\* The blocks given to d are in bloques.dat.
EnArchivo(d) == ToSet(loc[d].lista) \subseteq Bloques

\* What a reader finds behind the metadata of d.
Integro(d) ==
    /\ d \in DOMAIN archivos
    /\ LET b == bloques[archivos[d].indice] IN
        /\ b = Indice(Tail(loc[d].lista))
        /\ Len(b.punteros) = Requeridos(d)
        /\ \A k \in DOMAIN b.punteros : bloques[b.punteros[k]] = Datos(d, k)

Comparten(d, e) == d # e /\ ToSet(loc[d].lista) \cap ToSet(loc[e].lista) # {}

\* No other dump was given a block of d.
Propia(d) == \A e \in Dumps : ~Comparten(d, e)

(* A dump that was answered SUCCESS is whole in the block file, then and   *)
(* for ever, whatever is dumped meanwhile or later and whenever the        *)
(* process dies (archivo_dump.c:19-27).  It can be lost in two ways only:  *)
(* another dump was given one of its blocks, which SinDobleReserva is      *)
(* about, or it was given a block past the end of bloques.dat, which       *)
(* ConfirmadoGuardado is about.                                            *)
ConfirmadoIntegro ==
    \A d \in Dumps :
        respuesta[d] = "SUCCESS" /\ Propia(d) /\ EnArchivo(d) => Integro(d)

(* SUCCESS means the request was carried out without trouble               *)
(* (archivo_dump.c:201): the dump can be read back from the files, if no   *)
(* other dump was given one of its blocks.                                 *)
ConfirmadoGuardado ==
    \A d \in Dumps : respuesta[d] = "SUCCESS" /\ Propia(d) => Integro(d)

(* The blocks a thread has reserved, its index block first, are marked in  *)
(* bitmap.dat, so they stay out of later reservations, those after a kill  *)
(* included; bits past the end of that file are not kept.                  *)
ReservadosMarcados ==
    \A d \in Dumps : ToSet(loc[d].lista) \ ColaBits \subseteq bitmap

(* No block is assigned to two dumps (archivo_dump.c:105).                 *)
SinDobleReserva == \A d, e \in Dumps : ~Comparten(d, e)

(* A refused dump leaves nothing behind: no block, no file.                *)
RechazoSinRastro ==
    \A d \in Dumps : respuesta[d] = "MEMORY_DUMP" =>
        d \notin DOMAIN archivos /\ loc[d].lista = <<>>

(* Every dump that arrives is answered (archivo_dump.c:10, 27), unless the *)
(* process dies or an access leaves the mapping.                           *)
TodoDumpSeContesta ==
    \A d \in Dumps : (pc[d] = "cuenta") ~>
        (respuesta[d] # "ninguna" \/ caidas > 0 \/ fallo # "ninguno")

-----------------------------------------------------------------------------
(***************************************************************************)
(* The inductive invariant: what each thread has written, by where it is.  *)
(***************************************************************************)

\* What d writes stays where it is.
Seguro(d) == Propia(d) /\ EnArchivo(d)

\* The metadata, the index block and the first n data blocks of d are on disk.
Escrito(d, n) ==
    LET l == loc[d].lista IN
    /\ d \in DOMAIN archivos /\ archivos[d].indice = l[1]
    /\ bloques[l[1]] = Indice(Tail(l))
    /\ \A j \in 1..n : bloques[l[j + 1]] = Datos(d, j)

Antes     == {"no", "cuenta", "verifica"}
Reserva   == {"busca", "marca"}
Escritura == {"metadata", "indices", "datos"}

SinReservar(d) ==
    pc[d] \in Antes =>
        /\ loc[d].lista = <<>> /\ loc[d].k = 1
        /\ d \notin DOMAIN archivos /\ respuesta[d] = "ninguna"

Contando(d) == pc[d] \in {"no", "cuenta"} => loc[d].libres <= loc[d].i

\* Blocks are taken in order, so none is taken twice by the same dump.
Reservando(d) ==
    LET l == loc[d] IN
    /\ pc[d] \in Reserva =>
        /\ l.k = 1 /\ respuesta[d] = "ninguna"
        /\ \A j \in 1..Len(l.lista) : l.lista[j] < l.i
    /\ pc[d] = "marca" => l.i \in Bits /\ Len(l.lista) <= Requeridos(d)

Escribiendo(d) ==
    LET l == loc[d] IN
    /\ pc[d] \in Escritura => Len(l.lista) = Requeridos(d) + 1 /\ respuesta[d] = "ninguna"
    /\ pc[d] \in {"metadata", "indices"} => l.k = 1
    /\ pc[d] = "indices" => d \in DOMAIN archivos /\ archivos[d].indice = l.lista[1]
    /\ pc[d] = "datos" => l.k <= Len(l.lista) /\ (Seguro(d) => Escrito(d, l.k - 1))

Contestado(d) ==
    /\ respuesta[d] = "SUCCESS" =>
        /\ pc[d] = "fin" /\ Len(loc[d].lista) = Requeridos(d) + 1
        /\ Seguro(d) => Escrito(d, Requeridos(d))
    /\ respuesta[d] = "MEMORY_DUMP" =>
        pc[d] = "fin" /\ loc[d].lista = <<>> /\ d \notin DOMAIN archivos

SinRepetir(d) ==
    LET l == loc[d].lista IN \A m, n \in 1..Len(l) : l[m] = l[n] => m = n

Fase(d) ==
    /\ SinReservar(d) /\ Contando(d) /\ Reservando(d)
    /\ Escribiendo(d) /\ Contestado(d) /\ SinRepetir(d)

IInv == TypeOK /\ ReservadosMarcados /\ \A d \in Dumps : Fase(d)
=============================================================================
