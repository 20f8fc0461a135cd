-------------------------- MODULE FilesystemProofs --------------------------
(***************************************************************************)
(* The safety of filesystem, for any number of dumps, sizes, blocks and    *)
(* kills.  One lemma per action shows that the thread that takes it keeps  *)
(* its own part of the invariant; OtrosDumps shows once that it keeps that *)
(* of every other thread.                                                  *)
(***************************************************************************)
EXTENDS FilesystemProps, SequenceTheorems, TLAPS

LEMMA RequeridosNat ==
    ASSUME NEW d \in Dumps PROVE Requeridos(d) \in Nat
BY ConstantesFilesystem DEF Requeridos

\* Bits are numbers, and every block of bloques.dat is mapped.
LEMMA BitsNat == Bits \subseteq Nat /\ Bloques \subseteq Nat /\ Bloques \subseteq Mapeados
<1>1. BytesBitmap \in Nat
  BY ConstantesFilesystem DEF BytesBitmap
<1>2. Bits \subseteq Nat
  BY <1>1 DEF Bits, BitsArchivo, ColaBits
<1> QED
  BY <1>2, ConstantesFilesystem DEF Bloques, Mapeados

\* What TypeOK says of the locals of one thread.
LEMMA TiposDe ==
    ASSUME TypeOK, NEW d \in Dumps
    PROVE  /\ loc[d] \in Locales
           /\ loc[d].i \in Nat /\ loc[d].libres \in 0..BlockCount
           /\ loc[d].lista \in Seq(Bits) /\ loc[d].k \in Nat \ {0}
           /\ Len(loc[d].lista) \in Nat /\ Len(loc[d].lista) <= Requeridos(d) + 1
           /\ DOMAIN loc[d].lista = 1..Len(loc[d].lista)
           /\ \A j \in 1..Len(loc[d].lista) : loc[d].lista[j] \in Bits
           /\ \A j \in 1..Len(loc[d].lista) : loc[d].lista[j] \in Nat
           /\ ToSet(loc[d].lista) = {loc[d].lista[j] : j \in 1..Len(loc[d].lista)}
           /\ ToSet(loc[d].lista) \subseteq Bits
           /\ \A j \in 1..Len(loc[d].lista) : loc[d].lista[j] \in ToSet(loc[d].lista)
<1>1. loc[d] \in Locales /\ Len(loc[d].lista) <= Requeridos(d) + 1
  BY DEF TypeOK
<1>2. loc[d].lista \in Seq(Bits)
  BY <1>1 DEF Locales
<1>3. /\ Len(loc[d].lista) \in Nat /\ DOMAIN loc[d].lista = 1..Len(loc[d].lista)
      /\ \A j \in 1..Len(loc[d].lista) : loc[d].lista[j] \in Bits
  BY <1>2, LenProperties, ElementOfSeq
<1>4. ToSet(loc[d].lista) = {loc[d].lista[j] : j \in 1..Len(loc[d].lista)}
  BY <1>3, Zenon DEF ToSet
<1>5. \A j \in 1..Len(loc[d].lista) : loc[d].lista[j] \in Nat
  BY <1>3, BitsNat
<1> QED
  BY <1>1, <1>2, <1>3, <1>4, <1>5 DEF Locales

\* The files and the answer of e are what they were.
MismoDe(e) ==
    /\ respuesta'[e] = respuesta[e]
    /\ e \in DOMAIN archivos' <=> e \in DOMAIN archivos
    /\ e \in DOMAIN archivos => archivos'[e] = archivos[e]

(* A thread that does not move, or dies, keeps its part of the invariant   *)
(* if the blocks that only it owns are not written by another.             *)
LEMMA FaseSeMantiene ==
    ASSUME TypeOK, NEW e \in Dumps, Fase(e), MismoDe(e),
           loc'[e] = loc[e], pc'[e] = pc[e] \/ pc'[e] = "fin",
           Propia(e)' => Propia(e),
           Seguro(e)' => \A b \in ToSet(loc[e].lista) : bloques'[b] = bloques[b]
    PROVE  Fase(e)'
<1> DEFINE l == loc[e].lista
<1>0. /\ \A j \in 1..Len(l) : l[j] \in ToSet(l)
      /\ Len(l) \in Nat /\ Requeridos(e) \in Nat /\ loc[e].k \in Nat \ {0}
  BY TiposDe, RequeridosNat
<1>s. Seguro(e)' => Seguro(e)
  BY DEF Seguro, EnArchivo
<1>1. ASSUME NEW n \in 0..(Len(l) - 1), Seguro(e)', Len(l) >= 1, Escrito(e, n)
      PROVE  Escrito(e, n)'
  <2>1. ASSUME NEW j \in 0..n PROVE bloques'[l[j + 1]] = bloques[l[j + 1]]
    <3>1. j + 1 \in 1..Len(l)
      BY <1>0
    <3> QED
      BY <1>0, <1>1, <3>1
  <2>2. bloques'[l[1]] = bloques[l[1]]
    BY <1>0, <1>1
  <2> QED
    BY <2>1, <2>2, <1>1 DEF Escrito, MismoDe
<1>2. SinReservar(e)' /\ Contando(e)' /\ SinRepetir(e)'
  BY DEF Fase, SinReservar, Contando, SinRepetir, Antes, MismoDe
<1>3. Reservando(e)'
  BY DEF Fase, Reservando, Reserva, MismoDe, Requeridos
<1>4. Escribiendo(e)'
  <2>1. pc'[e] = "datos" => (Seguro(e)' => Escrito(e, loc[e].k - 1)')
    <3> SUFFICES ASSUME pc'[e] = "datos", Seguro(e)' PROVE Escrito(e, loc[e].k - 1)'
      OBVIOUS
    <3>1. /\ Escrito(e, loc[e].k - 1) /\ Len(l) = Requeridos(e) + 1
          /\ loc[e].k <= Len(l)
      BY <1>s DEF Fase, Escribiendo, Escritura
    <3> DEFINE m == loc[e].k - 1
    <3>2. m \in 0..(Len(l) - 1) /\ Len(l) >= 1
      BY <1>0, <3>1
    <3>3. Escrito(e, m)
      BY <3>1
    <3> HIDE DEF m
    <3>4. \A n \in 0..(Len(l) - 1) : Escrito(e, n) => Escrito(e, n)'
      BY <1>1, <3>2
    <3> QED
      BY <3>2, <3>3, <3>4 DEF Escrito, m
  <2> QED
    BY <2>1 DEF Fase, Escribiendo, Escritura, MismoDe, Requeridos
<1>5. Contestado(e)'
  <2>1. respuesta'[e] = "SUCCESS" /\ Seguro(e)' => Escrito(e, Requeridos(e))'
    <3> SUFFICES ASSUME respuesta'[e] = "SUCCESS", Seguro(e)'
                 PROVE  Escrito(e, Requeridos(e))'
      OBVIOUS
    <3>1. Escrito(e, Requeridos(e)) /\ Len(l) = Requeridos(e) + 1
      BY <1>s DEF Fase, Contestado, MismoDe
    <3> QED
      BY <1>0, <1>1, <3>1
  <2> QED
    BY <2>1 DEF Fase, Contestado, MismoDe, Requeridos
<1> QED
  BY <1>2, <1>3, <1>4, <1>5 DEF Fase

(* A step of d, which writes no block but its own and gives none back,     *)
(* keeps the invariant of every other thread.                              *)
LEMMA OtrosDumps ==
    ASSUME TypeOK, NEW d \in Dumps, \A e \in Dumps : Fase(e),
           \A e \in Dumps \ {d} :
                MismoDe(e) /\ loc'[e] = loc[e] /\ pc'[e] = pc[e],
           ToSet(loc[d].lista) \subseteq ToSet(loc'[d].lista),
           \A b \in Bloques \ ToSet(loc[d].lista) : bloques'[b] = bloques[b]
    PROVE  \A e \in Dumps \ {d} : Fase(e)'
<1> SUFFICES ASSUME NEW e \in Dumps \ {d} PROVE Fase(e)'
  OBVIOUS
<1>1. Propia(e)' => Propia(e)
  <2> SUFFICES ASSUME Propia(e)', NEW f \in Dumps PROVE ~Comparten(e, f)
    BY DEF Propia
  <2>1. ~Comparten(e, f)'
    BY DEF Propia
  <2>2. ToSet(loc[f].lista) \subseteq ToSet(loc'[f].lista) /\ loc'[e] = loc[e]
    OBVIOUS
  <2> QED
    BY <2>1, <2>2, Zenon DEF Comparten
<1>2. Seguro(e)' => \A b \in ToSet(loc[e].lista) : bloques'[b] = bloques[b]
  <2> SUFFICES ASSUME Seguro(e)', NEW b \in ToSet(loc[e].lista)
               PROVE  bloques'[b] = bloques[b]
    OBVIOUS
  <2>1. ~Comparten(e, d)
    BY <1>1 DEF Propia, Seguro
  <2>2. b \notin ToSet(loc[d].lista)
    BY <2>1, Zenon DEF Comparten
  <2>3. b \in Bloques
    BY DEF Seguro, EnArchivo
  <2> QED
    BY <2>2, <2>3
<1> QED
  BY <1>1, <1>2, FaseSeMantiene
-----------------------------------------------------------------------------

\* d moves to p with locals r, and nobody else moves.
Movido(d, p, r) ==
    /\ loc' \in [Dumps -> Locales] /\ pc' \in [Dumps -> Etiquetas]
    /\ loc'[d] = r /\ pc'[d] = p
    /\ \A e \in Dumps \ {d} : loc'[e] = loc[e] /\ pc'[e] = pc[e]
    /\ \A e \in Dumps : Len(loc'[e].lista) <= Requeridos(e) + 1

LEMMA Movimiento ==
    ASSUME TypeOK, NEW d \in Dumps, NEW r \in Locales, NEW p \in Etiquetas,
           Len(r.lista) <= Requeridos(d) + 1,
           loc' = [loc EXCEPT ![d] = r], pc' = [pc EXCEPT ![d] = p]
    PROVE  Movido(d, p, r)
BY DEF TypeOK, Movido

LEMMA PasoLlega ==
    ASSUME IInv, NEW d \in Dumps, Llega(d) PROVE IInv'
<1> USE DEF IInv
<1>1. TypeOK'
  BY DEF TypeOK, Llega, En, Va, disco, Etiquetas
<1>2. ReservadosMarcados'
  BY DEF ReservadosMarcados, Llega, disco
<1>3. \A e \in Dumps \ {d} : Fase(e)'
  <2>1. \A e \in Dumps \ {d} : MismoDe(e) /\ loc'[e] = loc[e] /\ pc'[e] = pc[e]
    BY DEF Llega, Va, disco, MismoDe, TypeOK
  <2> QED
    BY <2>1, OtrosDumps DEF Llega, disco
<1>4. Fase(d)'
  <2>1. pc[d] = "no" /\ pc'[d] = "cuenta" /\ loc'[d] = loc[d] /\ Fase(d) /\ MismoDe(d)
    BY DEF Llega, En, Va, disco, TypeOK, MismoDe
  <2> QED
    BY <2>1 DEF Fase, SinReservar, Contando, Reservando, Escribiendo, Contestado,
                SinRepetir, Antes, Reserva, Escritura, MismoDe
<1> QED
  BY <1>1, <1>2, <1>3, <1>4

LEMMA PasoCuenta ==
    ASSUME IInv, NEW d \in Dumps, Cuenta(d) PROVE IInv'
<1> USE DEF IInv
<1> DEFINE l == loc[d]
           r == [i |-> IF l.i < BlockCount THEN l.i + 1 ELSE 0,
                 libres |-> IF l.i < BlockCount /\ l.i \notin bitmap
                            THEN l.libres + 1 ELSE l.libres,
                 lista |-> l.lista, k |-> l.k]
           p == IF l.i < BlockCount THEN "cuenta" ELSE "verifica"
<1>0. /\ pc[d] = "cuenta" /\ fallo = "ninguno" /\ Fase(d)
      /\ UNCHANGED <<disco, respuesta, caidas, fallo>>
  BY DEF Cuenta, En
<1>1. /\ l \in Locales /\ l = [i |-> l.i, libres |-> l.libres, lista |-> l.lista, k |-> l.k]
      /\ l.i \in Nat /\ l.libres \in 0..BlockCount /\ BlockCount \in Nat
      /\ l.libres <= l.i /\ Len(l.lista) <= Requeridos(d) + 1
      /\ l.lista \in Seq(Bits) /\ l.k \in Nat \ {0}
  BY <1>0, TiposDe, ConstantesFilesystem DEF Locales, Fase, Contando
<1>2. /\ r \in Locales /\ p \in Etiquetas /\ p \in {"cuenta", "verifica"}
      /\ r.lista = l.lista /\ r.k = l.k /\ (p = "cuenta" => r.libres <= r.i)
  BY <1>1 DEF Locales, Etiquetas
<1>3. loc' = [loc EXCEPT ![d] = r]
  BY <1>1 DEF Cuenta, TypeOK, Locales
<1>4. pc' = [pc EXCEPT ![d] = p]
  BY <1>0 DEF Cuenta, Va, TypeOK
<1> HIDE DEF r, p
<1>5. Movido(d, p, r)
  BY <1>1, <1>2, <1>3, <1>4, Movimiento
<1>6. TypeOK'
  BY <1>0, <1>5 DEF TypeOK, disco, Movido
<1>7. ReservadosMarcados'
  BY <1>0, <1>2, <1>5 DEF ReservadosMarcados, disco, Movido
<1>8. \A e \in Dumps \ {d} : Fase(e)'
  BY <1>0, <1>2, <1>5, OtrosDumps DEF disco, Movido, MismoDe
<1>9. Fase(d)'
  BY <1>0, <1>2, <1>5
  DEF Fase, SinReservar, Contando, Reservando, Escribiendo, Contestado, disco,
      SinRepetir, Antes, Reserva, Escritura, Movido
<1> QED
  BY <1>6, <1>7, <1>8, <1>9

LEMMA PasoVerifica ==
    ASSUME IInv, NEW d \in Dumps, Verifica(d) PROVE IInv'
<1> USE DEF IInv
<1> DEFINE l == loc[d]
           p == IF HayEspacio(d) THEN "busca" ELSE "fin"
<1>0. /\ pc[d] = "verifica" /\ fallo = "ninguno" /\ Fase(d)
      /\ UNCHANGED <<disco, loc, caidas, fallo>>
      /\ l \in Locales /\ Len(l.lista) <= Requeridos(d) + 1
      /\ respuesta \in [Dumps -> {"ninguna", "SUCCESS", "MEMORY_DUMP"}]
  BY TiposDe DEF Verifica, En, TypeOK
<1>1. /\ l.lista = <<>> /\ l.k = 1 /\ d \notin DOMAIN archivos /\ respuesta[d] = "ninguna"
      /\ Len(l.lista) = 0
  BY <1>0, EmptySeq DEF Fase, SinReservar, Antes
<1>2. pc' = [pc EXCEPT ![d] = p] /\ loc' = [loc EXCEPT ![d] = l] /\ p \in Etiquetas
  BY <1>0 DEF Verifica, Va, TypeOK, Etiquetas
<1>3. /\ respuesta' \in [Dumps -> {"ninguna", "SUCCESS", "MEMORY_DUMP"}]
      /\ p \in {"busca", "fin"}
      /\ p = "busca" => respuesta'[d] = "ninguna"
      /\ p = "fin" => respuesta'[d] = "MEMORY_DUMP"
      /\ \A e \in Dumps \ {d} : respuesta'[e] = respuesta[e]
  <2>1. CASE HayEspacio(d)
    BY <1>0, <1>1, <2>1 DEF Verifica
  <2>2. CASE ~HayEspacio(d)
    BY <1>0, <1>1, <2>2 DEF Verifica
  <2> QED
    BY <2>1, <2>2
<1> HIDE DEF p
<1>4. Movido(d, p, l)
  BY <1>0, <1>2, Movimiento
<1>5. TypeOK'
  BY <1>0, <1>3, <1>4 DEF TypeOK, disco, Movido
<1>6. ReservadosMarcados'
  BY <1>0 DEF ReservadosMarcados, disco
<1>7. \A e \in Dumps \ {d} : Fase(e)'
  BY <1>0, <1>3, <1>4, OtrosDumps DEF disco, Movido, MismoDe
<1>8. Fase(d)'
  BY <1>0, <1>1, <1>3, <1>4
  DEF Fase, SinReservar, Contando, Reservando, Escribiendo, Contestado, disco,
      SinRepetir, Antes, Reserva, Escritura, Movido
<1> QED
  BY <1>5, <1>6, <1>7, <1>8

LEMMA PasoBusca ==
    ASSUME IInv, NEW d \in Dumps, Busca(d) PROVE IInv'
<1> USE DEF IInv
<1> DEFINE l == loc[d]
           falta == Len(l.lista) < Requeridos(d) + 1
           salta == falta /\ l.i \in Bits \cap bitmap
           p == IF ~falta THEN "metadata"
                ELSE IF l.i \in Bits \ bitmap THEN "marca" ELSE "busca"
           r == [i |-> IF salta THEN l.i + 1 ELSE l.i, libres |-> l.libres,
                 lista |-> l.lista, k |-> l.k]
<1>0. /\ pc[d] = "busca" /\ Fase(d) /\ UNCHANGED <<disco, respuesta, caidas>>
      /\ fallo' \in {"ninguno", "fuera_del_mapeo"}
  BY DEF Busca, En
<1>1. /\ l \in Locales /\ l = [i |-> l.i, libres |-> l.libres, lista |-> l.lista, k |-> l.k]
      /\ l.i \in Nat /\ l.libres \in 0..BlockCount /\ BlockCount \in Nat
      /\ Len(l.lista) <= Requeridos(d) + 1 /\ Len(l.lista) \in Nat
      /\ l.lista \in Seq(Bits) /\ l.k \in Nat \ {0} /\ Requeridos(d) \in Nat
      /\ l.k = 1 /\ respuesta[d] = "ninguna"
      /\ \A j \in 1..Len(l.lista) : l.lista[j] < l.i /\ l.lista[j] \in Int
  <2>1. \A j \in 1..Len(l.lista) : l.lista[j] \in Int
    BY TiposDe
  <2> QED
    BY <1>0, <2>1, TiposDe, RequeridosNat, ConstantesFilesystem
    DEF Locales, Fase, Reservando, Reserva
<1>2. /\ r \in Locales /\ p \in Etiquetas /\ p \in {"metadata", "marca", "busca"}
      /\ r.lista = l.lista /\ r.k = l.k
      /\ p = "metadata" => Len(l.lista) = Requeridos(d) + 1
      /\ p # "metadata" => Len(l.lista) <= Requeridos(d)
      /\ p = "marca" => r.i \in Bits
      /\ \A j \in 1..Len(l.lista) : l.lista[j] < r.i
  <2>1. r.i \in Nat /\ l.i <= r.i /\ (~salta => r.i = l.i)
    BY <1>1
  <2>2. r \in Locales /\ r.lista = l.lista /\ r.k = l.k
    BY <1>1, <2>1 DEF Locales
  <2>3. p \in Etiquetas /\ p \in {"metadata", "marca", "busca"}
    BY DEF Etiquetas
  <2>4. /\ p = "metadata" => Len(l.lista) = Requeridos(d) + 1
        /\ p # "metadata" => Len(l.lista) <= Requeridos(d)
    BY <1>1
  <2>5. p = "marca" => r.i \in Bits
    BY <2>1
  <2>6. \A j \in 1..Len(l.lista) : l.lista[j] < r.i
    BY <1>1, <2>1
  <2> QED BY <2>2, <2>3, <2>4, <2>5, <2>6
<1>3. loc' = [loc EXCEPT ![d] = r]
  BY <1>1 DEF Busca, TypeOK, Locales
<1>4. pc' = [pc EXCEPT ![d] = p]
  <2>1. pc' = [pc EXCEPT ![d] = p] \/ (pc' = pc /\ p = "busca")
    BY <1>1 DEF Busca, Va
  <2> QED
    BY <1>0, <2>1 DEF TypeOK
<1> HIDE DEF r, p
<1>5. Movido(d, p, r)
  BY <1>1, <1>2, <1>3, <1>4, Movimiento
<1>6. TypeOK'
  BY <1>0, <1>5 DEF TypeOK, disco, Movido
<1>7. ReservadosMarcados'
  BY <1>0, <1>2, <1>5 DEF ReservadosMarcados, disco, Movido
<1>8. \A e \in Dumps \ {d} : Fase(e)'
  BY <1>0, <1>2, <1>5, OtrosDumps DEF disco, Movido, MismoDe
<1>9. Fase(d)'
  BY <1>0, <1>1, <1>2, <1>5
  DEF Fase, SinReservar, Contando, Reservando, Escribiendo, Contestado, disco,
      SinRepetir, Antes, Reserva, Escritura, Movido, Requeridos
<1> QED
  BY <1>6, <1>7, <1>8, <1>9

\* The locals after a block is added to the list.
LEMMA AgregaBloque ==
    ASSUME NEW q \in Locales, NEW n
    PROVE  [q EXCEPT !.lista = n, !.i = @ + 1]
                = [i |-> q.i + 1, libres |-> q.libres, lista |-> n, k |-> q.k]
<1>1. PICK a, b, c, k : q = [i |-> a, libres |-> b, lista |-> c, k |-> k]
  <2>1. q = [i |-> q.i, libres |-> q.libres, lista |-> q.lista, k |-> q.k]
    BY DEF Locales
  <2> QED
    BY <2>1, Zenon
<1> DEFINE v == [i |-> a, libres |-> b, lista |-> c, k |-> k]
<1>2. /\ [v EXCEPT !.lista = n] = [i |-> a, libres |-> b, lista |-> n, k |-> k]
      /\ \A x : [[i |-> a, libres |-> b, lista |-> n, k |-> k] EXCEPT !.i = x]
                    = [i |-> x, libres |-> b, lista |-> n, k |-> k]
      /\ v.i = a /\ v.libres = b /\ v.k = k
  OBVIOUS
<1> HIDE DEF v
<1>3. q = v
  BY <1>1 DEF v
<1>4. [v EXCEPT !.lista = n, !.i = @ + 1]
        = [[i |-> a, libres |-> b, lista |-> n, k |-> k] EXCEPT !.i = v.i + 1]
  BY <1>2
<1> QED
  BY <1>2, <1>3, <1>4, Zenon

LEMMA PasoMarca ==
    ASSUME IInv, NEW d \in Dumps, Marca(d) PROVE IInv'
<1> USE DEF IInv
<1> DEFINE l == loc[d]
           nueva == Append(l.lista, l.i)
           r == [i |-> l.i + 1, libres |-> l.libres, lista |-> nueva, k |-> l.k]
<1>0. /\ pc[d] = "marca" /\ Fase(d)
      /\ UNCHANGED <<bloques, archivos, respuesta, caidas, fallo>>
      /\ bitmap' = bitmap \cup {l.i}
  BY DEF Marca, En
<1>1. /\ l \in Locales /\ l = [i |-> l.i, libres |-> l.libres, lista |-> l.lista, k |-> l.k]
      /\ l.i \in Bits /\ l.i \in Nat /\ l.libres \in 0..BlockCount /\ BlockCount \in Nat
      /\ Len(l.lista) <= Requeridos(d) /\ Len(l.lista) \in Nat
      /\ l.lista \in Seq(Bits) /\ Requeridos(d) \in Nat
      /\ l.k = 1 /\ respuesta[d] = "ninguna"
      /\ \A j \in 1..Len(l.lista) : l.lista[j] < l.i /\ l.lista[j] \in Int
  <2>1. \A j \in 1..Len(l.lista) : l.lista[j] \in Int
    BY TiposDe
  <2> QED
    BY <1>0, <2>1, TiposDe, RequeridosNat, ConstantesFilesystem
    DEF Locales, Fase, Reservando, Reserva
<1>2. /\ nueva \in Seq(Bits) /\ Len(nueva) = Len(l.lista) + 1
      /\ nueva[Len(l.lista) + 1] = l.i
      /\ \A j \in 1..Len(l.lista) : nueva[j] = l.lista[j]
      /\ DOMAIN nueva = 1..(Len(l.lista) + 1)
  BY <1>1, AppendProperties
<1>3. ToSet(l.lista) \subseteq ToSet(nueva) /\ ToSet(nueva) \subseteq ToSet(l.lista) \cup {l.i}
  <2>1. ToSet(l.lista) = {l.lista[j] : j \in 1..Len(l.lista)}
    BY TiposDe
  <2>2. ToSet(nueva) = {nueva[j] : j \in 1..(Len(l.lista) + 1)}
    BY <1>2, Zenon DEF ToSet
  <2> QED
    BY <1>1, <1>2, <2>1, <2>2
<1>4. /\ r \in Locales /\ r.lista = nueva /\ r.k = 1 /\ "busca" \in Etiquetas
      /\ \A j \in 1..Len(nueva) : nueva[j] < r.i
      /\ \A m, n \in 1..Len(nueva) : nueva[m] = nueva[n] => m = n
      /\ Len(nueva) <= Requeridos(d) + 1
  <2>1. SinRepetir(d)
    BY <1>0 DEF Fase
  <2>2. r \in Locales /\ r.i = l.i + 1
    BY <1>1, <1>2 DEF Locales
  <2>3. \A j \in 1..Len(nueva) : nueva[j] < l.i + 1
    <3> HIDE DEF nueva, r
    <3> SUFFICES ASSUME NEW j \in 1..Len(nueva) PROVE nueva[j] < l.i + 1
      OBVIOUS
    <3>1. CASE j \in 1..Len(l.lista)
      BY <1>1, <1>2, <3>1
    <3>2. CASE j = Len(l.lista) + 1
      BY <1>1, <1>2, <3>2
    <3> QED
      BY <1>1, <1>2, <3>1, <3>2
  <2>4. \A m, n \in 1..Len(nueva) : nueva[m] = nueva[n] => m = n
    <3> HIDE DEF nueva, r
    <3> SUFFICES ASSUME NEW m \in 1..Len(nueva), NEW n \in 1..Len(nueva),
                        nueva[m] = nueva[n]
                 PROVE  m = n
      OBVIOUS
    <3>1. CASE m <= Len(l.lista) /\ n <= Len(l.lista)
      <4>1. m \in 1..Len(l.lista) /\ n \in 1..Len(l.lista)
        BY <1>1, <1>2, <3>1
      <4>2. l.lista[m] = l.lista[n]
        BY <1>2, <4>1
      <4> QED
        BY <2>1, <4>1, <4>2 DEF SinRepetir
    <3>2. CASE m <= Len(l.lista) /\ n = Len(l.lista) + 1
      <4>1. m \in 1..Len(l.lista)
        BY <1>1, <3>2
      <4>2. nueva[m] = l.lista[m] /\ nueva[n] = l.i
        BY <1>2, <3>2, <4>1
      <4>3. l.i \in Int /\ \A j \in 1..Len(l.lista) : l.lista[j] # l.i
        BY <1>1
      <4> QED
        BY <4>1, <4>2, <4>3
    <3>3. CASE n <= Len(l.lista) /\ m = Len(l.lista) + 1
      <4>1. n \in 1..Len(l.lista)
        BY <1>1, <3>3
      <4>2. nueva[n] = l.lista[n] /\ nueva[m] = l.i
        BY <1>2, <3>3, <4>1
      <4>3. l.i \in Int /\ \A j \in 1..Len(l.lista) : l.lista[j] # l.i
        BY <1>1
      <4> QED
        BY <4>1, <4>2, <4>3
    <3>4. /\ m \in 1..(Len(l.lista) + 1) /\ n \in 1..(Len(l.lista) + 1)
          /\ Len(l.lista) \in Nat
      BY <1>1, <1>2
    <3> QED
      BY <3>1, <3>2, <3>3, <3>4
  <2> QED
    BY <1>1, <1>2, <2>2, <2>3, <2>4 DEF Etiquetas
<1>5. loc' = [loc EXCEPT ![d] = r] /\ pc' = [pc EXCEPT ![d] = "busca"]
  <2>1. loc' = [loc EXCEPT ![d] = r]
    <3> HIDE DEF nueva
    <3>1. loc' = [loc EXCEPT ![d] = [loc[d] EXCEPT !.lista = nueva, !.i = @ + 1]]
      BY DEF Marca, nueva, TypeOK
    <3>2. [loc[d] EXCEPT !.lista = nueva, !.i = @ + 1] = r
      BY <1>1, AgregaBloque, Zenon
    <3> QED
      BY <3>1, <3>2
  <2> QED
    BY <2>1 DEF Marca, Va
<1> HIDE DEF r, nueva
<1>6. Movido(d, "busca", r)
  BY <1>4, <1>5, Movimiento
<1>7. TypeOK'
  BY <1>0, <1>1, <1>6 DEF TypeOK, Movido
<1>8. ReservadosMarcados'
  BY <1>0, <1>3, <1>4, <1>6 DEF ReservadosMarcados, Movido
<1>9. \A e \in Dumps \ {d} : Fase(e)'
  BY <1>0, <1>3, <1>4, <1>6, OtrosDumps DEF Movido, MismoDe
<1>10. Fase(d)'
  BY <1>0, <1>1, <1>4, <1>6
  DEF Fase, SinReservar, Contando, Reservando, Escribiendo, Contestado,
      SinRepetir, Antes, Reserva, Escritura, Movido
<1> QED
  BY <1>7, <1>8, <1>9, <1>10

LEMMA PasoMetadata ==
    ASSUME IInv, NEW d \in Dumps, Metadata(d) PROVE IInv'
<1> USE DEF IInv
<1> DEFINE l == loc[d]
<1>0. /\ pc[d] = "metadata" /\ Fase(d)
      /\ UNCHANGED <<bitmap, bloques, respuesta, loc, caidas, fallo>>
      /\ l \in Locales /\ Len(l.lista) = Requeridos(d) + 1 /\ Requeridos(d) \in Nat
      /\ l.k = 1 /\ respuesta[d] = "ninguna" /\ l.lista[1] \in Bits
  BY TiposDe, RequeridosNat DEF Metadata, En, Fase, Escribiendo, Escritura
<1>1. /\ DOMAIN archivos' = DOMAIN archivos \cup {d}
      /\ archivos'[d].indice = l.lista[1]
      /\ \A e \in DOMAIN archivos \ {d} : archivos'[e] = archivos[e]
  BY DEF Metadata
<1>2. Movido(d, "indices", l)
  <2>1. pc' = [pc EXCEPT ![d] = "indices"] /\ loc' = [loc EXCEPT ![d] = l]
    BY <1>0 DEF Metadata, Va, TypeOK
  <2> QED
    BY <1>0, <2>1, TiposDe, Movimiento DEF Etiquetas
<1>3. TypeOK'
  BY <1>0, <1>1, <1>2 DEF TypeOK, Movido
<1>4. ReservadosMarcados'
  BY <1>0 DEF ReservadosMarcados
<1>5. \A e \in Dumps \ {d} : Fase(e)'
  BY <1>0, <1>1, <1>2, OtrosDumps DEF Movido, MismoDe
<1>6. Fase(d)'
  BY <1>0, <1>1, <1>2
  DEF Fase, SinReservar, Contando, Reservando, Escribiendo, Contestado,
      SinRepetir, Antes, Reserva, Escritura, Movido, Requeridos
<1> QED
  BY <1>3, <1>4, <1>5, <1>6

\* An invalid access changes nothing else, and neither does a stutter.
LEMMA PasoNulo ==
    ASSUME IInv, fallo' \in {"ninguno", "fuera_del_mapeo"},
           UNCHANGED <<disco, respuesta, pc, loc, caidas>>
    PROVE  IInv'
<1> USE DEF IInv, disco
<1>1. TypeOK' /\ ReservadosMarcados'
  BY DEF TypeOK, ReservadosMarcados
<1>2. ASSUME NEW e \in Dumps PROVE Fase(e)'
  <2>1. Propia(e)' => Propia(e)
    BY DEF Propia, Comparten
  <2> QED
    BY <2>1, FaseSeMantiene DEF MismoDe
<1> QED
  BY <1>1, <1>2

LEMMA PasoIndices ==
    ASSUME IInv, NEW d \in Dumps, Indices(d) PROVE IInv'
<1> USE DEF IInv
<1> DEFINE l == loc[d]
<1>f. CASE FueraDelMapeo(l.lista[1])
  BY <1>f, PasoNulo DEF Indices, FueraDelMapeo, disco
<1>m. CASE ~FueraDelMapeo(l.lista[1])
  <2>0. /\ pc[d] = "indices" /\ Fase(d)
        /\ UNCHANGED <<bitmap, archivos, respuesta, loc, caidas, fallo>>
        /\ l.lista[1] \in Mapeados
        /\ bloques' = [bloques EXCEPT ![l.lista[1]] = Indice(Tail(l.lista))]
        /\ pc' = [pc EXCEPT ![d] = "datos"]
        /\ l \in Locales /\ Len(l.lista) = Requeridos(d) + 1 /\ Requeridos(d) \in Nat
        /\ l.k = 1 /\ respuesta[d] = "ninguna"
        /\ l.lista[1] \in Bits /\ l.lista[1] \in ToSet(l.lista)
        /\ d \in DOMAIN archivos /\ archivos[d].indice = l.lista[1]
    <3>1. /\ pc[d] = "indices" /\ Fase(d)
          /\ UNCHANGED <<bitmap, archivos, respuesta, loc, caidas, fallo>>
          /\ l.lista[1] \in Mapeados
          /\ bloques' = [bloques EXCEPT ![l.lista[1]] = Indice(Tail(l.lista))]
          /\ pc' = [pc EXCEPT ![d] = "datos"]
      BY <1>m DEF Indices, En, Va
    <3>2. /\ Len(l.lista) = Requeridos(d) + 1 /\ l.k = 1 /\ respuesta[d] = "ninguna"
          /\ d \in DOMAIN archivos /\ archivos[d].indice = l.lista[1]
      BY <3>1 DEF Fase, Escribiendo, Escritura
    <3>3. 1 \in 1..Len(l.lista)
      BY <3>2, RequeridosNat
    <3> QED
      BY <3>1, <3>2, <3>3, TiposDe, RequeridosNat
  <2>1. /\ DOMAIN bloques' = Mapeados
        /\ bloques'[l.lista[1]] = Indice(Tail(l.lista))
        /\ \A b \in Bloques \ ToSet(l.lista) : bloques'[b] = bloques[b]
    BY <2>0, BitsNat DEF TypeOK
  <2>2. Movido(d, "datos", l)
    <3>1. pc' = [pc EXCEPT ![d] = "datos"] /\ loc' = [loc EXCEPT ![d] = l]
      BY <2>0 DEF TypeOK
    <3> QED
      BY <2>0, <3>1, TiposDe, Movimiento DEF Etiquetas
  <2>3. TypeOK'
    BY <2>0, <2>1, <2>2 DEF TypeOK, Movido
  <2>4. ReservadosMarcados'
    BY <2>0 DEF ReservadosMarcados
  <2>5. \A e \in Dumps \ {d} : Fase(e)'
    BY <2>0, <2>1, <2>2, OtrosDumps DEF Movido, MismoDe
  <2>6. Fase(d)'
    <3>1. Escrito(d, loc[d].k - 1)'
      BY <2>0, <2>1 DEF Escrito
    <3> QED
      BY <3>1, <2>0, <2>2
      DEF Fase, SinReservar, Contando, Reservando, Escribiendo, Contestado,
          SinRepetir, Antes, Reserva, Escritura, Movido, Requeridos
  <2> QED
    BY <2>3, <2>4, <2>5, <2>6
<1> QED
  BY <1>f, <1>m

LEMMA PasoEscribe ==
    ASSUME IInv, NEW d \in Dumps, Escribe(d) PROVE IInv'
<1> USE DEF IInv
<1> DEFINE l == loc[d]
<1>0. /\ pc[d] = "datos" /\ Fase(d)
      /\ UNCHANGED <<bitmap, archivos, caidas>>
      /\ l \in Locales /\ Len(l.lista) = Requeridos(d) + 1 /\ Requeridos(d) \in Nat
      /\ Len(l.lista) <= Requeridos(d) + 1
      /\ l = [i |-> l.i, libres |-> l.libres, lista |-> l.lista, k |-> l.k]
      /\ l.k \in Nat \ {0} /\ l.k <= Len(l.lista) /\ respuesta[d] = "ninguna"
      /\ \A j \in 1..Len(l.lista) : l.lista[j] \in Bits /\ l.lista[j] \in ToSet(l.lista)
      /\ Seguro(d) => Escrito(d, l.k - 1)
      /\ respuesta \in [Dumps -> {"ninguna", "SUCCESS", "MEMORY_DUMP"}]
  <2>1. /\ pc[d] = "datos" /\ Fase(d) /\ UNCHANGED <<bitmap, archivos, caidas>>
    BY DEF Escribe, En
  <2>2. /\ Len(l.lista) = Requeridos(d) + 1 /\ l.k <= Len(l.lista)
        /\ respuesta[d] = "ninguna" /\ (Seguro(d) => Escrito(d, l.k - 1))
    BY <2>1 DEF Fase, Escribiendo, Escritura
  <2>3. l = [i |-> l.i, libres |-> l.libres, lista |-> l.lista, k |-> l.k]
    BY TiposDe DEF Locales
  <2> QED
    BY <2>1, <2>2, <2>3, TiposDe, RequeridosNat DEF TypeOK
<1>f. CASE FueraDelMapeo(l.lista[l.k + 1])
  BY <1>0, <1>f, PasoNulo DEF FueraDelMapeo, disco
<1>1. CASE l.k < Len(l.lista) /\ ~FueraDelMapeo(l.lista[l.k + 1])
  <2> DEFINE r == [i |-> l.i, libres |-> l.libres, lista |-> l.lista, k |-> l.k + 1]
  <2>1. r \in Locales /\ r.lista = l.lista /\ r.k = l.k + 1
    BY <1>0 DEF Locales
  <2>2. /\ loc' = [loc EXCEPT ![d] = r] /\ pc' = pc /\ respuesta' = respuesta
        /\ fallo' = fallo
    BY <1>0, <1>1 DEF Escribe, TypeOK
  <2>3. /\ bloques' = [bloques EXCEPT ![l.lista[l.k + 1]] = Datos(d, l.k)]
        /\ l.lista[l.k + 1] \in Mapeados
    BY <1>1 DEF Escribe
  <2> HIDE DEF r
  <2>4. Movido(d, "datos", r)
    <3>1. pc' = [pc EXCEPT ![d] = "datos"]
      BY <1>0, <2>2 DEF TypeOK
    <3> QED
      BY <1>0, <2>1, <2>2, <3>1, Movimiento DEF Etiquetas
  <2>5. TypeOK' /\ ReservadosMarcados'
    <3>1. TypeOK'
      BY <1>0, <2>2, <2>3, <2>4 DEF TypeOK, Movido
    <3>2. ReservadosMarcados'
      BY <1>0, <2>1, <2>4 DEF ReservadosMarcados, Movido
    <3> QED
      BY <3>1, <3>2
  <2>6. l.k + 1 \in 1..Len(l.lista)
    BY <1>0, <1>1
  <2>7. \A b \in Bloques \ ToSet(l.lista) : bloques'[b] = bloques[b]
    BY <1>0, <2>3, <2>6, BitsNat DEF TypeOK
  <2>8. \A e \in Dumps \ {d} : Fase(e)'
    BY <1>0, <2>1, <2>2, <2>4, <2>7, OtrosDumps DEF Movido, MismoDe
  <2>9. Seguro(d)' => Escrito(d, loc[d].k - 1)'
    <3> SUFFICES ASSUME Seguro(d)' PROVE Escrito(d, loc[d].k - 1)'
      OBVIOUS
    <3>1. \A e \in Dumps : loc'[e].lista = loc[e].lista
      BY <2>1, <2>4 DEF Movido
    <3>2. Seguro(d)
      BY <3>1 DEF Propia, Comparten, Seguro, EnArchivo
    <3>3. Escrito(d, l.k - 1)
      BY <1>0, <3>2
    <3>4. \A j \in 1..l.k : /\ j \in 1..Len(l.lista)
                            /\ bloques'[l.lista[j]] = bloques[l.lista[j]]
      <4> SUFFICES ASSUME NEW j \in 1..l.k
                   PROVE  /\ j \in 1..Len(l.lista)
                          /\ bloques'[l.lista[j]] = bloques[l.lista[j]]
        OBVIOUS
      <4>1. j \in 1..Len(l.lista) /\ j # l.k + 1
        BY <1>0
      <4>2. l.lista[j] # l.lista[l.k + 1]
        BY <1>0, <2>6, <4>1 DEF Fase, SinRepetir
      <4>3. l.lista[j] \in Mapeados
        BY <3>2, <4>1, <1>0, BitsNat DEF Seguro, EnArchivo
      <4> QED
        BY <1>0, <2>3, <4>1, <4>2, <4>3 DEF TypeOK
    <3>5. bloques'[l.lista[l.k + 1]] = Datos(d, l.k)
      BY <1>0, <2>3, <2>6 DEF TypeOK
    <3>6. \A j \in 1..l.k : bloques'[l.lista[j + 1]] = Datos(d, j)
      <4> SUFFICES ASSUME NEW j \in 1..l.k PROVE bloques'[l.lista[j + 1]] = Datos(d, j)
        OBVIOUS
      <4>1. CASE j = l.k
        BY <3>5, <4>1
      <4>2. CASE j # l.k
        <5>1. j \in 1..(l.k - 1) /\ j + 1 \in 1..l.k
          BY <1>0, <4>2
        <5>2. bloques[l.lista[j + 1]] = Datos(d, j)
          BY <3>3, <5>1 DEF Escrito
        <5> QED
          BY <3>4, <5>1, <5>2
      <4> QED
        BY <4>1, <4>2
    <3>7. /\ 1 \in 1..l.k /\ loc'[d].lista = l.lista /\ loc'[d].k - 1 = l.k
          /\ archivos' = archivos
      <4>1. 1 \in 1..l.k /\ archivos' = archivos
        BY <1>0
      <4>2. loc'[d] = r
        BY <2>4 DEF Movido
      <4>3. loc'[d].lista = l.lista /\ loc'[d].k - 1 = l.k
        BY <1>0, <2>1, <4>2
      <4> QED
        BY <4>1, <4>3
    <3>8. /\ d \in DOMAIN archivos /\ archivos[d].indice = l.lista[1]
          /\ bloques'[l.lista[1]] = Indice(Tail(l.lista))
      BY <3>3, <3>4, <3>7 DEF Escrito
    <3> QED
      BY <3>6, <3>7, <3>8 DEF Escrito
  <2>10. Fase(d)'
    BY <1>0, <1>1, <2>1, <2>2, <2>4, <2>9
    DEF Fase, SinReservar, Contando, Reservando, Escribiendo, Contestado,
        SinRepetir, Antes, Reserva, Escritura, Movido, Requeridos
  <2> QED
    BY <2>5, <2>8, <2>10
<1>2. CASE ~(l.k < Len(l.lista))
  <2>1. /\ pc' = [pc EXCEPT ![d] = "fin"] /\ loc' = loc /\ bloques' = bloques
        /\ fallo' = fallo
        /\ respuesta' = [respuesta EXCEPT ![d] = "SUCCESS"]
    BY <1>2 DEF Escribe, Va
  <2>2. Movido(d, "fin", l)
    <3>1. loc' = [loc EXCEPT ![d] = l]
      BY <2>1 DEF TypeOK
    <3> QED
      BY <1>0, <2>1, <3>1, Movimiento DEF Etiquetas
  <2>3. /\ respuesta' \in [Dumps -> {"ninguna", "SUCCESS", "MEMORY_DUMP"}]
        /\ respuesta'[d] = "SUCCESS"
        /\ \A e \in Dumps \ {d} : respuesta'[e] = respuesta[e]
    BY <1>0, <2>1
  <2>4. TypeOK' /\ ReservadosMarcados'
    <3>1. TypeOK'
      BY <1>0, <2>1, <2>2, <2>3 DEF TypeOK, Movido
    <3>2. ReservadosMarcados'
      BY <1>0, <2>1 DEF ReservadosMarcados
    <3> QED
      BY <3>1, <3>2
  <2>5. \A e \in Dumps \ {d} : Fase(e)'
    BY <1>0, <2>1, <2>2, <2>3, OtrosDumps DEF Movido, MismoDe
  <2>6. Fase(d)'
    <3>1. Seguro(d)' => Escrito(d, Requeridos(d))'
      <4>1. l.k - 1 = Requeridos(d)
        BY <1>0, <1>2
      <4>2. Seguro(d)' => Seguro(d)
        BY <2>1 DEF Propia, Comparten, Seguro, EnArchivo
      <4> QED
        BY <1>0, <2>1, <4>1, <4>2 DEF Escrito, Requeridos
    <3> QED
      BY <3>1, <1>0, <2>1, <2>2, <2>3
      DEF Fase, SinReservar, Contando, Reservando, Escribiendo, Contestado,
          SinRepetir, Antes, Reserva, Escritura, Movido, Requeridos
  <2> QED
    BY <2>4, <2>5, <2>6
<1> QED
  BY <1>f, <1>1, <1>2

LEMMA PasoReinicio ==
    ASSUME IInv, Reinicio PROVE IInv'
<1> USE DEF IInv
<1>1. /\ UNCHANGED <<disco, respuesta, loc, fallo>>
      /\ \A e \in Dumps : pc'[e] = pc[e] \/ pc'[e] = "fin"
  BY DEF Reinicio
<1>2. TypeOK'
  <2>1. pc' \in [Dumps -> Etiquetas]
    BY DEF Reinicio, Etiquetas
  <2>2. caidas' \in 0..MaxCaidas
    BY ConstantesFilesystem DEF Reinicio, TypeOK
  <2> QED
    BY <1>1, <2>1, <2>2 DEF TypeOK, disco
<1>3. ReservadosMarcados'
  BY <1>1 DEF ReservadosMarcados, disco
<1>4. \A e \in Dumps : Fase(e)'
  <2> SUFFICES ASSUME NEW e \in Dumps PROVE Fase(e)'
    OBVIOUS
  <2>1. Propia(e)' => Propia(e)
    BY <1>1 DEF Propia, Comparten
  <2>2. MismoDe(e)
    BY <1>1 DEF MismoDe, disco
  <2> QED
    BY <1>1, <2>1, <2>2, FaseSeMantiene DEF disco
<1> QED
  BY <1>2, <1>3, <1>4

\* Clearing the tails disturbs no block and no bit of the files.
LEMMA PasoDescarga ==
    ASSUME IInv, DescargaBitmap \/ DescargaBloques PROVE IInv'
<1> USE DEF IInv
<1>1. /\ UNCHANGED <<archivos, respuesta, pc, loc, caidas, fallo>>
      /\ bitmap' = bitmap \/ bitmap' = bitmap \ ColaBits
      /\ DOMAIN bloques' = Mapeados
      /\ \A b \in Bloques : bloques'[b] = bloques[b]
  BY BitsNat DEF DescargaBitmap, DescargaBloques, TypeOK
<1>2. TypeOK'
  BY <1>1 DEF TypeOK
<1>3. ReservadosMarcados'
  BY <1>1 DEF ReservadosMarcados
<1>4. ASSUME NEW e \in Dumps PROVE Fase(e)'
  <2>1. Propia(e)' => Propia(e)
    BY <1>1 DEF Propia, Comparten
  <2>2. Seguro(e)' => \A b \in ToSet(loc[e].lista) : bloques'[b] = bloques[b]
    BY <1>1 DEF Seguro, EnArchivo
  <2> QED
    BY <1>1, <2>1, <2>2, FaseSeMantiene DEF MismoDe
<1> QED
  BY <1>2, <1>3, <1>4

LEMMA Inicio == Init => IInv
<1> SUFFICES ASSUME Init PROVE IInv
  OBVIOUS
<1>1. /\ <<>> \in Seq(Bits) /\ Len(<<>>) = 0 /\ ToSet(<<>>) = {}
  BY EmptySeq DEF ToSet
<1>2. ASSUME NEW d \in Dumps
      PROVE  /\ loc[d] = Inicial /\ pc[d] = "no" /\ respuesta[d] = "ninguna"
             /\ d \notin DOMAIN archivos
             /\ loc[d].lista = <<>> /\ loc[d].i = 0 /\ loc[d].libres = 0 /\ loc[d].k = 1
  BY DEF Init, Inicial
<1>3. TypeOK
  <2>1. Inicial \in Locales
    BY <1>1, ConstantesFilesystem DEF Inicial, Locales
  <2>2. \A d \in Dumps : Len(loc[d].lista) <= Requeridos(d) + 1
    BY <1>1, <1>2, RequeridosNat
  <2>3. bitmap \subseteq Bits
    <3>1. PICK n \in Previos : bitmap = 0..(n - 1)
      BY DEF Init
    <3>2. n \in 0..BlockCount /\ BlockCount \in Nat
      BY ConstantesFilesystem
    <3>3. 0..(n - 1) \subseteq BitsArchivo
      BY <3>2 DEF BitsArchivo, BytesBitmap
    <3> QED BY <3>1, <3>3 DEF Bits
  <2> QED
    BY <2>1, <2>2, <2>3, ConstantesFilesystem DEF Init, TypeOK, Etiquetas
<1>4. ReservadosMarcados
  BY <1>1, <1>2 DEF ReservadosMarcados, Init
<1>5. ASSUME NEW d \in Dumps PROVE Fase(d)
  BY <1>1, <1>2
  DEF Fase, SinReservar, Contando, Reservando, Escribiendo, Contestado,
      SinRepetir, Antes, Reserva, Escritura
<1> QED
  BY <1>3, <1>4, <1>5 DEF IInv

(* The state of every thread agrees with what it has left on disk: the     *)
(* inductive invariant the four properties follow from.                    *)
THEOREM FilesystemIInv == Spec => []IInv
<1>1. IInv /\ [Next]_vars => IInv'
  <2> SUFFICES ASSUME IInv, [Next]_vars PROVE IInv'
    OBVIOUS
  <2>1. CASE Reinicio
    BY <2>1, PasoReinicio
  <2>4. CASE DescargaBitmap \/ DescargaBloques
    BY <2>4, PasoDescarga
  <2>2. ASSUME NEW d \in Dumps, Llega(d) \/ Atender(d) PROVE IInv'
    BY <2>2, PasoLlega, PasoCuenta, PasoVerifica, PasoBusca, PasoMarca,
       PasoMetadata, PasoIndices, PasoEscribe DEF Atender
  <2>3. CASE UNCHANGED vars
    BY <2>3, PasoNulo DEF vars, disco, TypeOK, IInv
  <2> QED
    BY <2>1, <2>2, <2>3, <2>4 DEF Next
<1> QED
  BY <1>1, Inicio, PTL DEF Spec

(* Bits, blocks and locals stay within what is mapped, and no dump takes   *)
(* more than it needs, for any number of dumps, sizes, blocks and kills.   *)
THEOREM FilesystemTypeOK == Spec => []TypeOK
<1>1. IInv => TypeOK
  BY DEF IInv
<1> QED
  BY <1>1, FilesystemIInv, PTL

(* What a thread has reserved is marked, killed or not.                    *)
THEOREM FilesystemReservadosMarcados == Spec => []ReservadosMarcados
<1>1. IInv => ReservadosMarcados
  BY DEF IInv
<1> QED
  BY <1>1, FilesystemIInv, PTL

(* A dump that is refused leaves no block and no file.                     *)
THEOREM FilesystemRechazoSinRastro == Spec => []RechazoSinRastro
<1>1. IInv => RechazoSinRastro
  BY DEF IInv, Fase, Contestado, RechazoSinRastro
<1> QED
  BY <1>1, FilesystemIInv, PTL

(* A confirmed dump that was given blocks of bloques.dat, and no other     *)
(* dump was given them, stays whole.                                       *)
THEOREM FilesystemConfirmadoIntegro == Spec => []ConfirmadoIntegro
<1>1. IInv => ConfirmadoIntegro
  <2> SUFFICES ASSUME IInv, NEW d \in Dumps, respuesta[d] = "SUCCESS", Seguro(d)
               PROVE  Integro(d)
    BY DEF ConfirmadoIntegro, Seguro
  <2> DEFINE l == loc[d].lista
             b == bloques[archivos[d].indice]
  <2>1. Len(l) = Requeridos(d) + 1 /\ Escrito(d, Requeridos(d))
    BY DEF IInv, Fase, Contestado
  <2>2. l \in Seq(Bits) /\ Requeridos(d) \in Nat /\ l # <<>>
    BY <2>1, TiposDe, RequeridosNat, EmptySeq DEF IInv
  <2>3. /\ Tail(l) \in Seq(Bits) /\ Len(Tail(l)) = Requeridos(d)
        /\ DOMAIN Tail(l) = 1..Requeridos(d)
        /\ \A k \in 1..Requeridos(d) : Tail(l)[k] = l[k + 1]
    BY <2>1, <2>2, HeadTailProperties
  <2>4. d \in DOMAIN archivos /\ b = Indice(Tail(l)) /\ b.punteros = Tail(l)
    BY <2>1 DEF Escrito, Indice
  <2>5. \A k \in 1..Requeridos(d) : bloques[l[k + 1]] = Datos(d, k)
    BY <2>1 DEF Escrito
  <2> QED
    BY <2>3, <2>4, <2>5 DEF Integro
<1> QED
  BY <1>1, FilesystemIInv, PTL
=============================================================================
