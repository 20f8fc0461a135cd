---------------------------- MODULE Particiones ----------------------------
(***************************************************************************)
(* The partition table of memoria (administrativo.c, algoritmos_*.c): how  *)
(* it starts, how a partition is chosen, split, given back and merged.     *)
(* A table is a sequence of partitions sorted by inicio, which no          *)
(* operation changes once a partition exists: it identifies the partition. *)
(***************************************************************************)
EXTENDS Integers, Sequences, FiniteSets, SequencesExt

CONSTANTS TamMemoria,       \* TAM_MEMORIA of memoria.config
          Esquema,          \* ESQUEMA
          Busqueda,         \* ALGORITMO_BUSQUEDA
          Tamanios          \* PARTICIONES, the sizes of the scheme FIJAS

ASSUME ConstantesParticiones ==
    /\ TamMemoria \in Nat \ {0}
    /\ Esquema \in {"FIJAS", "DINAMICAS"}
    /\ Busqueda \in {"FIRST", "BEST", "WORST"}
    /\ Tamanios \in Seq(1..TamMemoria)

Bytes == 0..(TamMemoria - 1)

Particion == [inicio : Bytes, fin : Bytes, tamanio : 1..TamMemoria, ocupada : BOOLEAN]

Libre(inicio, tamanio) ==
    [inicio |-> inicio, fin |-> inicio + tamanio - 1, tamanio |-> tamanio,
     ocupada |-> FALSE]

\* inicio after k partitions: each one starts where the previous one ends.
Inicios[k \in 0..Len(Tamanios)] == IF k = 0 THEN 0 ELSE Inicios[k - 1] + Tamanios[k]

Fijas == [k \in 1..Len(Tamanios) |-> Libre(Inicios[k - 1], Tamanios[k])]

\* PARTICIONES fits in TAM_MEMORIA; a first partition of one byte would have
\* the base and the limit of a context without a range.
ASSUME ConstantesFijas ==
    Esquema = "FIJAS" =>
        /\ Tamanios # <<>> /\ Tamanios[1] > 1
        /\ Inicios[Len(Tamanios)] <= TamMemoria

TablaInicial == IF Esquema = "FIJAS" THEN Fijas ELSE <<Libre(0, TamMemoria)>>

-----------------------------------------------------------------------------

\* Mutant: off by one.
CandidatasJustas(t, n) == {k \in DOMAIN t : ~t[k].ocupada /\ t[k].tamanio >= n - 1}

Candidatas(t, n) == {k \in DOMAIN t : ~t[k].ocupada /\ t[k].tamanio >= n}

EntraEnMemoria(t, n) ==
    IF n > TamMemoria THEN "MAX_SIZE_ERROR"
    ELSE IF Candidatas(t, n) = {} THEN "SIZE_ERROR" ELSE "SUCCESS"

\* Of two candidates, whether the search keeps the one at k.
Prefiere(t, k, m) ==
    \/ Busqueda = "FIRST" /\ k <= m
    \/ Busqueda = "BEST" /\ (t[k].tamanio < t[m].tamanio
                             \/ (t[k].tamanio = t[m].tamanio /\ k <= m))
    \/ Busqueda = "WORST" /\ (t[k].tamanio > t[m].tamanio
                              \/ (t[k].tamanio = t[m].tamanio /\ k <= m))

Elegida(t, n) ==
    CHOOSE k \in Candidatas(t, n) : \A m \in Candidatas(t, n) : Prefiere(t, k, m)

\* Mutant: the rest starts at the last byte of the process.
DivididaCorta(t, k, n) ==
    LET p == t[k] IN
    IF Esquema = "DINAMICAS" /\ p.tamanio > n
    THEN InsertAt([t EXCEPT ![k].tamanio = n, ![k].fin = p.inicio + n - 1],
                  k + 1, Libre(p.inicio + n - 1, p.tamanio - n + 1))
    ELSE t

\* Mutant: an exact fit is split too.
DivididaSiempre(t, k, n) ==
    LET p == t[k] IN
    IF Esquema = "DINAMICAS" /\ p.tamanio >= n
    THEN InsertAt([t EXCEPT ![k].tamanio = n, ![k].fin = p.inicio + n - 1],
                  k + 1, Libre(p.inicio + n, p.tamanio - n))
    ELSE t

\* The rest is appended and the table sorted: it ends up after its sibling.
Dividida(t, k, n) ==
    LET p == t[k] IN
    IF Esquema = "DINAMICAS" /\ p.tamanio > n
    THEN InsertAt([t EXCEPT ![k].tamanio = n, ![k].fin = p.inicio + n - 1],
                  k + 1, Libre(p.inicio + n, p.tamanio - n))
    ELSE t

\* The occupied partitions a context names by its base and limit.
DelContexto(t, c) ==
    {k \in DOMAIN t : t[k].inicio = c.base /\ t[k].fin = c.limite /\ t[k].ocupada}

\* p takes the bytes of q too
Unida(p, q) == [p EXCEPT !.fin = q.fin, !.tamanio = @ + q.tamanio]

LibreEn(t, k) == k \in DOMAIN t /\ ~t[k].ocupada

\* The partition p with the one at k + 1, if that one is free.
ConSiguiente(t, k, p) == IF LibreEn(t, k + 1) THEN Unida(p, t[k + 1]) ELSE p
SinSiguiente(t, k)    == IF LibreEn(t, k + 1) THEN RemoveAt(t, k + 1) ELSE t

\* Mutant: the two removals in the other order.
FundidaAlReves(t, k, y) ==
    IF LibreEn(t, k - 1)
    THEN SinSiguiente(RemoveAt([t EXCEPT ![k - 1] = ConSiguiente(t, k, Unida(@, t[y]))],
                               k), k)
    ELSE SinSiguiente([t EXCEPT ![y] = ConSiguiente(t, k, @)], k)

\* The merge after the partition at y is freed.  The code goes on using the
\* index k it had in the table then; alone in memoria, k = y.
Fundida(t, k, y) ==
    IF LibreEn(t, k - 1)
    THEN RemoveAt(SinSiguiente([t EXCEPT ![k - 1] = ConSiguiente(t, k, Unida(@, t[y]))],
                               k), k)
    ELSE SinSiguiente([t EXCEPT ![y] = ConSiguiente(t, k, @)], k)
=============================================================================
