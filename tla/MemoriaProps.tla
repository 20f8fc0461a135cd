---------------------------- MODULE MemoriaProps ----------------------------
(***************************************************************************)
(* What the partition table, the contexts and the processes they belong to *)
(* must satisfy, and the promise of Asignador.                             *)
(***************************************************************************)
EXTENDS Memoria

Fallos == {"ninguno", "particion_liberada", "contexto_liberado", "puntero_nulo"}

Etiquetas == {"libre", "entra", "busca", "marca", "divide", "publica", "fin_proceso",
    "libera", "funde", "libera_hilos", "crea_hilo", "publica_hilo", "fin_hilo", "dump"}

Rango == [base : Nat, limite : Nat]

Locales == [pid : Procesos \cup {0}, tid : Hebras, particion : Nat, k : Nat,
            hilos : SUBSET Contextos, rango : Rango]

(* The partitions and contexts of memoria hold values of their C types,    *)
(* and every request is at a point of its handler.                         *)
TypeOK ==
    /\ tablaParticiones \in Seq(Particion)
    /\ DOMAIN contexto \subseteq Contextos
    /\ \A h \in DOMAIN contexto : contexto[h] \in Rango
    /\ proceso \in [Procesos -> {"new", "ready", "exit"}]
    /\ pc \in [Clientes -> Etiquetas] /\ loc \in [Clientes -> Locales]
    /\ fallo \in Fallos

(* The partitions lie one after the other, without holes or overlaps, each *)
(* as long as it says (administrativo.c:121-152, 218-255).                 *)
Teselado ==
    LET t == tablaParticiones IN
    /\ t # <<>> /\ t[1].inicio = 0
    /\ t[Len(t)].fin = TablaInicial[Len(TablaInicial)].fin
    /\ \A k \in DOMAIN t : t[k].tamanio > 0 /\ t[k].fin = t[k].inicio + t[k].tamanio - 1
    /\ \A k \in 1..(Len(t) - 1) : t[k + 1].inicio = t[k].fin + 1

\* Some FIN_PROCESO of p has given its partition back.
Devuelto(p) ==
    \E c \in Clientes : loc[c].pid = p /\ pc[c] \in {"funde", "libera_hilos"}

\* Processes with a partition: the kernel was told SUCCESS and has not ended them.
Alojados == {p \in Procesos : EsContexto(<<p, 0>>) /\ ~Devuelto(p)}

(* A process has access to exactly one occupied partition, large enough    *)
(* (operaciones_kernel.c:95), and so has no other process.                 *)
RangoEsParticion ==
    fallo = "ninguno" =>
        \A p \in Alojados :
            LET c == contexto[<<p, 0>>] IN
            /\ Cardinality(DelContexto(tablaParticiones, c)) = 1
            /\ c.limite - c.base + 1 >= Tamano[p]
            /\ \A q \in Alojados \ {p} : contexto[<<q, 0>>] # c

(* The threads of a process share the range of its thread 0.               *)
HilosComparten ==
    \A h \in DOMAIN contexto :
        h[1] \in Alojados => contexto[h] = contexto[<<h[1], 0>>]

(* An occupied partition belongs to a process or to the request that is    *)
(* creating one: none stays taken with nobody to give it back.             *)
SinFuga ==
    \A k \in DOMAIN tablaParticiones :
        LET q == tablaParticiones[k] IN
        q.ocupada =>
            \/ \E p \in Alojados : contexto[<<p, 0>>].base = q.inicio
            \/ \E c \in Clientes :
                  pc[c] \in {"divide", "publica"} /\ loc[c].particion = q.inicio

Promesa == INSTANCE Asignador WITH
    Techo <- TamMemoria,
    rango <- [p \in Alojados |-> contexto[<<p, 0>>]]

(* memoria keeps the promise of Asignador: disjoint ranges that do not     *)
(* move while the process lives.                                           *)
CumplePromesa == Promesa!Spec
=============================================================================
