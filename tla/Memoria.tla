------------------------------ MODULE Memoria ------------------------------
(***************************************************************************)
(* memoria/src as a server: one thread per connection, and one connection  *)
(* per request of the kernel.  Its threads share tablaParticiones and      *)
(* tablaPCBs with no lock, so a step of a request is one walk over a table *)
(* or one group of updates between two of them.                            *)
(*                                                                         *)
(* The clients are the kernel threads that send requests: LP creates       *)
(* processes, CP creates and ends threads and ends processes, and DUMP is  *)
(* the handler of a DUMP_MEMORY, which ends the process if it fails.       *)
(***************************************************************************)
EXTENDS Particiones

CONSTANTS
    Procesos, Hebras,   \* pids, in order of creation, and tids
    Tamano,             \* the size each process asks for
    Legibles,           \* processes whose pseudocode file can be read
    Clientes,           \* which of "LP", "CP" and "DUMP" are at work
    EnParalelo,         \* whether requests may overlap
    CancelaPrincipal    \* whether a thread may cancel thread 0

ASSUME ConstantesMemoria ==
    /\ Procesos \subseteq Nat /\ Hebras \subseteq Nat /\ 0 \in Hebras
    /\ Tamano \in [Procesos -> Nat \ {0}]
    /\ Legibles \subseteq Procesos /\ Clientes \subseteq {"LP", "CP", "DUMP"}
    /\ EnParalelo \in BOOLEAN /\ CancelaPrincipal \in BOOLEAN

VARIABLES
    tablaParticiones,
    contexto,       \* tablaPCBs: base and limite of each context, by <<pid, tid>>
    proceso,        \* the kernel's view of each process
    pc, loc,        \* the request each client waits for, and its locals
    fallo           \* undefined behaviour reached

vars == <<tablaParticiones, contexto, proceso, pc, loc, fallo>>

Contextos == Procesos \X Hebras
SinRango  == [base |-> 0, limite |-> 0]

ConContexto(h, c) ==
    [g \in DOMAIN contexto \cup {h} |-> IF g = h THEN c ELSE contexto[g]]
SinContexto(h) == [g \in DOMAIN contexto \ {h} |-> contexto[g]]

\* Where the partition a thread has a pointer to is now, 0 once freed.
Posicion(x) ==
    LET ks == {k \in DOMAIN tablaParticiones : tablaParticiones[k].inicio = x}
    IN  IF ks = {} THEN 0 ELSE CHOOSE k \in ks : TRUE

Va(c, etiqueta) == pc' = [pc EXCEPT ![c] = etiqueta]
En(c, etiqueta) == fallo = "ninguno" /\ pc[c] = etiqueta
EsContexto(h) == h \in DOMAIN contexto

-----------------------------------------------------------------------------
(* Requests the kernel may send.                                           *)

Pedir(c, p, t, etiqueta) ==
    /\ En(c, "libre")
    /\ EnParalelo \/ \A d \in Clientes : pc[d] = "libre"
    /\ Va(c, etiqueta)
    /\ loc' = [loc EXCEPT ![c].pid = p, ![c].tid = t]
    /\ UNCHANGED <<tablaParticiones, contexto, proceso, fallo>>

\* The long-term scheduler asks for the first process of cola_new.
PedirProceso(p) ==
    /\ proceso[p] = "new"
    /\ \A q \in Procesos : q < p => proceso[q] # "new"
    /\ Pedir("LP", p, 0, "entra")

PedirHilo(p, t) ==
    /\ proceso[p] = "ready" /\ t # 0 /\ ~EsContexto(<<p, t>>)
    /\ Pedir("CP", p, t, "crea_hilo")

PedirFinHilo(p, t) ==
    /\ proceso[p] = "ready" /\ (t # 0 \/ CancelaPrincipal)
    /\ Pedir("CP", p, t, "fin_hilo")

PedirFin(p) == proceso[p] = "ready" /\ Pedir("CP", p, 0, "fin_proceso")

PedirDump(p, t) ==
    /\ EsContexto(<<p, t>>)
    /\ Pedir("DUMP", p, t, "dump")

-----------------------------------------------------------------------------
(* CREAR_PROCESO                                                           *)

Responde(c, p, e) ==
    /\ Va(c, "libre")
    /\ proceso' = [proceso EXCEPT ![p] = e]

Entra ==
    LET p == loc["LP"].pid
        r == EntraEnMemoria(tablaParticiones, Tamano[p])
    IN
    /\ En("LP", "entra")
    /\ \/ r = "SUCCESS" /\ Va("LP", "busca") /\ UNCHANGED proceso
       \/ r = "SIZE_ERROR" /\ Responde("LP", p, "new")
       \/ r = "MAX_SIZE_ERROR" /\ Responde("LP", p, "exit")
    /\ UNCHANGED <<tablaParticiones, contexto, loc, fallo>>

Busca ==
    LET p == loc["LP"].pid
        n == Tamano[p]
    IN
    /\ En("LP", "busca")
    /\ IF Candidatas(tablaParticiones, n) = {}
       THEN Responde("LP", p, "new") /\ UNCHANGED loc
       ELSE /\ loc' = [loc EXCEPT !["LP"].particion =
                        tablaParticiones[Elegida(tablaParticiones, n)].inicio]
            /\ Va("LP", "marca")
            /\ UNCHANGED proceso
    /\ UNCHANGED <<tablaParticiones, contexto, fallo>>

\* Another thread may have merged, and freed, the partition just found.
Marca ==
    LET k == Posicion(loc["LP"].particion) IN
    /\ En("LP", "marca")
    /\ IF k = 0
       THEN fallo' = "particion_liberada" /\ UNCHANGED <<tablaParticiones, pc>>
       ELSE /\ tablaParticiones' = [tablaParticiones EXCEPT ![k].ocupada = TRUE]
            /\ Va("LP", "divide")
            /\ UNCHANGED fallo
    /\ UNCHANGED <<contexto, proceso, loc>>

Divide ==
    LET k == Posicion(loc["LP"].particion) IN
    /\ En("LP", "divide")
    /\ IF k = 0
       THEN fallo' = "particion_liberada" /\ UNCHANGED <<tablaParticiones, pc>>
       ELSE /\ tablaParticiones' =
                    Dividida(tablaParticiones, k, Tamano[loc["LP"].pid])
            /\ Va("LP", "publica")
            /\ UNCHANGED fallo
    /\ UNCHANGED <<contexto, proceso, loc>>

\* The context is listed once its file has been read; if it cannot be, the
\* partition stays occupied.
Publica ==
    LET p == loc["LP"].pid
        k == Posicion(loc["LP"].particion)
        r == tablaParticiones[k]
    IN
    /\ En("LP", "publica")
    /\ \/ /\ k = 0
          /\ fallo' = "particion_liberada"
          /\ UNCHANGED <<contexto, proceso, pc>>
       \/ /\ k # 0 /\ p \in Legibles
          /\ contexto' = ConContexto(<<p, 0>>, [base |-> r.inicio, limite |-> r.fin])
          /\ Responde("LP", p, "ready")
          /\ UNCHANGED fallo
       \/ /\ k # 0 /\ p \notin Legibles
          /\ Responde("LP", p, "exit")
          /\ UNCHANGED <<contexto, fallo>>
    /\ UNCHANGED <<tablaParticiones, loc>>

CrearProceso == Entra \/ Busca \/ Marca \/ Divide \/ Publica

-----------------------------------------------------------------------------
(* FIN_PROCESO.  The list of contexts is taken first and walked afterwards. *)

FinProceso(c) ==
    LET p == loc[c].pid
        suyos == {h \in DOMAIN contexto : h[1] = p}
    IN
    /\ En(c, "fin_proceso")
    /\ loc' = [loc EXCEPT ![c].hilos = suyos]
    /\ Va(c, IF suyos = {} THEN "libre"                 \* PID_NOT_FOUND
             ELSE IF <<p, 0>> \in suyos THEN "libera" ELSE "libera_hilos")
    /\ UNCHANGED <<tablaParticiones, contexto, proceso, fallo>>

\* Mutant: the partition is left occupied.
LiberaNada(c) ==
    /\ En(c, "libera")
    /\ Va(c, "libera_hilos")
    /\ UNCHANGED <<tablaParticiones, contexto, proceso, loc, fallo>>

\* liberar_proceso up to the merge, which the first partition of the table and
\* the scheme FIJAS do without
Libera(c) ==
    LET h == <<loc[c].pid, 0>>
        ks == DelContexto(tablaParticiones, contexto[h])
        k == CHOOSE n \in ks : \A m \in ks : n <= m
    IN
    /\ En(c, "libera")
    /\ \/ /\ ~EsContexto(h)
          /\ fallo' = "contexto_liberado"
          /\ UNCHANGED <<tablaParticiones, contexto, pc, loc>>
       \/ /\ EsContexto(h) /\ ks = {}
          /\ Va(c, "libera_hilos")
          /\ UNCHANGED <<tablaParticiones, contexto, loc, fallo>>
       \/ /\ EsContexto(h) /\ ks # {}
          /\ tablaParticiones' = [tablaParticiones EXCEPT ![k].ocupada = FALSE]
          /\ contexto' = [contexto EXCEPT ![h] = SinRango]
          /\ loc' = [loc EXCEPT ![c].particion = tablaParticiones[k].inicio,
                                ![c].k = k]
          /\ Va(c, IF k > 1 /\ Esquema = "DINAMICAS" THEN "funde" ELSE "libera_hilos")
          /\ UNCHANGED fallo
    /\ UNCHANGED proceso

\* With a stale index, list_remove drops one partition and free another, which
\* the walk that logs the table then reads.
Funde(c) ==
    LET k == loc[c].k
        y == Posicion(loc[c].particion)
    IN
    /\ En(c, "funde")
    /\ IF y = 0 \/ (LibreEn(tablaParticiones, k - 1) /\ y # k)
       THEN fallo' = "particion_liberada" /\ UNCHANGED <<tablaParticiones, pc>>
       ELSE /\ tablaParticiones' = Fundida(tablaParticiones, k, y)
            /\ Va(c, "libera_hilos")
            /\ UNCHANGED fallo
    /\ UNCHANGED <<contexto, proceso, loc>>

LiberaHilos(c) ==
    LET h == CHOOSE g \in loc[c].hilos : \A f \in loc[c].hilos : g[2] <= f[2] IN
    /\ En(c, "libera_hilos")
    /\ \/ /\ loc[c].hilos = {}
          /\ Responde(c, loc[c].pid, "exit")
          /\ UNCHANGED <<contexto, loc, fallo>>
       \/ /\ loc[c].hilos # {} /\ EsContexto(h)
          /\ contexto' = SinContexto(h)
          /\ loc' = [loc EXCEPT ![c].hilos = @ \ {h}]
          /\ UNCHANGED <<proceso, pc, fallo>>
       \/ /\ loc[c].hilos # {} /\ ~EsContexto(h)
          /\ fallo' = "contexto_liberado"
          /\ UNCHANGED <<contexto, proceso, pc, loc>>
    /\ UNCHANGED tablaParticiones

Finalizar(c) == FinProceso(c) \/ Libera(c) \/ Funde(c) \/ LiberaHilos(c)

-----------------------------------------------------------------------------
(* CREAR_HILO, FIN_HILO and MEMORY_DUMP                                    *)

\* The new context copies the range of thread 0, read before the file is.
CreaHilo ==
    LET h == <<loc["CP"].pid, 0>> IN
    /\ En("CP", "crea_hilo")
    /\ IF EsContexto(h)
       THEN /\ loc' = [loc EXCEPT !["CP"].rango = contexto[h]]
            /\ Va("CP", "publica_hilo")
            /\ UNCHANGED fallo
       ELSE fallo' = "puntero_nulo" /\ UNCHANGED <<pc, loc>>
    /\ UNCHANGED <<tablaParticiones, contexto, proceso>>

\* Mutant: the range is left at zero.
PublicaHiloSinRango ==
    /\ En("CP", "publica_hilo")
    /\ contexto' = ConContexto(<<loc["CP"].pid, loc["CP"].tid>>, SinRango)
    /\ Va("CP", "libre")
    /\ UNCHANGED <<tablaParticiones, proceso, loc, fallo>>

\* If the file cannot be read the answer is PATH_ERROR and nothing is listed.
PublicaHilo ==
    /\ En("CP", "publica_hilo")
    /\ \/ contexto' = ConContexto(<<loc["CP"].pid, loc["CP"].tid>>, loc["CP"].rango)
       \/ UNCHANGED contexto
    /\ Va("CP", "libre")
    /\ UNCHANGED <<tablaParticiones, proceso, loc, fallo>>

FinHilo ==
    /\ En("CP", "fin_hilo")
    /\ contexto' = SinContexto(<<loc["CP"].pid, loc["CP"].tid>>)
    /\ Va("CP", "libre")
    /\ UNCHANGED <<tablaParticiones, proceso, loc, fallo>>

\* The context may be gone when its range is read: memoria does not check the
\* pointer, and connects to filesystem between the two.
Dump ==
    /\ En("DUMP", "dump")
    /\ IF EsContexto(<<loc["DUMP"].pid, loc["DUMP"].tid>>)
       THEN /\ \E sigue \in {"libre", "fin_proceso"} : Va("DUMP", sigue)
            /\ UNCHANGED fallo
       ELSE fallo' = "contexto_liberado" /\ UNCHANGED pc
    /\ UNCHANGED <<tablaParticiones, contexto, proceso, loc>>

-----------------------------------------------------------------------------

Init ==
    /\ tablaParticiones = TablaInicial
    /\ contexto = [h \in {} |-> SinRango]
    /\ proceso = [p \in Procesos |-> "new"]
    /\ pc = [c \in Clientes |-> "libre"]
    /\ loc = [c \in Clientes |-> [pid |-> 0, tid |-> 0, particion |-> 0, k |-> 0,
                                  hilos |-> {}, rango |-> SinRango]]
    /\ fallo = "ninguno"

PasoLP == "LP" \in Clientes /\ (CrearProceso \/ \E p \in Procesos : PedirProceso(p))

PasoCP ==
    /\ "CP" \in Clientes
    /\ \/ \E p \in Procesos : PedirFin(p)
       \/ \E p \in Procesos, t \in Hebras : PedirHilo(p, t) \/ PedirFinHilo(p, t)
       \/ Finalizar("CP") \/ CreaHilo \/ PublicaHilo \/ FinHilo

PasoDump ==
    /\ "DUMP" \in Clientes
    /\ \/ \E p \in Procesos, t \in Hebras : PedirDump(p, t)
       \/ Dump \/ Finalizar("DUMP")

Next == PasoLP \/ PasoCP \/ PasoDump

Spec == Init /\ [][Next]_vars
=============================================================================
