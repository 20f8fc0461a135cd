---------------------------- MODULE MemoriaProofs ----------------------------
(***************************************************************************)
(* Proofs about Memoria with its clients in parallel.  In order:           *)
(*   - the protocol of the requests, under either scheme: which client may *)
(*     be where, and that the threads of a process share its range;        *)
(*   - the table of the scheme FIJAS, where only ocupada changes, and the  *)
(*     ranges of the processes while requests overlap;                     *)
(*   - what a split and a merge do to a table of the scheme DINAMICAS.     *)
(* A split or a merge under another thread's feet has no theorem, because  *)
(* it has a counterexample (RangoEsParticion, with FIRST and two clients). *)
(***************************************************************************)
EXTENDS MemoriaProps, ListasLemas, FiniteSetTheorems

-----------------------------------------------------------------------------
(* The protocol of the requests                                             *)

DeAlta      == {"entra", "busca", "marca", "divide", "publica"}
DeBaja      == {"fin_proceso", "libera", "funde", "libera_hilos"}
Devolviendo == {"funde", "libera_hilos"}

\* The locals of a request; V holds the values that come from the table.
Molde(V) == [pid : Procesos \cup {0}, tid : Hebras, particion : V, k : V,
             hilos : SUBSET Contextos, rango : V]

Forma ==
    /\ DOMAIN contexto \subseteq Contextos
    /\ proceso \in [Procesos -> {"new", "ready", "exit"}]
    /\ pc \in [Clientes -> Etiquetas]
    /\ \E V : loc \in [Clientes -> Molde(V)]

\* What the point a client is at says of its process and of its locals.
EnRegla(c) ==
    LET p == loc[c].pid IN
    /\ c = "LP" => pc[c] \in DeAlta \cup {"libre"}
    /\ c = "CP" => pc[c] \in DeBaja \cup {"libre", "crea_hilo", "publica_hilo", "fin_hilo"}
    /\ c = "DUMP" => pc[c] \in DeBaja \cup {"libre", "dump"}
    /\ pc[c] # "libre" => p \in Procesos /\ (proceso[p] = "new" <=> pc[c] \in DeAlta)
    /\ pc[c] \in {"crea_hilo", "publica_hilo"} => loc[c].tid # 0
    /\ pc[c] \in {"libera"} \cup Devolviendo =>
          (<<p, 0>> \in DOMAIN contexto => <<p, 0>> \in loc[c].hilos)
    /\ pc[c] = "publica_hilo" /\ p \in Alojados => loc[c].rango = contexto[<<p, 0>>]

Protocolo ==
    /\ Forma
    /\ \A h \in DOMAIN contexto : proceso[h[1]] # "new"
    /\ \A c \in Clientes : EnRegla(c)
    /\ HilosComparten

\* Only the request of c moves on.
Toca(c) == \A d \in Clientes : d # c => pc'[d] = pc[d] /\ loc'[d] = loc[d]

\* A process keeps its range, or has just been given one.
Conserva ==
    \A q \in Alojados' :
        \/ q \in Alojados /\ contexto'[<<q, 0>>] = contexto[<<q, 0>>]
        \/ proceso[q] = "new"

LEMMA AlojadosQuedan ==
  ASSUME NEW c \in Clientes, Toca(c),
         \A q \in Procesos : <<q, 0>> \in DOMAIN contexto' =>
            \/ proceso[q] = "new"
            \/ /\ <<q, 0>> \in DOMAIN contexto
               /\ \/ contexto'[<<q, 0>>] = contexto[<<q, 0>>]
                  \/ loc'[c].pid = q /\ pc'[c] \in Devolviendo,
         pc[c] \in Devolviendo /\ <<loc[c].pid, 0>> \in DOMAIN contexto' =>
            pc'[c] \in Devolviendo /\ loc'[c].pid = loc[c].pid
  PROVE  Conserva
<1> SUFFICES ASSUME NEW q \in Alojados', proceso[q] # "new"
             PROVE  q \in Alojados /\ contexto'[<<q, 0>>] = contexto[<<q, 0>>]
  BY DEF Conserva
<1>1. q \in Procesos /\ <<q, 0>> \in DOMAIN contexto'
      /\ \A d \in Clientes : ~(loc'[d].pid = q /\ pc'[d] \in Devolviendo)
  BY DEF Alojados, EsContexto, Devuelto, Devolviendo
<1>2. <<q, 0>> \in DOMAIN contexto /\ contexto'[<<q, 0>>] = contexto[<<q, 0>>]
  BY <1>1
<1>3. ASSUME NEW d \in Clientes PROVE ~(loc[d].pid = q /\ pc[d] \in Devolviendo)
  <2>1. CASE d = c
    BY <1>1, <2>1
  <2>2. CASE d # c
    BY <1>1, <2>2 DEF Toca
  <2> QED BY <2>1, <2>2
<1>4. q \in Alojados
  BY <1>1, <1>2, <1>3 DEF Alojados, EsContexto, Devuelto, Devolviendo
<1> QED BY <1>2, <1>4

LEMMA Sigue ==
  ASSUME Protocolo, NEW c \in Clientes, Toca(c), Forma', Conserva, EnRegla(c)',
         \A q \in Procesos : \/ proceso'[q] = proceso[q]
                             \/ /\ q = loc[c].pid /\ pc[c] # "libre"
                                /\ pc[c] \in DeAlta \/ proceso'[q] # "new",
         \A h \in DOMAIN contexto' :
            \/ h \in DOMAIN contexto
            \/ /\ h[1] = loc[c].pid /\ pc[c] # "libre" /\ proceso'[h[1]] # "new"
               /\ h[2] # 0 \/ proceso[h[1]] = "new",
         \A h \in DOMAIN contexto' : h[1] \in Alojados' =>
            \/ h \in DOMAIN contexto /\ contexto'[h] = contexto[h]
            \/ contexto'[h] = contexto'[<<h[1], 0>>]
  PROVE  Protocolo'
<1>1. \A h \in DOMAIN contexto : h \in Contextos /\ h[1] \in Procesos /\ proceso[h[1]] # "new"
  BY DEF Protocolo, Forma, Contextos
<1>2. ASSUME NEW d \in Clientes
      PROVE  d \in {"LP", "CP", "DUMP"} /\ EnRegla(d) /\ (pc[d] \in DeAlta => d = "LP")
  BY <1>2, ConstantesMemoria DEF Protocolo, EnRegla, DeAlta, DeBaja
<1>3. pc[c] # "libre" => loc[c].pid \in Procesos
                         /\ (proceso[loc[c].pid] = "new" <=> pc[c] \in DeAlta)
  BY DEF Protocolo, EnRegla
<1>4. \A h \in DOMAIN contexto' : proceso'[h[1]] # "new"
  BY <1>1, <1>3
<1>5. ASSUME NEW d \in Clientes, d # c PROVE EnRegla(d)'
  <2> DEFINE p == loc[d].pid
  <2>1. pc'[d] = pc[d] /\ loc'[d] = loc[d]
    BY <1>5 DEF Toca
  <2>2. pc[d] # "libre" => p \in Procesos /\ (proceso[p] = "new" <=> pc[d] \in DeAlta)
    BY <1>2 DEF EnRegla
  <2>3. pc[d] # "libre" => (proceso'[p] = "new" <=> pc[d] \in DeAlta)
    BY <1>2, <1>3, <1>5, <2>2
  <2>4. ASSUME pc[d] \in {"libera"} \cup Devolviendo, <<p, 0>> \in DOMAIN contexto'
        PROVE  <<p, 0>> \in loc[d].hilos
    <3>1. pc[d] \notin DeAlta /\ pc[d] # "libre"
      BY <2>4 DEF DeAlta, Devolviendo
    <3>2. <<p, 0>> \in DOMAIN contexto
      BY <2>2, <2>4, <3>1
    <3> QED BY <1>2, <2>4, <3>2 DEF EnRegla
  <2>5. ASSUME pc[d] = "publica_hilo", p \in Alojados'
        PROVE  loc[d].rango = contexto'[<<p, 0>>]
    <3>1. proceso[p] # "new"
      BY <2>2, <2>5 DEF DeAlta
    <3>2. p \in Alojados /\ contexto'[<<p, 0>>] = contexto[<<p, 0>>]
      BY <2>5, <3>1 DEF Conserva
    <3> QED BY <1>2, <2>5, <3>2 DEF EnRegla
  <2>6. /\ d = "LP" => pc[d] \in DeAlta \cup {"libre"}
        /\ d = "CP" => pc[d] \in DeBaja \cup {"libre", "crea_hilo", "publica_hilo", "fin_hilo"}
        /\ d = "DUMP" => pc[d] \in DeBaja \cup {"libre", "dump"}
        /\ pc[d] \in {"crea_hilo", "publica_hilo"} => loc[d].tid # 0
    BY <1>2 DEF EnRegla
  <2> QED BY <2>1, <2>2, <2>3, <2>4, <2>5, <2>6 DEF EnRegla
<1>6. HilosComparten'
  <2> SUFFICES ASSUME NEW h \in DOMAIN contexto', h[1] \in Alojados'
               PROVE  contexto'[h] = contexto'[<<h[1], 0>>]
    BY DEF HilosComparten
  <2>1. CASE h \in DOMAIN contexto /\ contexto'[h] = contexto[h]
    <3>1. h[1] \in Alojados /\ contexto'[<<h[1], 0>>] = contexto[<<h[1], 0>>]
      BY <1>1, <2>1 DEF Conserva
    <3>2. contexto[h] = contexto[<<h[1], 0>>]
      BY <2>1, <3>1 DEF Protocolo, HilosComparten
    <3> QED BY <2>1, <3>1, <3>2
  <2> QED BY <2>1
<1> QED BY <1>4, <1>5, <1>6 DEF Protocolo

\* How each action moves its client, with the locals it does not set.
LEMMA DatosPedir ==
  ASSUME Forma, NEW c \in Clientes, NEW p \in Procesos, NEW t \in Hebras,
         NEW e \in Etiquetas, Pedir(c, p, t, e)
  PROVE  /\ Toca(c) /\ Forma' /\ pc[c] = "libre"
         /\ pc'[c] = e /\ loc'[c] = [loc[c] EXCEPT !.pid = p, !.tid = t]
         /\ loc'[c].pid = p /\ loc'[c].tid = t
<1>1. /\ pc[c] = "libre" /\ pc' = [pc EXCEPT ![c] = e]
      /\ loc' = [loc EXCEPT ![c].pid = p, ![c].tid = t]
      /\ UNCHANGED <<contexto, proceso>>
  BY DEF Pedir, En, Va
<1>2. PICK V : loc \in [Clientes -> Molde(V)]
  BY DEF Forma
<1>3. loc' = [loc EXCEPT ![c] = [loc[c] EXCEPT !.pid = p, !.tid = t]]
  BY <1>1, <1>2 DEF Molde
<1>4. [loc[c] EXCEPT !.pid = p, !.tid = t] \in Molde(V)
      /\ [loc[c] EXCEPT !.pid = p, !.tid = t].pid = p
      /\ [loc[c] EXCEPT !.pid = p, !.tid = t].tid = t
  BY <1>2 DEF Molde
<1>5. /\ loc' \in [Clientes -> Molde(V)]
      /\ loc'[c] = [loc[c] EXCEPT !.pid = p, !.tid = t]
      /\ \A d \in Clientes : d # c => loc'[d] = loc[d]
  <2> DEFINE x == [loc[c] EXCEPT !.pid = p, !.tid = t]
  <2> HIDE DEF x
  <2> QED BY <1>2, <1>3, <1>4 DEF x
<1>6. /\ pc' \in [Clientes -> Etiquetas] /\ pc'[c] = e
      /\ \A d \in Clientes : d # c => pc'[d] = pc[d]
  BY <1>1 DEF Forma
<1> QED BY <1>1, <1>4, <1>5, <1>6 DEF Forma, Toca

\* A local that comes from a table is set, or none.
LEMMA DatosLocal ==
  ASSUME Forma, NEW c \in Clientes, NEW e \in Etiquetas, pc' = [pc EXCEPT ![c] = e],
         NEW x, \/ loc' = loc
                \/ loc' = [loc EXCEPT ![c].particion = x]
                \/ loc' = [loc EXCEPT ![c].rango = x]
  PROVE  /\ Toca(c) /\ pc' \in [Clientes -> Etiquetas] /\ pc'[c] = e
         /\ \E V : loc' \in [Clientes -> Molde(V)]
         /\ loc'[c].pid = loc[c].pid /\ loc'[c].tid = loc[c].tid
         /\ loc'[c].hilos = loc[c].hilos
         /\ loc' = [loc EXCEPT ![c].rango = x] => loc'[c].rango = x
<1>1. PICK V : loc \in [Clientes -> Molde(V)]
  BY DEF Forma
<1>2. /\ pc' \in [Clientes -> Etiquetas] /\ pc'[c] = e
      /\ \A d \in Clientes : d # c => pc'[d] = pc[d]
  BY DEF Forma
<1>3. ASSUME NEW r, NEW W, r \in Molde(W), V \subseteq W, loc' = [loc EXCEPT ![c] = r]
      PROVE  /\ Toca(c) /\ \E U : loc' \in [Clientes -> Molde(U)]
             /\ loc'[c] = r
  <2>1. ASSUME NEW d \in Clientes PROVE loc[d] \in Molde(W)
    BY <1>1, <1>3 DEF Molde
  <2>2. loc' \in [Clientes -> Molde(W)] /\ loc'[c] = r
        /\ \A d \in Clientes : d # c => loc'[d] = loc[d]
    BY <1>1, <1>3, <2>1
  <2> QED BY <1>2, <1>3, <2>2 DEF Toca
<1>4. loc[c] \in Molde(V)
  BY <1>1
<1>5. CASE loc' = loc
  <2>1. Toca(c) /\ \E U : loc' \in [Clientes -> Molde(U)]
    BY <1>1, <1>2, <1>5 DEF Toca
  <2>2. loc' = [loc EXCEPT ![c].rango = x] => loc'[c].rango = x
    BY <1>1 DEF Molde
  <2> QED BY <1>2, <1>5, <2>1, <2>2
<1>6. CASE loc' = [loc EXCEPT ![c].particion = x]
  <2> DEFINE r == [loc[c] EXCEPT !.particion = x]
             W == V \cup {x}
  <2>1. r \in Molde(W) /\ V \subseteq W
        /\ r.pid = loc[c].pid /\ r.tid = loc[c].tid /\ r.hilos = loc[c].hilos
    BY <1>4 DEF Molde
  <2>2. loc' = [loc EXCEPT ![c] = r]
    BY <1>6
  <2>3. loc' = [loc EXCEPT ![c].rango = x] => loc'[c].rango = x
    BY <1>1 DEF Molde
  <2> HIDE DEF r, W
  <2> QED BY <1>2, <1>3, <2>1, <2>2, <2>3
<1>7. CASE loc' = [loc EXCEPT ![c].rango = x]
  <2> DEFINE r == [loc[c] EXCEPT !.rango = x]
             W == V \cup {x}
  <2>1. r \in Molde(W) /\ V \subseteq W /\ r.rango = x
        /\ r.pid = loc[c].pid /\ r.tid = loc[c].tid /\ r.hilos = loc[c].hilos
    BY <1>4 DEF Molde
  <2>2. loc' = [loc EXCEPT ![c] = r]
    BY <1>7
  <2> HIDE DEF r, W
  <2> QED BY <1>2, <1>3, <2>1, <2>2
<1>8. loc' = [loc EXCEPT ![c].rango = x] => loc'[c].rango = x
  BY <1>1 DEF Molde
<1> QED BY <1>2, <1>5, <1>6, <1>7, <1>8

LEMMA DatosLibera ==
  ASSUME Forma, NEW c \in Clientes, NEW e \in Etiquetas, pc' = [pc EXCEPT ![c] = e],
         NEW x, NEW y, loc' = [loc EXCEPT ![c].particion = x, ![c].k = y]
  PROVE  /\ Toca(c) /\ pc' \in [Clientes -> Etiquetas] /\ pc'[c] = e
         /\ \E V : loc' \in [Clientes -> Molde(V)]
         /\ loc'[c].pid = loc[c].pid /\ loc'[c].tid = loc[c].tid
         /\ loc'[c].hilos = loc[c].hilos
<1>1. PICK V : loc \in [Clientes -> Molde(V)]
  BY DEF Forma
<1>2. /\ pc' \in [Clientes -> Etiquetas] /\ pc'[c] = e
      /\ \A d \in Clientes : d # c => pc'[d] = pc[d]
  BY DEF Forma
<1> DEFINE r == [loc[c] EXCEPT !.particion = x, !.k = y]
           W == V \cup {x, y}
<1>3. /\ r \in Molde(W) /\ V \subseteq W
      /\ r.pid = loc[c].pid /\ r.tid = loc[c].tid /\ r.hilos = loc[c].hilos
  BY <1>1 DEF Molde
<1>4. loc' = [loc EXCEPT ![c] = r]
  BY <1>1 DEF Molde
<1> HIDE DEF r, W
<1>5. ASSUME NEW d \in Clientes PROVE loc[d] \in Molde(W)
  BY <1>1, <1>3 DEF Molde
<1>6. loc' \in [Clientes -> Molde(W)] /\ loc'[c] = r
      /\ \A d \in Clientes : d # c => loc'[d] = loc[d]
  BY <1>1, <1>3, <1>4, <1>5
<1> QED BY <1>2, <1>3, <1>6 DEF Toca

LEMMA DatosHilos ==
  ASSUME Forma, NEW c \in Clientes, NEW e \in Etiquetas, pc' = [pc EXCEPT ![c] = e],
         NEW x \in SUBSET Contextos, loc' = [loc EXCEPT ![c].hilos = x]
  PROVE  /\ Toca(c) /\ pc' \in [Clientes -> Etiquetas] /\ pc'[c] = e
         /\ \E V : loc' \in [Clientes -> Molde(V)]
         /\ loc'[c].pid = loc[c].pid /\ loc'[c].tid = loc[c].tid /\ loc'[c].hilos = x
<1>1. PICK V : loc \in [Clientes -> Molde(V)]
  BY DEF Forma
<1>2. /\ pc' \in [Clientes -> Etiquetas] /\ pc'[c] = e
      /\ \A d \in Clientes : d # c => pc'[d] = pc[d]
  BY DEF Forma
<1> DEFINE r == [loc[c] EXCEPT !.hilos = x]
<1>3. r \in Molde(V) /\ r.pid = loc[c].pid /\ r.tid = loc[c].tid /\ r.hilos = x
  BY <1>1 DEF Molde
<1>4. loc' = [loc EXCEPT ![c] = r]
  OBVIOUS
<1> HIDE DEF r
<1>5. loc' \in [Clientes -> Molde(V)] /\ loc'[c] = r
      /\ \A d \in Clientes : d # c => loc'[d] = loc[d]
  BY <1>1, <1>3, <1>4
<1> QED BY <1>2, <1>3, <1>5 DEF Toca

LEMMA PasoPedir ==
  ASSUME Protocolo, NEW c \in Clientes, NEW p \in Procesos, NEW t \in Hebras, NEW e,
         Pedir(c, p, t, e),
         \/ c = "LP" /\ e = "entra" /\ proceso[p] = "new"
         \/ /\ c = "CP" /\ e \in {"crea_hilo", "fin_hilo", "fin_proceso"}
            /\ proceso[p] # "new" /\ (e = "crea_hilo" => t # 0)
         \/ c = "DUMP" /\ e = "dump" /\ proceso[p] # "new"
  PROVE  Protocolo'
<1>1. Forma /\ e \in Etiquetas
  BY DEF Protocolo, Etiquetas
<1>2. /\ Toca(c) /\ Forma' /\ pc[c] = "libre" /\ pc'[c] = e
      /\ loc'[c].pid = p /\ loc'[c].tid = t
  BY <1>1, DatosPedir
<1>3. UNCHANGED <<contexto, proceso>>
  BY DEF Pedir
<1>4. Conserva
  BY <1>2, <1>3, AlojadosQuedan DEF Devolviendo
<1>5. EnRegla(c)'
  BY <1>2, <1>3 DEF EnRegla, DeAlta, DeBaja, Devolviendo
<1> QED BY <1>2, <1>3, <1>4, <1>5, Sigue

\* The steps of CREAR_PROCESO that list no context
LEMMA PasoAlta ==
  ASSUME Protocolo, "LP" \in Clientes, pc["LP"] \in DeAlta, UNCHANGED contexto,
         NEW e \in DeAlta \cup {"libre"}, pc' = [pc EXCEPT !["LP"] = e],
         NEW x, loc' = loc \/ loc' = [loc EXCEPT !["LP"].particion = x],
         \/ UNCHANGED proceso /\ e # "libre"
         \/ e = "libre" /\ \E v \in {"new", "exit"} :
                              proceso' = [proceso EXCEPT ![loc["LP"].pid] = v]
  PROVE  Protocolo'
<1> DEFINE c == "LP"
           p == loc["LP"].pid
<1>1. Forma /\ e \in Etiquetas /\ EnRegla(c) /\ p \in Procesos /\ proceso[p] = "new"
  BY DEF Protocolo, Etiquetas, DeAlta, EnRegla
<1>2. /\ Toca(c) /\ pc' \in [Clientes -> Etiquetas] /\ pc'[c] = e
      /\ \E V : loc' \in [Clientes -> Molde(V)]
      /\ loc'[c].pid = p /\ loc'[c].tid = loc[c].tid
  BY <1>1, DatosLocal
<1>3. /\ proceso' \in [Procesos -> {"new", "ready", "exit"}]
      /\ \A q \in Procesos : proceso'[q] = proceso[q] \/ q = p
      /\ e # "libre" => UNCHANGED proceso
  BY <1>1 DEF Forma
<1>4. Forma'
  BY <1>1, <1>2, <1>3 DEF Forma
<1>5. Conserva
  BY <1>2, AlojadosQuedan DEF Devolviendo, DeAlta
<1>6. EnRegla(c)'
  BY <1>1, <1>2, <1>3 DEF EnRegla, DeAlta, Devolviendo
<1> QED BY <1>2, <1>3, <1>4, <1>5, <1>6, Sigue DEF DeAlta

LEMMA PasoPublica ==
  ASSUME Protocolo, "LP" \in Clientes, Publica
  PROVE  Protocolo'
<1> DEFINE c == "LP"
           p == loc["LP"].pid
           h == <<p, 0>>
           k == Posicion(loc["LP"].particion)
           r == [base |-> tablaParticiones[k].inicio, limite |-> tablaParticiones[k].fin]
<1>1. /\ Forma /\ EnRegla(c) /\ pc[c] = "publica" /\ UNCHANGED loc
      /\ p \in Procesos /\ proceso[p] = "new"
  BY DEF Protocolo, Publica, En, DeAlta, EnRegla
<1>2. CASE UNCHANGED <<contexto, proceso, pc>>
  <2>1. Toca(c) /\ Forma'
    BY <1>1, <1>2 DEF Forma, Toca
  <2>2. Conserva
    BY <1>1, <1>2, <2>1, AlojadosQuedan DEF Devolviendo
  <2>3. EnRegla(c)'
    BY <1>1, <1>2 DEF EnRegla, Alojados, EsContexto, Devuelto
  <2> QED BY <1>2, <2>1, <2>2, <2>3, Sigue
<1>3. CASE contexto' = contexto /\ Responde(c, p, "exit")
  BY <1>1, <1>3, PasoAlta DEF Responde, Va, DeAlta
<1>4. CASE contexto' = ConContexto(h, r) /\ Responde(c, p, "ready")
  <2>1. /\ pc' = [pc EXCEPT ![c] = "libre"] /\ proceso' = [proceso EXCEPT ![p] = "ready"]
        /\ DOMAIN contexto' = DOMAIN contexto \cup {h}
        /\ \A g \in DOMAIN contexto : g # h => contexto'[g] = contexto[g]
    BY <1>4 DEF Responde, Va, ConContexto
  <2> HIDE DEF h, r
  <2>2. Toca(c) /\ pc' \in [Clientes -> Etiquetas] /\ pc'[c] = "libre"
    BY <1>1, <2>1 DEF Forma, Toca, Etiquetas
  <2>3. /\ proceso' \in [Procesos -> {"new", "ready", "exit"}] /\ proceso'[p] = "ready"
        /\ \A q \in Procesos : proceso'[q] = proceso[q] \/ q = p
    BY <1>1, <2>1 DEF Forma
  <2>4. Forma'
    <3>1. h \in Contextos
      BY <1>1, ConstantesMemoria DEF Contextos, h
    <3> QED BY <1>1, <2>1, <2>2, <2>3, <3>1 DEF Forma
  <2>5. \A g \in DOMAIN contexto : g[1] \in Procesos /\ proceso[g[1]] # "new"
    BY <1>1 DEF Protocolo, Forma, Contextos
  <2>6. h[1] = p /\ h[2] = 0
    BY DEF h
  <2>7. Conserva
    <3>1. ASSUME NEW q \in Procesos, <<q, 0>> \in DOMAIN contexto', proceso[q] # "new"
          PROVE  <<q, 0>> \in DOMAIN contexto /\ contexto'[<<q, 0>>] = contexto[<<q, 0>>]
      BY <1>1, <2>1, <3>1 DEF h
    <3> QED BY <1>1, <2>2, <3>1, AlojadosQuedan DEF Devolviendo
  <2>8. EnRegla(c)'
    BY <2>2 DEF EnRegla, Devolviendo
  <2>9. ASSUME NEW g \in DOMAIN contexto', g[1] \in Alojados'
        PROVE  \/ g \in DOMAIN contexto /\ contexto'[g] = contexto[g]
               \/ contexto'[g] = contexto'[<<g[1], 0>>]
    <3>1. CASE g = h
      BY <3>1, <2>6 DEF h
    <3> QED BY <2>1, <3>1
  <2> QED BY <1>1, <2>1, <2>2, <2>3, <2>4, <2>5, <2>6, <2>7, <2>8, <2>9, Sigue
<1> QED BY <1>2, <1>3, <1>4 DEF Publica

LEMMA PasoCrear ==
  ASSUME Protocolo, "LP" \in Clientes, CrearProceso
  PROVE  Protocolo'
<1>1. CASE Entra
  <2>1. pc["LP"] \in DeAlta /\ UNCHANGED <<contexto, loc>>
    BY <1>1 DEF Entra, En, DeAlta
  <2>2. \/ pc' = [pc EXCEPT !["LP"] = "busca"] /\ UNCHANGED proceso
        \/ /\ pc' = [pc EXCEPT !["LP"] = "libre"]
           /\ \E v \in {"new", "exit"} : proceso' = [proceso EXCEPT ![loc["LP"].pid] = v]
    BY <1>1 DEF Entra, Va, Responde
  <2> QED BY <2>1, <2>2, PasoAlta DEF DeAlta
<1>2. CASE Busca
  <2> DEFINE x == tablaParticiones[Elegida(tablaParticiones, Tamano[loc["LP"].pid])].inicio
  <2>1. pc["LP"] \in DeAlta /\ UNCHANGED contexto
    BY <1>2 DEF Busca, En, DeAlta
  <2>2. \/ /\ pc' = [pc EXCEPT !["LP"] = "marca"] /\ UNCHANGED proceso
           /\ loc' = [loc EXCEPT !["LP"].particion = x]
        \/ /\ pc' = [pc EXCEPT !["LP"] = "libre"] /\ UNCHANGED loc
           /\ proceso' = [proceso EXCEPT ![loc["LP"].pid] = "new"]
    BY <1>2 DEF Busca, Va, Responde
  <2> HIDE DEF x
  <2> QED BY <2>1, <2>2, PasoAlta DEF DeAlta
<1>3. CASE Marca \/ Divide
  <2>1. pc["LP"] \in DeAlta /\ UNCHANGED <<contexto, loc, proceso>>
    BY <1>3 DEF Marca, Divide, En, DeAlta
  <2>2. \/ pc' = [pc EXCEPT !["LP"] = "divide"]
        \/ pc' = [pc EXCEPT !["LP"] = "publica"]
        \/ pc' = pc
    BY <1>3 DEF Marca, Divide, Va
  <2>3. pc = [pc EXCEPT !["LP"] = pc["LP"]]
    BY DEF Protocolo, Forma
  <2>4. \E e \in DeAlta : pc' = [pc EXCEPT !["LP"] = e]
    BY <2>1, <2>2, <2>3 DEF DeAlta
  <2>5. \A e \in DeAlta : e # "libre"
    BY DEF DeAlta
  <2> QED BY <2>1, <2>4, <2>5, PasoAlta
<1> QED BY <1>1, <1>2, <1>3, PasoPublica DEF CrearProceso

\* A client that is not creating a process
LEMMA OtrosClientes ==
  ASSUME Protocolo, NEW c \in Clientes, pc[c] # "libre", pc[c] \notin DeAlta
  PROVE  /\ c \in {"CP", "DUMP"} /\ Forma /\ EnRegla(c)
         /\ loc[c].pid \in Procesos /\ proceso[loc[c].pid] # "new"
BY ConstantesMemoria DEF Protocolo, EnRegla

\* Nothing but the undefined behaviour.
LEMMA PasoFallo ==
  ASSUME Protocolo, NEW c \in Clientes, UNCHANGED <<contexto, proceso, pc, loc>>
  PROVE  Protocolo'
BY DEF Protocolo, Forma, EnRegla, HilosComparten, Alojados, EsContexto, Devuelto

LEMMA PasoFinProceso ==
  ASSUME Protocolo, NEW c \in Clientes, FinProceso(c)
  PROVE  Protocolo'
<1> DEFINE p == loc[c].pid
           suyos == {h \in DOMAIN contexto : h[1] = p}
           e == IF suyos = {} THEN "libre"
                ELSE IF <<p, 0>> \in suyos THEN "libera" ELSE "libera_hilos"
<1>1. /\ pc[c] = "fin_proceso" /\ UNCHANGED <<contexto, proceso>>
      /\ pc' = [pc EXCEPT ![c] = e] /\ loc' = [loc EXCEPT ![c].hilos = suyos]
  BY DEF FinProceso, En, Va
<1>2. c \in {"CP", "DUMP"} /\ Forma /\ EnRegla(c) /\ p \in Procesos /\ proceso[p] # "new"
  BY <1>1, OtrosClientes DEF DeAlta
<1>3. e \in {"libre", "libera", "libera_hilos"} /\ e \in Etiquetas
  BY DEF Etiquetas
<1>4. suyos \in SUBSET Contextos
  BY <1>2 DEF Forma
<1>5. <<p, 0>> \in DOMAIN contexto => <<p, 0>> \in suyos
  OBVIOUS
<1> HIDE DEF e, suyos
<1>6. /\ Toca(c) /\ pc' \in [Clientes -> Etiquetas] /\ pc'[c] = e
      /\ \E V : loc' \in [Clientes -> Molde(V)]
      /\ loc'[c].pid = p /\ loc'[c].tid = loc[c].tid /\ loc'[c].hilos = suyos
  BY <1>1, <1>2, <1>3, <1>4, DatosHilos
<1>7. Forma'
  BY <1>1, <1>2, <1>6 DEF Forma
<1>8. Conserva
  BY <1>1, <1>6, AlojadosQuedan DEF Devolviendo
<1>9. EnRegla(c)'
  BY <1>1, <1>2, <1>3, <1>5, <1>6 DEF EnRegla, DeAlta, DeBaja, Devolviendo
<1> QED BY <1>1, <1>6, <1>7, <1>8, <1>9, Sigue

LEMMA PasoLibera ==
  ASSUME Protocolo, NEW c \in Clientes, Libera(c)
  PROVE  Protocolo'
<1> DEFINE p == loc[c].pid
           h == <<p, 0>>
           ks == DelContexto(tablaParticiones, contexto[h])
           k == CHOOSE n \in ks : \A m \in ks : n <= m
           x == tablaParticiones[k].inicio
<1>1. pc[c] = "libera" /\ UNCHANGED proceso
  BY DEF Libera, En
<1>2. c \in {"CP", "DUMP"} /\ Forma /\ EnRegla(c) /\ p \in Procesos /\ proceso[p] # "new"
  BY <1>1, OtrosClientes DEF DeAlta
<1>3. CASE UNCHANGED <<contexto, pc, loc>>
  BY <1>1, <1>3, PasoFallo
<1>4. ASSUME NEW e \in Devolviendo, pc' = [pc EXCEPT ![c] = e],
             \/ loc' = loc
             \/ \E n : loc' = [loc EXCEPT ![c].particion = x, ![c].k = n],
             \/ contexto' = contexto
             \/ h \in DOMAIN contexto /\ contexto' = [contexto EXCEPT ![h] = SinRango]
      PROVE  Protocolo'
  <2>1. e \in Etiquetas
    BY DEF Devolviendo, Etiquetas
  <2>2. /\ Toca(c) /\ pc' \in [Clientes -> Etiquetas] /\ pc'[c] = e
        /\ \E V : loc' \in [Clientes -> Molde(V)]
        /\ loc'[c].pid = p /\ loc'[c].tid = loc[c].tid /\ loc'[c].hilos = loc[c].hilos
    <3> HIDE DEF x, k, ks
    <3>1. CASE loc' = loc
      BY <1>2, <1>4, <2>1, <3>1, DatosLocal
    <3>2. CASE \E n : loc' = [loc EXCEPT ![c].particion = x, ![c].k = n]
      <4>1. PICK n : loc' = [loc EXCEPT ![c].particion = x, ![c].k = n]
        BY <3>2
      <4> QED BY <1>2, <1>4, <2>1, <4>1, DatosLibera
    <3> QED BY <1>4, <3>1, <3>2
  <2> HIDE DEF x
  <2>3. /\ DOMAIN contexto' = DOMAIN contexto
        /\ \A g \in DOMAIN contexto : g # h => contexto'[g] = contexto[g]
    BY <1>4
  <2>4. Forma'
    BY <1>1, <1>2, <2>2, <2>3 DEF Forma
  <2>5. Conserva
    <3>1. ASSUME NEW q \in Procesos, q # p PROVE <<q, 0>> # h
      BY <3>1
    <3> HIDE DEF h
    <3> QED BY <1>1, <1>4, <2>2, <2>3, <3>1, AlojadosQuedan DEF Devolviendo
  <2>6. EnRegla(c)'
    BY <1>1, <1>2, <1>4, <2>2, <2>3 DEF EnRegla, DeAlta, DeBaja, Devolviendo
  <2>7. ASSUME NEW g \in DOMAIN contexto'
        PROVE  \/ g \in DOMAIN contexto /\ contexto'[g] = contexto[g]
               \/ contexto'[g] = contexto'[<<g[1], 0>>]
    <3>1. CASE g = h
      BY <3>1
    <3> QED BY <2>3, <3>1
  <2> HIDE DEF h
  <2> QED BY <1>1, <2>2, <2>3, <2>4, <2>5, <2>6, <2>7, Sigue
<1>5. CASE pc' = [pc EXCEPT ![c] = "libera_hilos"] /\ UNCHANGED <<contexto, loc>>
  BY <1>4, <1>5 DEF Devolviendo
<1>6. CASE /\ h \in DOMAIN contexto /\ contexto' = [contexto EXCEPT ![h] = SinRango]
           /\ loc' = [loc EXCEPT ![c].particion = x, ![c].k = k]
           /\ \E e \in Devolviendo : pc' = [pc EXCEPT ![c] = e]
  <2> HIDE DEF x, k, h
  <2> QED BY <1>4, <1>6
<1> HIDE DEF ks
<1>7. \/ UNCHANGED <<contexto, pc, loc>>
      \/ pc' = [pc EXCEPT ![c] = "libera_hilos"] /\ UNCHANGED <<contexto, loc>>
      \/ /\ h \in DOMAIN contexto /\ contexto' = [contexto EXCEPT ![h] = SinRango]
         /\ loc' = [loc EXCEPT ![c].particion = x, ![c].k = k]
         /\ pc' = [pc EXCEPT ![c] = IF k > 1 /\ Esquema = "DINAMICAS"
                                    THEN "funde" ELSE "libera_hilos"]
  BY Zenon DEF Libera, EsContexto, Va, ks
<1> HIDE DEF x, k, h
<1> QED BY <1>3, <1>5, <1>6, <1>7 DEF Devolviendo

LEMMA PasoFunde ==
  ASSUME Protocolo, NEW c \in Clientes, Funde(c)
  PROVE  Protocolo'
<1>1. pc[c] = "funde" /\ UNCHANGED <<proceso, contexto, loc>>
  BY DEF Funde, En
<1>2. c \in {"CP", "DUMP"} /\ Forma /\ EnRegla(c)
  BY <1>1, OtrosClientes DEF DeAlta
<1>3. CASE UNCHANGED pc
  BY <1>1, <1>3, PasoFallo
<1>4. CASE pc' = [pc EXCEPT ![c] = "libera_hilos"]
  <2>1. pc' \in [Clientes -> Etiquetas] /\ pc'[c] = "libera_hilos" /\ Toca(c)
    BY <1>1, <1>2, <1>4 DEF Forma, Etiquetas, Toca
  <2>2. Forma'
    BY <1>1, <1>2, <2>1 DEF Forma
  <2>3. Conserva
    BY <1>1, <2>1, AlojadosQuedan DEF Devolviendo
  <2>4. EnRegla(c)'
    BY <1>1, <1>2, <2>1 DEF EnRegla, DeAlta, DeBaja, Devolviendo
  <2> QED BY <1>1, <2>1, <2>2, <2>3, <2>4, Sigue
<1> QED BY <1>3, <1>4 DEF Funde, Va

LEMMA PasoLiberaHilos ==
  ASSUME Protocolo, NEW c \in Clientes, LiberaHilos(c)
  PROVE  Protocolo'
<1> DEFINE p == loc[c].pid
           H == loc[c].hilos
           g == CHOOSE f \in H : \A i \in H : f[2] <= i[2]
<1>1. pc[c] = "libera_hilos"
  BY DEF LiberaHilos, En
<1>2. /\ c \in {"CP", "DUMP"} /\ Forma /\ EnRegla(c) /\ p \in Procesos
      /\ proceso[p] # "new" /\ H \in SUBSET Contextos
      /\ (<<p, 0>> \in DOMAIN contexto => <<p, 0>> \in H)
  <2>1. c \in {"CP", "DUMP"} /\ Forma /\ EnRegla(c) /\ p \in Procesos /\ proceso[p] # "new"
    BY <1>1, OtrosClientes DEF DeAlta
  <2>2. H \in SUBSET Contextos
    BY <2>1 DEF Forma, Molde
  <2> QED BY <1>1, <2>1, <2>2 DEF EnRegla, Devolviendo
<1>3. \/ H = {} /\ Responde(c, p, "exit") /\ UNCHANGED <<contexto, loc>>
      \/ /\ contexto' = SinContexto(g) /\ loc' = [loc EXCEPT ![c].hilos = H \ {g}]
         /\ UNCHANGED <<proceso, pc>>
      \/ UNCHANGED <<contexto, proceso, pc, loc>>
  BY Zenon DEF LiberaHilos
<1> HIDE DEF g
<1>4. CASE H = {} /\ Responde(c, p, "exit") /\ UNCHANGED <<contexto, loc>>
  <2>1. pc' = [pc EXCEPT ![c] = "libre"] /\ proceso' = [proceso EXCEPT ![p] = "exit"]
    BY <1>4 DEF Responde, Va
  <2>2. pc' \in [Clientes -> Etiquetas] /\ pc'[c] = "libre" /\ Toca(c)
    BY <1>2, <1>4, <2>1 DEF Forma, Etiquetas, Toca
  <2>3. /\ proceso' \in [Procesos -> {"new", "ready", "exit"}] /\ proceso'[p] = "exit"
        /\ \A q \in Procesos : proceso'[q] = proceso[q] \/ q = p
    BY <1>2, <2>1 DEF Forma
  <2>4. Forma'
    BY <1>2, <1>4, <2>2, <2>3 DEF Forma
  <2>5. Conserva
    BY <1>2, <1>4, <2>2, AlojadosQuedan DEF Devolviendo
  <2>6. EnRegla(c)'
    BY <2>2 DEF EnRegla, Devolviendo
  <2> QED BY <1>1, <1>4, <2>2, <2>3, <2>4, <2>5, <2>6, Sigue
<1>5. CASE /\ contexto' = SinContexto(g) /\ loc' = [loc EXCEPT ![c].hilos = H \ {g}]
           /\ UNCHANGED <<proceso, pc>>
  <2>1. DOMAIN contexto' = DOMAIN contexto \ {g}
        /\ \A f \in DOMAIN contexto' : contexto'[f] = contexto[f]
    BY <1>5 DEF SinContexto
  <2>2. pc' = [pc EXCEPT ![c] = "libera_hilos"] /\ "libera_hilos" \in Etiquetas
    BY <1>1, <1>2, <1>5 DEF Forma, Etiquetas
  <2>3. H \ {g} \in SUBSET Contextos
    BY <1>2
  <2> HIDE DEF H
  <2>4. /\ Toca(c) /\ pc' \in [Clientes -> Etiquetas] /\ pc'[c] = "libera_hilos"
        /\ \E V : loc' \in [Clientes -> Molde(V)]
        /\ loc'[c].pid = p /\ loc'[c].tid = loc[c].tid /\ loc'[c].hilos = H \ {g}
    BY <1>2, <1>5, <2>2, <2>3, DatosHilos
  <2>5. Forma'
    BY <1>2, <1>5, <2>1, <2>4 DEF Forma
  <2>6. Conserva
    BY <1>1, <2>1, <2>4, AlojadosQuedan DEF Devolviendo
  <2>7. EnRegla(c)'
    BY <1>2, <1>5, <2>1, <2>4 DEF EnRegla, DeAlta, DeBaja, Devolviendo
  <2> QED BY <1>5, <2>1, <2>4, <2>5, <2>6, <2>7, Sigue
<1> QED BY <1>3, <1>4, <1>5, PasoFallo

LEMMA PasoHilo ==
  ASSUME Protocolo, "CP" \in Clientes, CreaHilo \/ PublicaHilo \/ FinHilo
  PROVE  Protocolo'
<1> DEFINE c == "CP"
           p == loc[c].pid
           h == <<p, loc[c].tid>>
<1>1. pc[c] \in {"crea_hilo", "publica_hilo", "fin_hilo"} /\ UNCHANGED proceso
  BY DEF CreaHilo, PublicaHilo, FinHilo, En
<1>2. /\ Forma /\ EnRegla(c) /\ p \in Procesos /\ proceso[p] # "new"
      /\ loc[c].tid \in Hebras
  BY <1>1, OtrosClientes DEF DeAlta, Forma, Molde
<1>3. CASE UNCHANGED <<contexto, pc, loc>>
  BY <1>1, <1>3, PasoFallo
<1>4. CASE /\ CreaHilo /\ loc' = [loc EXCEPT ![c].rango = contexto[<<p, 0>>]]
           /\ pc' = [pc EXCEPT ![c] = "publica_hilo"] /\ UNCHANGED contexto
  <2> DEFINE x == contexto[<<p, 0>>]
  <2> HIDE DEF x
  <2>1. /\ Toca(c) /\ pc' \in [Clientes -> Etiquetas] /\ pc'[c] = "publica_hilo"
        /\ \E V : loc' \in [Clientes -> Molde(V)]
        /\ loc'[c].pid = p /\ loc'[c].tid = loc[c].tid /\ loc'[c].rango = x
    BY <1>2, <1>4, DatosLocal DEF x, Etiquetas
  <2>2. Forma'
    BY <1>1, <1>2, <1>4, <2>1 DEF Forma
  <2>3. pc[c] = "crea_hilo" /\ loc[c].tid # 0
    BY <1>2, <1>4 DEF CreaHilo, En, EnRegla
  <2>4. Conserva
    BY <1>4, <2>1, <2>3, AlojadosQuedan DEF Devolviendo
  <2>5. EnRegla(c)'
    <3>1. loc'[c].rango = contexto'[<<p, 0>>]
      BY <1>4, <2>1 DEF x
    <3> QED BY <1>1, <1>2, <2>1, <2>3, <3>1 DEF EnRegla, DeAlta, DeBaja, Devolviendo
  <2> QED BY <1>1, <1>4, <2>1, <2>2, <2>4, <2>5, Sigue
<1>5. ASSUME pc' = [pc EXCEPT ![c] = "libre"], UNCHANGED loc,
             \/ UNCHANGED contexto
             \/ pc[c] = "publica_hilo" /\ contexto' = ConContexto(h, loc[c].rango)
             \/ contexto' = SinContexto(h)
      PROVE  Protocolo'
  <2>1. pc' \in [Clientes -> Etiquetas] /\ pc'[c] = "libre" /\ Toca(c)
    BY <1>2, <1>5 DEF Forma, Etiquetas, Toca
  <2>2. h \in Contextos /\ h[1] = p /\ h[2] = loc[c].tid
    BY <1>2 DEF Contextos
  <2>3. \/ pc[c] # "publica_hilo" \/ h[2] # 0
    BY <1>2, <2>2 DEF EnRegla
  <2> HIDE DEF h
  <2>4. \A g \in DOMAIN contexto' :
           \/ g \in DOMAIN contexto /\ contexto'[g] = contexto[g]
           \/ g = h /\ pc[c] = "publica_hilo" /\ contexto'[g] = loc[c].rango
    BY <1>5 DEF ConContexto, SinContexto
  <2>5. Forma'
    BY <1>1, <1>2, <1>5, <2>1, <2>2, <2>4 DEF Forma
  <2>6. Conserva
    <3>1. ASSUME NEW q \in Procesos, <<q, 0>> \in DOMAIN contexto'
          PROVE  <<q, 0>> \in DOMAIN contexto /\ contexto'[<<q, 0>>] = contexto[<<q, 0>>]
      <4>1. <<q, 0>>[2] = 0
        OBVIOUS
      <4> QED BY <2>3, <2>4, <3>1, <4>1
    <3>2. pc[c] \notin Devolviendo
      BY <1>1 DEF Devolviendo
    <3> QED BY <2>1, <3>1, <3>2, AlojadosQuedan
  <2>7. EnRegla(c)'
    BY <2>1 DEF EnRegla, Devolviendo
  <2>8. ASSUME NEW g \in DOMAIN contexto', g[1] \in Alojados'
        PROVE  \/ g \in DOMAIN contexto /\ contexto'[g] = contexto[g]
               \/ contexto'[g] = contexto'[<<g[1], 0>>]
    <3>1. CASE g = h /\ pc[c] = "publica_hilo" /\ contexto'[g] = loc[c].rango
      <4>1. p \in Alojados /\ contexto'[<<p, 0>>] = contexto[<<p, 0>>]
        BY <1>2, <2>2, <2>6, <2>8, <3>1 DEF Conserva
      <4>2. loc[c].rango = contexto[<<p, 0>>]
        BY <1>2, <3>1, <4>1 DEF EnRegla
      <4> QED BY <2>2, <3>1, <4>1, <4>2
    <3> QED BY <2>4, <3>1
  <2> QED BY <1>1, <1>2, <2>1, <2>2, <2>3, <2>4, <2>5, <2>6, <2>7, <2>8, Sigue
<1>6. CASE CreaHilo
  BY <1>3, <1>4, <1>6 DEF CreaHilo, Va
<1>7. CASE PublicaHilo
  BY <1>5, <1>7 DEF PublicaHilo, Va, En
<1>8. CASE FinHilo
  BY <1>5, <1>8 DEF FinHilo, Va
<1> QED BY <1>6, <1>7, <1>8

LEMMA PasoVolcado ==
  ASSUME Protocolo, "DUMP" \in Clientes, Dump
  PROVE  Protocolo'
<1> DEFINE c == "DUMP"
<1>1. pc[c] = "dump" /\ UNCHANGED <<proceso, contexto, loc>>
  BY DEF Dump, En
<1>2. Forma /\ EnRegla(c)
  BY <1>1, OtrosClientes DEF DeAlta
<1>3. CASE UNCHANGED pc
  BY <1>1, <1>3, PasoFallo
<1>4. ASSUME NEW e \in {"libre", "fin_proceso"}, pc' = [pc EXCEPT ![c] = e] PROVE Protocolo'
  <2>1. pc' \in [Clientes -> Etiquetas] /\ pc'[c] = e /\ Toca(c)
    BY <1>1, <1>2, <1>4 DEF Forma, Etiquetas, Toca
  <2>2. Forma'
    BY <1>1, <1>2, <2>1 DEF Forma
  <2>3. Conserva
    BY <1>1, <2>1, AlojadosQuedan DEF Devolviendo
  <2>4. EnRegla(c)'
    BY <1>1, <1>2, <2>1 DEF EnRegla, DeAlta, DeBaja, Devolviendo
  <2> QED BY <1>1, <2>1, <2>2, <2>3, <2>4, Sigue
<1> QED BY <1>3, <1>4 DEF Dump, Va

LEMMA InitProtocolo ==
  ASSUME Init
  PROVE  Protocolo
<1>1. contexto = [h \in {} |-> SinRango] /\ DOMAIN contexto = {}
  BY DEF Init
<1>2. pc \in [Clientes -> Etiquetas] /\ \A c \in Clientes : pc[c] = "libre"
  BY DEF Init, Etiquetas
<1>3. loc \in [Clientes -> Molde({0, SinRango})]
  <2>1. 0 \in Hebras
    BY ConstantesMemoria
  <2> QED BY <2>1 DEF Init, Molde
<1>4. Forma
  BY <1>1, <1>2, <1>3 DEF Forma, Init
<1>5. HilosComparten
  BY <1>1 DEF HilosComparten
<1> QED BY <1>1, <1>2, <1>4, <1>5 DEF Protocolo, EnRegla, Devolviendo

LEMMA PasoFinalizar ==
  ASSUME Protocolo, NEW c \in Clientes, Finalizar(c)
  PROVE  Protocolo'
BY PasoFinProceso, PasoLibera, PasoFunde, PasoLiberaHilos DEF Finalizar

LEMMA NextProtocolo ==
  ASSUME Protocolo, [Next]_vars
  PROVE  Protocolo'
<1>1. CASE UNCHANGED vars
  BY <1>1 DEF vars, Protocolo, Forma, EnRegla, HilosComparten, Alojados, EsContexto, Devuelto
<1>2. CASE PasoLP
  <2>1. "LP" \in Clientes /\ 0 \in Hebras
    BY <1>2, ConstantesMemoria DEF PasoLP
  <2>2. ASSUME NEW p \in Procesos, PedirProceso(p) PROVE Protocolo'
    BY <2>1, <2>2, PasoPedir DEF PedirProceso
  <2> QED BY <1>2, <2>1, <2>2, PasoCrear DEF PasoLP
<1>3. CASE PasoCP
  <2>1. "CP" \in Clientes /\ 0 \in Hebras
    BY <1>3, ConstantesMemoria DEF PasoCP
  <2>2. ASSUME NEW p \in Procesos, PedirFin(p) PROVE Protocolo'
    BY <2>1, <2>2, PasoPedir DEF PedirFin
  <2>3. ASSUME NEW p \in Procesos, NEW t \in Hebras, PedirHilo(p, t) PROVE Protocolo'
    BY <2>1, <2>3, PasoPedir DEF PedirHilo
  <2>4. ASSUME NEW p \in Procesos, NEW t \in Hebras, PedirFinHilo(p, t) PROVE Protocolo'
    BY <2>1, <2>4, PasoPedir DEF PedirFinHilo
  <2> QED BY <1>3, <2>1, <2>2, <2>3, <2>4, PasoFinalizar, PasoHilo DEF PasoCP
<1>4. CASE PasoDump
  <2>1. "DUMP" \in Clientes
    BY <1>4 DEF PasoDump
  <2>2. ASSUME NEW p \in Procesos, NEW t \in Hebras, PedirDump(p, t) PROVE Protocolo'
    <3>1. <<p, t>> \in DOMAIN contexto /\ <<p, t>>[1] = p /\ Pedir("DUMP", p, t, "dump")
      BY <2>2 DEF PedirDump, EsContexto
    <3>2. proceso[p] # "new"
      BY <3>1 DEF Protocolo
    <3> QED BY <2>1, <3>1, <3>2, PasoPedir
  <2> QED BY <1>4, <2>1, <2>2, PasoFinalizar, PasoVolcado DEF PasoDump
<1> QED BY <1>1, <1>2, <1>3, <1>4 DEF Next

(* Whatever requests overlap, and under either scheme: a process has       *)
(* contexts only once CREAR_PROCESO has answered, only the LP connection   *)
(* works on a process that is not created yet, and a FIN_PROCESO has in    *)
(* its list the context of thread 0 it is going to use                     *)
(* (operaciones_kernel.c:60-110, administrativo.c:190-216).                *)
THEOREM MemoriaProtocolo == Spec => []Protocolo
<1> QED BY InitProtocolo, NextProtocolo, PTL DEF Spec

(* The threads of a process have the range of its thread 0, whatever       *)
(* requests overlap, under either scheme: CREAR_HILO copies it before it   *)
(* reads the file and lists the context after (operaciones_kernel.c:208).  *)
THEOREM MemoriaHilos == Spec => []HilosComparten
<1>1. Protocolo => HilosComparten
  BY DEF Protocolo
<1> QED BY <1>1, MemoriaProtocolo, PTL

-----------------------------------------------------------------------------
(* The table of the scheme FIJAS                                           *)

\* inicio after each partition, without the recursion
LEMMA IniciosSuma ==
  /\ Inicios \in [0..Len(Tamanios) -> Nat]
  /\ Inicios[0] = 0
  /\ \A k \in 1..Len(Tamanios) : Inicios[k] = Inicios[k - 1] + Tamanios[k]
<1> DEFINE N == Len(Tamanios)
           g == [p \in Nat \X Nat |-> IF p[1] \in 1..N THEN p[2] + Tamanios[p[1]] ELSE p[2]]
<1>1. N \in Nat /\ \A k \in 1..N : Tamanios[k] \in Nat
  <2>1. Tamanios \in Seq(1..TamMemoria) /\ TamMemoria \in Nat
    BY ConstantesParticiones
  <2>2. \A k \in 1..N : Tamanios[k] \in 1..TamMemoria
    BY <2>1, ElementOfSeq
  <2> QED BY <2>1, <2>2, LenProperties
<1>2. g \in [Nat \X Nat -> Nat]
  <2>1. \A p \in Nat \X Nat : p[1] \in 1..N => p[2] + Tamanios[p[1]] \in Nat
    BY <1>1
  <2> QED BY <2>1
<1>3. PICK f \in [0..N -> Nat] : Recorre(f, N, 0, g)
  <2> HIDE DEF g, N
  <2> QED BY <1>1, <1>2, Recursion
<1>4. f = [k \in 0..N |-> IF k = 0 THEN 0 ELSE f[k - 1] + Tamanios[k]]
  <2>1. f = [k \in 0..N |-> IF k = 0 THEN 0 ELSE g[<<k, f[k - 1]>>]]
    BY <1>3 DEF Recorre
  <2>2. ASSUME NEW k \in 1..N PROVE g[<<k, f[k - 1]>>] = f[k - 1] + Tamanios[k]
    <3>0. k - 1 \in 0..N /\ k \in Nat
      BY <1>1
    <3>1. f[k - 1] \in Nat /\ k \in Nat
      BY <1>3, <3>0
    <3> QED BY <3>1
  <2> HIDE DEF g
  <2>3. ASSUME NEW k \in 0..N
        PROVE  f[k] = IF k = 0 THEN 0 ELSE f[k - 1] + Tamanios[k]
    <3>1. f[k] = IF k = 0 THEN 0 ELSE g[<<k, f[k - 1]>>]
      BY <2>1
    <3>2. k # 0 => k \in 1..N
      BY <1>1
    <3> QED BY <2>2, <3>1, <3>2
  <2> QED BY <1>3, <2>3
<1>5. Inicios = [k \in 0..N |-> IF k = 0 THEN 0 ELSE Inicios[k - 1] + Tamanios[k]]
  BY <1>4, Zenon DEF Inicios
<1>6. \A k \in 0..N : Inicios[k] = IF k = 0 THEN 0 ELSE Inicios[k - 1] + Tamanios[k]
  BY <1>5, Zenon
<1> HIDE DEF N
<1>7. \A k \in 0..N : Inicios[k] \in Nat
  <2> DEFINE Mal == {k \in 0..N : Inicios[k] \notin Nat}
  <2>1. SUFFICES ASSUME Mal # {} PROVE FALSE
    OBVIOUS
  <2>2. Mal \in SUBSET Nat
    BY <1>1
  <2>3. Min(Mal) \in Mal /\ \A y \in Mal : Min(Mal) <= y
    BY <2>1, <2>2, MinimoExiste
  <2>4. PICK n \in Mal : \A y \in Mal : n <= y
    BY <2>3
  <2>5. n # 0
    BY <2>4, <1>6, <1>1
  <2>6. n - 1 \in 0..N /\ n - 1 \notin Mal /\ n \in 1..N
    BY <2>4, <2>5, <1>1
  <2>7. Inicios[n - 1] \in Nat
    BY <2>6
  <2>8. Inicios[n] = Inicios[n - 1] + Tamanios[n]
    BY <2>4, <2>5, <1>6
  <2> QED BY <2>4, <2>6, <2>7, <2>8, <1>1
<1>8. Inicios \in [0..N -> Nat]
  BY <1>5, <1>7
<1>9. Inicios[0] = 0
  <2>1. 0 \in 0..N
    BY <1>1
  <2> QED BY <1>6, <2>1
<1>10. ASSUME NEW k \in 1..N PROVE Inicios[k] = Inicios[k - 1] + Tamanios[k]
  <2>1. k \in 0..N /\ k # 0
    BY <1>1
  <2> QED BY <1>6, <2>1
<1> QED BY <1>8, <1>9, <1>10 DEF N

\* By the least place that comes before the one at j
LEMMA IniciosCrecen ==
  ASSUME NEW j \in 0..Len(Tamanios), NEW k \in 0..Len(Tamanios), j <= k
  PROVE  Inicios[j] <= Inicios[k]
<1> DEFINE N == Len(Tamanios)
           Mal == {n \in 0..N : j <= n /\ ~(Inicios[j] <= Inicios[n])}
<1>1. /\ N \in Nat /\ \A n \in 1..N : Tamanios[n] \in Nat
      /\ Inicios \in [0..N -> Nat]
      /\ \A n \in 1..N : Inicios[n] = Inicios[n - 1] + Tamanios[n]
  <2>1. Tamanios \in Seq(1..TamMemoria) /\ TamMemoria \in Nat
    BY ConstantesParticiones
  <2>2. \A n \in 1..N : Tamanios[n] \in 1..TamMemoria
    BY <2>1, ElementOfSeq
  <2> QED BY <2>1, <2>2, LenProperties, IniciosSuma
<1> HIDE DEF N
<1>2. SUFFICES ASSUME Mal # {} PROVE FALSE
  BY DEF N
<1>3. Mal \in SUBSET Nat
  BY <1>1
<1>4. Min(Mal) \in Mal /\ \A y \in Mal : Min(Mal) <= y
  BY <1>2, <1>3, MinimoExiste
<1>5. PICK n \in Mal : \A y \in Mal : n <= y
  BY <1>4
<1>6. j \in Nat /\ j \in 0..N
  BY <1>1 DEF N
<1>7. n # j
  <2>1. Inicios[j] \in Nat
    BY <1>1, <1>6
  <2> QED BY <1>5, <2>1
<1>8. n - 1 \in 0..N /\ n \in 1..N /\ j <= n - 1 /\ n - 1 \notin Mal
  BY <1>1, <1>5, <1>6, <1>7
<1>9. Inicios[j] <= Inicios[n - 1]
  BY <1>8
<1>10. Inicios[n] = Inicios[n - 1] + Tamanios[n] /\ Inicios[n - 1] \in Nat
       /\ Tamanios[n] \in Nat /\ Inicios[j] \in Nat
  BY <1>1, <1>6, <1>8
<1> QED BY <1>5, <1>9, <1>10

\* What a table of the scheme FIJAS keeps of the initial one: only ocupada changes.
Contigua(t) ==
    /\ t \in Seq(Particion) /\ Len(t) = Len(Tamanios)
    /\ \A k \in 1..Len(t) : /\ t[k].inicio = Fijas[k].inicio
                            /\ t[k].fin = Fijas[k].fin
                            /\ t[k].tamanio = Fijas[k].tamanio

\* Its partitions are disjoint, and none is the range of a context without one.
LEMMA Separadas ==
  ASSUME Esquema = "FIJAS", NEW t, Contigua(t)
  PROVE  /\ Len(t) \in Nat \ {0} /\ DOMAIN t = 1..Len(t)
         /\ \A k \in 1..Len(t) :
               /\ t[k] \in Particion /\ t[k].inicio \in Nat /\ t[k].fin \in Nat
               /\ t[k].tamanio \in Nat \ {0} /\ t[k].ocupada \in BOOLEAN
               /\ t[k].fin = t[k].inicio + t[k].tamanio - 1
               /\ t[k].fin \in 0..(TamMemoria - 1) /\ t[k].inicio \in 0..(TamMemoria - 1)
               /\ t[k].fin > 0 /\ t[k].inicio <= t[k].fin
         /\ \A j, k \in 1..Len(t) : j < k => t[j].fin < t[k].inicio
<1> DEFINE N == Len(Tamanios)
<1>1. /\ N \in Nat \ {0} /\ TamMemoria \in Nat /\ Inicios[N] <= TamMemoria
      /\ Tamanios[1] > 1 /\ \A n \in 1..N : Tamanios[n] \in 1..TamMemoria
      /\ Inicios \in [0..N -> Nat]
      /\ \A n \in 1..N : Inicios[n] = Inicios[n - 1] + Tamanios[n]
  <2>1. Tamanios \in Seq(1..TamMemoria) /\ TamMemoria \in Nat /\ Tamanios # <<>>
        /\ Tamanios[1] > 1 /\ Inicios[N] <= TamMemoria
    BY ConstantesParticiones, ConstantesFijas
  <2>2. \A n \in 1..N : Tamanios[n] \in 1..TamMemoria
    BY <2>1, ElementOfSeq
  <2>3. N \in Nat \ {0}
    BY <2>1, LenProperties, EmptySeq
  <2> QED BY <2>1, <2>2, <2>3, IniciosSuma
<1>2. Len(t) = N /\ DOMAIN t = 1..N /\ \A k \in 1..N : t[k] \in Particion
  BY LenProperties, ElementOfSeq DEF Contigua
<1>3. ASSUME NEW k \in 1..N
      PROVE  /\ t[k].inicio = Inicios[k - 1] /\ t[k].fin = Inicios[k] - 1
             /\ t[k].tamanio = Tamanios[k]
  <2>1. Fijas[k] = Libre(Inicios[k - 1], Tamanios[k])
    BY DEF Fijas
  <2>2. Inicios[k] = Inicios[k - 1] + Tamanios[k]
    BY <1>1
  <2>3. /\ t[k].inicio = Libre(Inicios[k - 1], Tamanios[k]).inicio
        /\ t[k].fin = Libre(Inicios[k - 1], Tamanios[k]).fin
        /\ t[k].tamanio = Libre(Inicios[k - 1], Tamanios[k]).tamanio
    BY <1>2, <2>1 DEF Contigua
  <2>4. /\ t[k].inicio = Inicios[k - 1] /\ t[k].fin = Inicios[k - 1] + Tamanios[k] - 1
        /\ t[k].tamanio = Tamanios[k]
    BY <2>3 DEF Libre
  <2>5. k \in 0..N /\ k - 1 \in 0..N
    BY <1>1
  <2>6. Inicios[k] \in Nat /\ Inicios[k - 1] \in Nat /\ Tamanios[k] \in Nat
    BY <1>1, <2>5
  <2>7. t[k].fin = Inicios[k] - 1
    BY <2>2, <2>4, <2>6
  <2> QED BY <2>4, <2>7
<1>4. \A k \in 1..N : k - 1 \in 0..N /\ k \in 0..N /\ 1 \in 1..N /\ 1 \in 0..N /\ N \in 0..N
                      /\ 1 - 1 = 0
  BY <1>1
<1>5. ASSUME NEW k \in 1..N
      PROVE  /\ t[k].inicio \in Nat /\ t[k].fin \in Nat /\ t[k].tamanio \in Nat \ {0}
             /\ t[k].ocupada \in BOOLEAN /\ t[k].fin = t[k].inicio + t[k].tamanio - 1
             /\ t[k].fin \in 0..(TamMemoria - 1) /\ t[k].inicio \in 0..(TamMemoria - 1)
             /\ t[k].fin > 0 /\ t[k].inicio <= t[k].fin
  <2>1. /\ Inicios[k] = Inicios[k - 1] + Tamanios[k] /\ Inicios[k] \in Nat
        /\ Inicios[k - 1] \in Nat /\ Tamanios[k] \in Nat \ {0}
    BY <1>1, <1>4
  <2>2. Inicios[k] <= Inicios[N] /\ Inicios[1] <= Inicios[k]
    BY <1>1, <1>4, IniciosCrecen
  <2>3. Inicios[1] > 1
    <3>1. Inicios[1] = Inicios[0] + Tamanios[1] /\ Inicios[0] \in Nat /\ Tamanios[1] \in Nat
      BY <1>1, <1>4
    <3> QED BY <3>1, <1>1
  <2>4. Inicios[N] \in Nat /\ Inicios[1] \in Nat
    BY <1>1, <1>4
  <2>5. t[k].ocupada \in BOOLEAN
    BY <1>2 DEF Particion
  <2> DEFINE a == Inicios[k - 1]
             b == Tamanios[k]
             c == Inicios[k]
             m == Inicios[N]
             o == Inicios[1]
  <2>6. /\ t[k].inicio = a /\ t[k].fin = c - 1 /\ t[k].tamanio = b /\ c = a + b
        /\ a \in Nat /\ b \in Nat \ {0} /\ c \in Nat /\ m \in Nat /\ o \in Nat
        /\ c <= m /\ m <= TamMemoria /\ o <= c /\ o > 1 /\ TamMemoria \in Nat
    BY <1>1, <1>3, <2>1, <2>2, <2>3, <2>4
  <2> HIDE DEF N, a, b, c, m, o
  <2>7. c - 1 \in Nat /\ c - 1 = a + b - 1 /\ c - 1 \in 0..(TamMemoria - 1) /\ c - 1 > 0
        /\ a \in 0..(TamMemoria - 1) /\ a <= c - 1
    BY <2>6
  <2> QED BY <2>5, <2>6, <2>7
<1>6. ASSUME NEW j \in 1..N, NEW k \in 1..N, j < k PROVE t[j].fin < t[k].inicio
  <2>1. j <= k - 1
    BY <1>6
  <2>2. Inicios[j] <= Inicios[k - 1] /\ Inicios[j] \in Nat /\ Inicios[k - 1] \in Nat
    BY <1>1, <1>4, <2>1, IniciosCrecen
  <2> QED BY <1>3, <2>2
<1> QED BY <1>1, <1>2, <1>5, <1>6

LEMMA InicialContigua ==
  ASSUME Esquema = "FIJAS"
  PROVE  Contigua(TablaInicial) /\ \A k \in 1..Len(TablaInicial) : ~TablaInicial[k].ocupada
<1> DEFINE N == Len(Tamanios)
<1>1. /\ N \in Nat \ {0} /\ TamMemoria \in Nat /\ Inicios[N] <= TamMemoria
      /\ \A n \in 1..N : Tamanios[n] \in 1..TamMemoria
      /\ Inicios \in [0..N -> Nat]
      /\ \A n \in 1..N : Inicios[n] = Inicios[n - 1] + Tamanios[n]
  <2>1. Tamanios \in Seq(1..TamMemoria) /\ TamMemoria \in Nat /\ Tamanios # <<>>
        /\ Inicios[N] <= TamMemoria
    BY ConstantesParticiones, ConstantesFijas
  <2>2. \A n \in 1..N : Tamanios[n] \in 1..TamMemoria
    BY <2>1, ElementOfSeq
  <2>3. N \in Nat \ {0}
    BY <2>1, LenProperties, EmptySeq
  <2> QED BY <2>1, <2>2, <2>3, IniciosSuma
<1>2. ASSUME NEW k \in 1..N
      PROVE  Libre(Inicios[k - 1], Tamanios[k]) \in Particion
             /\ ~Libre(Inicios[k - 1], Tamanios[k]).ocupada
  <2>1. k \in 0..N /\ k - 1 \in 0..N /\ N \in 0..N /\ k <= N
    BY <1>1
  <2>2. Inicios[k] <= Inicios[N] /\ Inicios[k] \in Nat /\ Inicios[k - 1] \in Nat
        /\ Inicios[N] \in Nat
    BY <1>1, <2>1, IniciosCrecen
  <2>3. Inicios[k] = Inicios[k - 1] + Tamanios[k] /\ Tamanios[k] \in 1..TamMemoria
    BY <1>1
  <2> DEFINE a == Inicios[k - 1]
             b == Tamanios[k]
  <2>4. a \in Nat /\ b \in 1..TamMemoria /\ a + b <= TamMemoria
    BY <1>1, <2>2, <2>3
  <2> HIDE DEF a, b
  <2>5. Libre(a, b) \in Particion /\ ~Libre(a, b).ocupada
    BY <1>1, <2>4 DEF Libre, Particion, Bytes
  <2> QED BY <2>5 DEF a, b
<1> HIDE DEF N
<1>3. TablaInicial = Fijas /\ Fijas = [k \in 1..N |-> Libre(Inicios[k - 1], Tamanios[k])]
  BY DEF TablaInicial, Fijas, N
<1>4. Fijas \in [1..N -> Particion] /\ \A k \in 1..N : ~Fijas[k].ocupada
  BY <1>2, <1>3
<1>5. Fijas \in Seq(Particion) /\ Len(Fijas) = N
  BY <1>1, <1>3, <1>4
<1> QED BY <1>3, <1>4, <1>5 DEF Contigua, N

\* The first of the lightest ones.
LEMMA MasLiviana ==
  ASSUME NEW C \in SUBSET Nat, C # {}, NEW w \in [C -> Nat]
  PROVE  \E k \in C : \A m \in C : w[k] < w[m] \/ (w[k] = w[m] /\ k <= m)
<1> DEFINE W == {w[k] : k \in C}
           x == Min(W)
           D == {k \in C : w[k] = x}
           z == Min(D)
<1>1. x \in W /\ \A y \in W : x <= y
  <2>1. W \in SUBSET Nat /\ W # {}
    OBVIOUS
  <2> HIDE DEF W
  <2> QED BY <2>1, MinimoExiste
<1> HIDE DEF x
<1>2. z \in D /\ \A y \in D : z <= y
  <2>1. D \in SUBSET Nat /\ D # {}
    BY <1>1
  <2> HIDE DEF D
  <2> QED BY <2>1, MinimoExiste
<1> HIDE DEF z
<1>3. ASSUME NEW m \in C PROVE w[z] < w[m] \/ (w[z] = w[m] /\ z <= m)
  <2>1. w[z] = x /\ x <= w[m] /\ x \in Nat /\ w[m] \in Nat
    BY <1>1, <1>2
  <2>2. CASE w[m] = x
    BY <1>2, <2>1, <2>2
  <2>3. CASE w[m] # x
    BY <2>1, <2>3
  <2> QED BY <2>2, <2>3
<1> QED BY <1>2, <1>3

\* The search returns one of the candidates (algoritmos_*.c).
LEMMA ElegidaCandidata ==
  ASSUME NEW t, t \in Seq(Particion), NEW n, Candidatas(t, n) # {}
  PROVE  Elegida(t, n) \in Candidatas(t, n)
<1> DEFINE C == Candidatas(t, n)
<1>1. /\ C \in SUBSET Nat /\ TamMemoria \in Nat
      /\ \A k \in C : t[k].tamanio \in Nat /\ TamMemoria - t[k].tamanio \in Nat
  <2>1. DOMAIN t = 1..Len(t) /\ Len(t) \in Nat /\ TamMemoria \in Nat
    BY LenProperties, ConstantesParticiones
  <2>2. \A k \in 1..Len(t) : t[k].tamanio \in 1..TamMemoria
    <3>1. \A k \in 1..Len(t) : t[k] \in Particion
      BY ElementOfSeq
    <3> QED BY <3>1 DEF Particion
  <2> QED BY <2>1, <2>2 DEF Candidatas
<1>2. \A k \in C : t[k].tamanio \in Nat /\ TamMemoria - t[k].tamanio \in Nat
  BY <1>1
<1> HIDE DEF C
<1>3. \E k \in C : \A m \in C : Prefiere(t, k, m)
  <2>1. CASE Busqueda = "FIRST"
    <3>1. Min(C) \in C /\ \A m \in C : Min(C) <= m
      BY <1>1, MinimoExiste DEF C
    <3> QED BY <2>1, <3>1 DEF Prefiere
  <2>2. CASE Busqueda = "BEST"
    <3> DEFINE w == [k \in C |-> t[k].tamanio]
    <3>1. w \in [C -> Nat]
      BY <1>2
    <3>2. PICK k \in C : \A m \in C : w[k] < w[m] \/ (w[k] = w[m] /\ k <= m)
      BY <1>1, <3>1, MasLiviana DEF C
    <3> QED BY <2>2, <3>2 DEF Prefiere
  <2>3. CASE Busqueda = "WORST"
    <3> DEFINE w == [k \in C |-> TamMemoria - t[k].tamanio]
    <3>1. w \in [C -> Nat]
      BY <1>2
    <3>2. PICK k \in C : \A m \in C : w[k] < w[m] \/ (w[k] = w[m] /\ k <= m)
      BY <1>1, <3>1, MasLiviana DEF C
    <3>3. ASSUME NEW m \in C PROVE Prefiere(t, k, m)
      <4>1. \/ TamMemoria - t[k].tamanio < TamMemoria - t[m].tamanio
            \/ TamMemoria - t[k].tamanio = TamMemoria - t[m].tamanio /\ k <= m
        BY <3>2
      <4>2. /\ t[k].tamanio \in Nat /\ t[m].tamanio \in Nat /\ TamMemoria \in Nat
        BY <1>2, ConstantesParticiones
      <4>3. t[k].tamanio > t[m].tamanio \/ (t[k].tamanio = t[m].tamanio /\ k <= m)
        BY <4>1, <4>2
      <4> QED BY <2>3, <4>3 DEF Prefiere
    <3> QED BY <3>3
  <2> QED BY <2>1, <2>2, <2>3, ConstantesParticiones
<1> QED BY <1>3 DEF Elegida, C

-----------------------------------------------------------------------------
(* The ranges of the processes under FIJAS                                 *)

\* The context c names an occupied partition of at least n bytes.
Tiene(t, c, n) ==
    \E k \in 1..Len(t) : /\ t[k].inicio = c.base /\ t[k].fin = c.limite
                         /\ t[k].ocupada /\ t[k].tamanio >= n

\* The partition CREAR_PROCESO holds: large enough, and of no admitted process.
EnMano ==
    "LP" \in Clientes /\ pc["LP"] \in {"marca", "divide", "publica"} =>
        \E k \in 1..Len(tablaParticiones) :
            LET r == tablaParticiones[k] IN
            /\ r.inicio = loc["LP"].particion /\ r.tamanio >= Tamano[loc["LP"].pid]
            /\ r.ocupada <=> pc["LP"] # "marca"
            /\ \A q \in Alojados : contexto[<<q, 0>>].base # r.inicio

Tipado ==
    /\ \A h \in DOMAIN contexto : contexto[h] \in Rango
    /\ loc \in [Clientes -> Locales] /\ fallo \in Fallos

Fija ==
    /\ Contigua(tablaParticiones) /\ Tipado
    /\ \A c \in Clientes : pc[c] # "funde"
    /\ \A p \in Alojados : Tiene(tablaParticiones, contexto[<<p, 0>>], Tamano[p])
    /\ \A p, q \in Alojados : p # q => contexto[<<p, 0>>].base # contexto[<<q, 0>>].base
    /\ \A p \in Procesos : <<p, 0>> \in DOMAIN contexto /\ p \notin Alojados
                              => contexto[<<p, 0>>] = SinRango
    /\ EnMano

Mapa == [p \in Alojados |-> contexto[<<p, 0>>]]

\* What a step of memoria may do to the ranges of the processes it has admitted.
Cambio(r, s) ==
    \/ r = s
    \/ \E p \in Procesos :
        /\ p \notin DOMAIN r
        /\ \E b, l \in 0..(TamMemoria - 1) :
            /\ l - b + 1 >= Tamano[p]
            /\ \A q \in DOMAIN r : Promesa!Disjuntos([base |-> b, limite |-> l], r[q])
            /\ s = [q \in DOMAIN r \cup {p} |->
                        IF q = p THEN [base |-> b, limite |-> l] ELSE r[q]]
    \/ \E p \in Procesos : p \in DOMAIN r /\ s = [q \in DOMAIN r \ {p} |-> r[q]]

LEMMA CambioMenos ==
  ASSUME NEW x, Alojados' = Alojados \ {x},
         \A q \in Alojados' : contexto'[<<q, 0>>] = contexto[<<q, 0>>]
  PROVE  Cambio(Mapa, Mapa')
<1>1. Alojados \subseteq Procesos
  BY DEF Alojados
<1>2. Mapa' = [q \in Alojados \ {x} |-> contexto[<<q, 0>>]]
  BY DEF Mapa
<1>3. DOMAIN Mapa = Alojados /\ \A q \in Alojados : Mapa[q] = contexto[<<q, 0>>]
  BY DEF Mapa
<1>4. CASE x \notin Alojados
  <2>1. Mapa' = Mapa
    BY <1>2, <1>4 DEF Mapa
  <2> QED BY <2>1 DEF Cambio
<1>5. CASE x \in Alojados
  <2>1. Mapa' = [q \in DOMAIN Mapa \ {x} |-> Mapa[q]]
    BY <1>2, <1>3
  <2> QED BY <1>1, <1>3, <1>5, <2>1 DEF Cambio
<1> QED BY <1>4, <1>5

\* The steps that leave the table and the ranges alone, or drop a context
LEMMA FijaQuieta ==
  ASSUME Fija, NEW c \in Clientes, Toca(c), UNCHANGED tablaParticiones, Tipado',
         pc'[c] # "funde",
         \A q \in Procesos : <<q, 0>> \in DOMAIN contexto' =>
            <<q, 0>> \in DOMAIN contexto /\ contexto'[<<q, 0>>] = contexto[<<q, 0>>],
         NEW x,
         \A q \in Procesos : <<q, 0>> \in DOMAIN contexto =>
            <<q, 0>> \in DOMAIN contexto' \/ q = x,
         pc[c] \in Devolviendo /\ <<loc[c].pid, 0>> \in DOMAIN contexto' =>
            pc'[c] \in Devolviendo /\ loc'[c].pid = loc[c].pid,
         pc'[c] \in Devolviendo =>
            \/ pc[c] \in Devolviendo /\ loc'[c].pid = loc[c].pid
            \/ <<loc'[c].pid, 0>> \notin DOMAIN contexto'
            \/ loc'[c].pid \notin Alojados,
         c # "LP" \/ EnMano'
  PROVE  Fija' /\ Cambio(Mapa, Mapa')
<1>1. \A p : p \in Alojados <=> /\ p \in Procesos /\ <<p, 0>> \in DOMAIN contexto
                                /\ \A d \in Clientes : ~(loc[d].pid = p /\ pc[d] \in Devolviendo)
  BY DEF Alojados, EsContexto, Devuelto, Devolviendo
<1>2. \A p : p \in Alojados' <=>
                /\ p \in Procesos /\ <<p, 0>> \in DOMAIN contexto'
                /\ \A d \in Clientes : ~(loc'[d].pid = p /\ pc'[d] \in Devolviendo)
  BY DEF Alojados, EsContexto, Devuelto, Devolviendo
<1>3. \A d \in Clientes : d # c => pc'[d] = pc[d] /\ loc'[d] = loc[d]
  BY DEF Toca
<1>4. ASSUME NEW q \in Alojados' PROVE q \in Alojados /\ contexto'[<<q, 0>>] = contexto[<<q, 0>>]
  BY <1>1, <1>2, <1>3, <1>4
<1>5. ASSUME NEW q \in Alojados, <<q, 0>> \in DOMAIN contexto' PROVE q \in Alojados'
  BY <1>1, <1>2, <1>3, <1>5
<1>6. ASSUME x \in Alojados, <<x, 0>> \notin DOMAIN contexto'
      PROVE  Cambio(Mapa, Mapa')
  <2>1. x \notin Alojados'
    BY <1>2, <1>6
  <2>2. ASSUME NEW q \in Alojados, q # x PROVE q \in Alojados'
    BY <1>1, <1>5, <2>2
  <2>3. Alojados' = Alojados \ {x}
    BY <1>4, <2>1, <2>2
  <2> QED BY <1>4, <2>3, CambioMenos
<1>7. ASSUME ~(x \in Alojados /\ <<x, 0>> \notin DOMAIN contexto')
      PROVE  Cambio(Mapa, Mapa')
  <2>1. ASSUME NEW q \in Alojados PROVE q \in Alojados'
    BY <1>1, <1>5, <1>7, <2>1
  <2>2. Alojados' = Alojados
    BY <1>4, <2>1
  <2>3. Mapa' = Mapa
    BY <1>4, <2>2 DEF Mapa
  <2> QED BY <2>3 DEF Cambio
<1>8. /\ Contigua(tablaParticiones) /\ \A d \in Clientes : pc[d] # "funde"
      /\ \A p \in Alojados : Tiene(tablaParticiones, contexto[<<p, 0>>], Tamano[p])
      /\ \A p, q \in Alojados : p # q => contexto[<<p, 0>>].base # contexto[<<q, 0>>].base
      /\ \A p \in Procesos : <<p, 0>> \in DOMAIN contexto /\ p \notin Alojados
                                => contexto[<<p, 0>>] = SinRango
  BY DEF Fija
<1>9. \A d \in Clientes : pc'[d] # "funde"
  BY <1>3, <1>8
<1>10. \A p \in Alojados' : Tiene(tablaParticiones', contexto'[<<p, 0>>], Tamano[p])
  BY <1>4, <1>8
<1>11. \A p, q \in Alojados' : p # q => contexto'[<<p, 0>>].base # contexto'[<<q, 0>>].base
  BY <1>4, <1>8
<1>12. \A p \in Procesos : <<p, 0>> \in DOMAIN contexto' /\ p \notin Alojados'
                              => contexto'[<<p, 0>>] = SinRango
  BY <1>5, <1>8
<1>13. EnMano'
  <2>1. CASE c # "LP"
    <3> SUFFICES ASSUME "LP" \in Clientes, pc'["LP"] \in {"marca", "divide", "publica"}
                 PROVE  \E k \in 1..Len(tablaParticiones) :
                           /\ tablaParticiones[k].inicio = loc["LP"].particion
                           /\ tablaParticiones[k].tamanio >= Tamano[loc["LP"].pid]
                           /\ tablaParticiones[k].ocupada <=> pc["LP"] # "marca"
                           /\ \A q \in Alojados' :
                                 contexto'[<<q, 0>>].base # tablaParticiones[k].inicio
      BY <1>3, <2>1 DEF EnMano
    <3>1. pc["LP"] \in {"marca", "divide", "publica"}
      BY <1>3, <2>1
    <3>2. PICK k \in 1..Len(tablaParticiones) :
             /\ tablaParticiones[k].inicio = loc["LP"].particion
             /\ tablaParticiones[k].tamanio >= Tamano[loc["LP"].pid]
             /\ tablaParticiones[k].ocupada <=> pc["LP"] # "marca"
             /\ \A q \in Alojados : contexto[<<q, 0>>].base # tablaParticiones[k].inicio
      BY <3>1 DEF Fija, EnMano
    <3> QED BY <1>4, <3>2
  <2> QED BY <2>1
<1>14. Contigua(tablaParticiones')
  BY <1>8
<1>15. Fija'
  BY <1>9, <1>10, <1>11, <1>12, <1>13, <1>14 DEF Fija
<1> QED BY <1>6, <1>7, <1>15

LEMMA FijaPedir ==
  ASSUME Protocolo, Fija, NEW c \in Clientes, NEW p \in Procesos, NEW t \in Hebras,
         NEW e \in {"entra", "crea_hilo", "fin_hilo", "fin_proceso", "dump"},
         Pedir(c, p, t, e)
  PROVE  Fija' /\ Cambio(Mapa, Mapa')
<1>1. Forma /\ e \in Etiquetas /\ loc \in [Clientes -> Locales]
  BY DEF Protocolo, Etiquetas, Fija, Tipado
<1>2. Toca(c) /\ pc[c] = "libre" /\ pc'[c] = e
  BY <1>1, DatosPedir
<1>3. /\ UNCHANGED <<tablaParticiones, contexto, fallo>>
      /\ loc' = [loc EXCEPT ![c].pid = p, ![c].tid = t]
  BY DEF Pedir
<1>4. loc' \in [Clientes -> Locales]
  BY <1>1, <1>3 DEF Locales
<1>5. Tipado'
  BY <1>3, <1>4 DEF Fija, Tipado
<1>6. c # "LP" \/ EnMano'
  BY <1>2 DEF EnMano
<1> QED BY <1>2, <1>3, <1>5, <1>6, FijaQuieta DEF Devolviendo

\* A partition is told apart by where it starts.
LEMMA Distintas ==
  ASSUME Esquema = "FIJAS", NEW t, Contigua(t), NEW i \in 1..Len(t), NEW j \in 1..Len(t),
         t[i].inicio = t[j].inicio
  PROVE  i = j
<1>1. Len(t) \in Nat /\ t[i].inicio \in Nat /\ t[i].fin \in Nat /\ t[j].inicio \in Nat
      /\ t[j].fin \in Nat
  BY Separadas
<1>2. t[i].inicio <= t[i].fin /\ t[j].inicio <= t[j].fin
  BY Separadas
<1>3. (i < j => t[i].fin < t[j].inicio) /\ (j < i => t[j].fin < t[i].inicio)
  BY Separadas
<1> QED BY <1>1, <1>2, <1>3

LEMMA PosicionUnica ==
  ASSUME Esquema = "FIJAS", Contigua(tablaParticiones),
         NEW k \in 1..Len(tablaParticiones), NEW x, tablaParticiones[k].inicio = x
  PROVE  Posicion(x) = k
<1> DEFINE t == tablaParticiones
           ks == {m \in DOMAIN t : t[m].inicio = x}
<1>1. DOMAIN t = 1..Len(t)
  BY Separadas
<1>2. k \in ks /\ \A m \in ks : m = k
  BY <1>1, Distintas
<1>3. ks = {k}
  BY <1>2
<1>4. (CHOOSE m \in ks : TRUE) = k
  BY <1>3
<1> HIDE DEF ks
<1>5. ks # {}
  BY <1>2
<1> QED BY <1>4, <1>5 DEF ks, Posicion

ConMarca(t, k, v) == [t EXCEPT ![k].ocupada = v]

\* Marking a partition changes nothing else.
LEMMA Marcada ==
  ASSUME Esquema = "FIJAS", NEW t, Contigua(t), NEW k \in 1..Len(t), NEW v \in BOOLEAN,
         NEW u, u = ConMarca(t, k, v)
  PROVE  /\ Contigua(u) /\ Len(u) = Len(t)
         /\ \A j \in 1..Len(t) : j # k => u[j] = t[j]
         /\ u[k].inicio = t[k].inicio /\ u[k].fin = t[k].fin
         /\ u[k].tamanio = t[k].tamanio /\ u[k].ocupada = v
<1> DEFINE r == [t[k] EXCEPT !.ocupada = v]
<1>1. r \in Particion /\ r.inicio = t[k].inicio /\ r.fin = t[k].fin
      /\ r.tamanio = t[k].tamanio /\ r.ocupada = v
  <2>1. t[k] \in Particion
    BY Separadas
  <2> QED BY <2>1 DEF Particion
<1>2. u = [t EXCEPT ![k] = r]
  BY DEF ConMarca
<1> HIDE DEF r
<1>3. t \in Seq(Particion)
  BY DEF Contigua
<1>4. /\ u \in Seq(Particion) /\ Len(u) = Len(t)
      /\ \A j \in 1..Len(t) : u[j] = IF j = k THEN r ELSE t[j]
  BY <1>1, <1>2, <1>3, ExceptSeq
<1>5. \A j \in 1..Len(t) : /\ u[j].inicio = t[j].inicio /\ u[j].fin = t[j].fin
                           /\ u[j].tamanio = t[j].tamanio
  BY <1>1, <1>4
<1>6. Contigua(u)
  BY <1>4, <1>5 DEF Contigua
<1> QED BY <1>1, <1>4, <1>6

LEMMA FijaEntra ==
  ASSUME Protocolo, Fija, "LP" \in Clientes, Entra
  PROVE  Fija' /\ Cambio(Mapa, Mapa')
<1>1. /\ Forma /\ pc["LP"] = "entra" /\ UNCHANGED <<tablaParticiones, contexto, loc, fallo>>
      /\ \/ pc' = [pc EXCEPT !["LP"] = "busca"]
         \/ pc' = [pc EXCEPT !["LP"] = "libre"]
  BY DEF Entra, En, Va, Responde, Protocolo
<1>2. Toca("LP") /\ pc'["LP"] \in {"busca", "libre"}
  BY <1>1 DEF Toca, Forma
<1>3. Tipado'
  BY <1>1 DEF Fija, Tipado
<1>4. EnMano'
  BY <1>2 DEF EnMano
<1> QED BY <1>1, <1>2, <1>3, <1>4, FijaQuieta DEF Devolviendo

\* The partition of an admitted process is not free.
LEMMA NoEsDeNadie ==
  ASSUME Esquema = "FIJAS", Fija, NEW k \in 1..Len(tablaParticiones),
         ~tablaParticiones[k].ocupada, NEW q \in Alojados
  PROVE  contexto[<<q, 0>>].base # tablaParticiones[k].inicio
<1>1. Contigua(tablaParticiones) /\ Tiene(tablaParticiones, contexto[<<q, 0>>], Tamano[q])
  BY DEF Fija
<1>2. PICK j \in 1..Len(tablaParticiones) :
         /\ tablaParticiones[j].inicio = contexto[<<q, 0>>].base
         /\ tablaParticiones[j].ocupada
  BY <1>1 DEF Tiene
<1> QED BY <1>1, <1>2, Distintas

LEMMA AlojadosIgual ==
  ASSUME NEW c \in Clientes, Toca(c), UNCHANGED contexto,
         pc[c] \notin Devolviendo, pc'[c] \notin Devolviendo
  PROVE  Alojados' = Alojados
<1>1. ASSUME NEW p, NEW d \in Clientes
      PROVE  (loc'[d].pid = p /\ pc'[d] \in Devolviendo)
                <=> (loc[d].pid = p /\ pc[d] \in Devolviendo)
  <2>1. CASE d = c
    BY <2>1
  <2>2. CASE d # c
    BY <2>2 DEF Toca
  <2> QED BY <2>1, <2>2
<1>2. \A p \in Procesos : Devuelto(p)' <=> Devuelto(p)
  BY <1>1 DEF Devuelto, Devolviendo
<1> QED BY <1>2 DEF Alojados, EsContexto

LEMMA FijaBusca ==
  ASSUME Esquema = "FIJAS", Protocolo, Fija, "LP" \in Clientes, Busca
  PROVE  Fija' /\ Cambio(Mapa, Mapa')
<1> DEFINE t == tablaParticiones
           n == Tamano[loc["LP"].pid]
           k == Elegida(t, n)
           x == t[k].inicio
<1>1. Forma /\ pc["LP"] = "busca" /\ UNCHANGED <<tablaParticiones, contexto, fallo>>
  BY DEF Busca, En, Protocolo
<1>2. Contigua(t) /\ loc \in [Clientes -> Locales]
  BY DEF Fija, Tipado
<1>3. CASE pc' = [pc EXCEPT !["LP"] = "libre"] /\ UNCHANGED loc
  <2>1. Toca("LP") /\ pc'["LP"] = "libre"
    BY <1>1, <1>3 DEF Toca, Forma
  <2>2. Tipado'
    BY <1>1, <1>3 DEF Fija, Tipado
  <2>3. EnMano'
    BY <2>1 DEF EnMano
  <2> QED BY <1>1, <2>1, <2>2, <2>3, FijaQuieta DEF Devolviendo
<1>4. CASE /\ Candidatas(t, n) # {} /\ pc' = [pc EXCEPT !["LP"] = "marca"]
           /\ loc' = [loc EXCEPT !["LP"].particion = x]
  <2>1. k \in Candidatas(t, n)
    <3>1. t \in Seq(Particion)
      BY <1>2 DEF Contigua
    <3> HIDE DEF t, n
    <3> QED BY <1>4, <3>1, ElegidaCandidata
  <2> HIDE DEF k
  <2>2. k \in 1..Len(t) /\ ~t[k].ocupada /\ t[k].tamanio >= n
    BY <1>2, <2>1, Separadas DEF Candidatas
  <2>3. x \in Nat
    BY <1>2, <2>2, Separadas
  <2> HIDE DEF x
  <2>4. /\ loc' \in [Clientes -> Locales] /\ loc'["LP"].pid = loc["LP"].pid
        /\ loc'["LP"].particion = x /\ Toca("LP") /\ pc'["LP"] = "marca"
    BY <1>1, <1>2, <1>4, <2>3 DEF Locales, Forma, Toca
  <2>5. Tipado'
    BY <1>1, <2>4 DEF Fija, Tipado
  <2>6. Alojados' = Alojados
    BY <1>1, <2>4, AlojadosIgual DEF Devolviendo
  <2>7. \A q \in Alojados' : contexto'[<<q, 0>>].base # t[k].inicio
    BY <1>1, <2>2, <2>6, NoEsDeNadie
  <2>8. EnMano'
    BY <1>1, <2>2, <2>4, <2>7 DEF EnMano, x
  <2> QED BY <1>1, <2>4, <2>5, <2>8, FijaQuieta DEF Devolviendo
<1> QED BY <1>3, <1>4 DEF Busca, Va, Responde

\* EnMano, for a step of CREAR_PROCESO that has its partition
LEMMA Tomada ==
  ASSUME Esquema = "FIJAS", Fija, "LP" \in Clientes, pc["LP"] \in {"marca", "divide", "publica"}
  PROVE  \E k \in 1..Len(tablaParticiones) :
            /\ Posicion(loc["LP"].particion) = k /\ k # 0
            /\ tablaParticiones[k].inicio = loc["LP"].particion
            /\ tablaParticiones[k].tamanio >= Tamano[loc["LP"].pid]
            /\ tablaParticiones[k].ocupada <=> pc["LP"] # "marca"
            /\ \A q \in Alojados : contexto[<<q, 0>>].base # tablaParticiones[k].inicio
<1>1. Contigua(tablaParticiones)
  BY DEF Fija
<1>2. PICK k \in 1..Len(tablaParticiones) :
            /\ tablaParticiones[k].inicio = loc["LP"].particion
            /\ tablaParticiones[k].tamanio >= Tamano[loc["LP"].pid]
            /\ tablaParticiones[k].ocupada <=> pc["LP"] # "marca"
            /\ \A q \in Alojados : contexto[<<q, 0>>].base # tablaParticiones[k].inicio
  BY DEF Fija, EnMano
<1>3. Posicion(loc["LP"].particion) = k
  BY <1>1, <1>2, PosicionUnica
<1>4. k # 0
  BY <1>1, Separadas
<1> QED BY <1>2, <1>3, <1>4

LEMMA FijaMarca ==
  ASSUME Esquema = "FIJAS", Protocolo, Fija, "LP" \in Clientes, Marca
  PROVE  Fija' /\ Cambio(Mapa, Mapa')
<1> DEFINE t == tablaParticiones
<1>1. /\ Forma /\ pc["LP"] = "marca" /\ UNCHANGED <<contexto, proceso, loc>>
      /\ Contigua(t)
  BY DEF Marca, En, Protocolo, Fija
<1>2. PICK k \in 1..Len(t) :
            /\ Posicion(loc["LP"].particion) = k /\ k # 0
            /\ t[k].inicio = loc["LP"].particion /\ t[k].tamanio >= Tamano[loc["LP"].pid]
            /\ \A q \in Alojados : contexto[<<q, 0>>].base # t[k].inicio
  BY <1>1, Tomada
<1>3. /\ t' = ConMarca(t, k, TRUE) /\ pc' = [pc EXCEPT !["LP"] = "divide"]
      /\ UNCHANGED fallo
  BY <1>2, Zenon DEF Marca, Va, ConMarca
<1>4. Toca("LP") /\ pc'["LP"] = "divide"
  BY <1>1, <1>3 DEF Toca, Forma
<1>5. Alojados' = Alojados
  BY <1>1, <1>4, AlojadosIgual DEF Devolviendo
<1> DEFINE u == t'
<1>6. /\ Contigua(u) /\ Len(u) = Len(t)
      /\ \A j \in 1..Len(t) : j # k => u[j] = t[j]
      /\ u[k].inicio = t[k].inicio /\ u[k].fin = t[k].fin
      /\ u[k].tamanio = t[k].tamanio /\ u[k].ocupada = TRUE
  <2>1. PICK v \in BOOLEAN : v = TRUE
    OBVIOUS
  <2>2. u = ConMarca(t, k, v) /\ Contigua(t)
    BY <1>1, <1>3, <2>1
  <2> HIDE DEF t, u
  <2>3. /\ Contigua(u) /\ Len(u) = Len(t)
        /\ \A j \in 1..Len(t) : j # k => u[j] = t[j]
        /\ u[k].inicio = t[k].inicio /\ u[k].fin = t[k].fin
        /\ u[k].tamanio = t[k].tamanio /\ u[k].ocupada = v
    BY <2>2, Marcada
  <2> QED BY <2>1, <2>3
<1> HIDE DEF u
<1>7. ASSUME NEW p \in Alojados PROVE Tiene(u, contexto[<<p, 0>>], Tamano[p])
  <2>1. PICK j \in 1..Len(t) : /\ t[j].inicio = contexto[<<p, 0>>].base
                               /\ t[j].fin = contexto[<<p, 0>>].limite
                               /\ t[j].ocupada /\ t[j].tamanio >= Tamano[p]
    BY DEF Fija, Tiene
  <2> QED BY <1>2, <1>6, <2>1 DEF Tiene
<1>8. Tipado'
  BY <1>1, <1>3 DEF Fija, Tipado
<1>9. \A d \in Clientes : pc'[d] # "funde"
  BY <1>4 DEF Toca, Fija
<1>10. EnMano'
  <2>1. /\ u[k].inicio = loc'["LP"].particion /\ u[k].tamanio >= Tamano[loc'["LP"].pid]
        /\ u[k].ocupada <=> pc'["LP"] # "marca"
        /\ \A q \in Alojados' : contexto'[<<q, 0>>].base # u[k].inicio
    BY <1>1, <1>2, <1>4, <1>5, <1>6
  <2> QED BY <1>6, <2>1 DEF EnMano, u
<1>11. Fija'
  <2>1. \A p, q \in Alojados' : p # q => contexto'[<<p, 0>>].base # contexto'[<<q, 0>>].base
    BY <1>1, <1>5 DEF Fija
  <2>2. \A p \in Procesos : <<p, 0>> \in DOMAIN contexto' /\ p \notin Alojados'
                              => contexto'[<<p, 0>>] = SinRango
    BY <1>1, <1>5 DEF Fija
  <2>3. Contigua(u) /\ \A p \in Alojados' : Tiene(u, contexto'[<<p, 0>>], Tamano[p])
    BY <1>1, <1>5, <1>6, <1>7
  <2> QED BY <1>8, <1>9, <1>10, <2>1, <2>2, <2>3 DEF Fija, u
<1>12. Mapa' = Mapa
  BY <1>1, <1>5 DEF Mapa
<1> QED BY <1>11, <1>12 DEF Cambio

LEMMA FijaDivide ==
  ASSUME Esquema = "FIJAS", Protocolo, Fija, "LP" \in Clientes, Divide
  PROVE  Fija' /\ Cambio(Mapa, Mapa')
<1> DEFINE t == tablaParticiones
<1>1. /\ Forma /\ pc["LP"] = "divide" /\ UNCHANGED <<contexto, proceso, loc>>
  BY DEF Divide, En, Protocolo
<1>2. PICK k \in 1..Len(t) :
            /\ Posicion(loc["LP"].particion) = k /\ k # 0
            /\ t[k].inicio = loc["LP"].particion /\ t[k].tamanio >= Tamano[loc["LP"].pid]
            /\ t[k].ocupada
            /\ \A q \in Alojados : contexto[<<q, 0>>].base # t[k].inicio
  BY <1>1, Tomada
<1>3. t' = Dividida(t, k, Tamano[loc["LP"].pid]) /\ pc' = [pc EXCEPT !["LP"] = "publica"]
      /\ UNCHANGED fallo
  BY <1>2, Zenon DEF Divide, Va
<1>4. t' = t
  BY <1>3 DEF Dividida
<1>5. Toca("LP") /\ pc'["LP"] = "publica"
  BY <1>1, <1>3 DEF Toca, Forma
<1>6. Alojados' = Alojados
  BY <1>1, <1>5, AlojadosIgual DEF Devolviendo
<1>7. Tipado'
  BY <1>1, <1>3 DEF Fija, Tipado
<1>8. EnMano'
  BY <1>1, <1>2, <1>4, <1>5, <1>6 DEF EnMano
<1> QED BY <1>1, <1>4, <1>5, <1>7, <1>8, FijaQuieta DEF Devolviendo

\* Another partition does not share a byte with the one at k.
LEMMA OtraDisjunta ==
  ASSUME Esquema = "FIJAS", NEW t, Contigua(t), NEW k \in 1..Len(t), NEW r, NEW n,
         Tiene(t, r, n), r.base # t[k].inicio
  PROVE  Promesa!Disjuntos([base |-> t[k].inicio, limite |-> t[k].fin], r)
<1>1. PICK j \in 1..Len(t) : t[j].inicio = r.base /\ t[j].fin = r.limite
  BY DEF Tiene
<1>2. Len(t) \in Nat /\ (j < k => t[j].fin < t[k].inicio) /\ (k < j => t[k].fin < t[j].inicio)
  BY Separadas
<1>3. j # k
  BY <1>1
<1>4. t[j].fin < t[k].inicio \/ t[k].fin < t[j].inicio
  BY <1>2, <1>3
<1> QED BY <1>1, <1>4 DEF Promesa!Disjuntos

LEMMA FijaPublica ==
  ASSUME Esquema = "FIJAS", Protocolo, Fija, "LP" \in Clientes, Publica
  PROVE  Fija' /\ Cambio(Mapa, Mapa')
<1> DEFINE t == tablaParticiones
           p == loc["LP"].pid
           h == <<p, 0>>
<1>1. /\ Forma /\ pc["LP"] = "publica" /\ UNCHANGED <<tablaParticiones, loc>>
      /\ Contigua(t)
  BY DEF Publica, En, Protocolo, Fija
<1>2. PICK k \in 1..Len(t) :
            /\ Posicion(loc["LP"].particion) = k /\ k # 0
            /\ t[k].tamanio >= Tamano[p] /\ t[k].ocupada
            /\ \A q \in Alojados : contexto[<<q, 0>>].base # t[k].inicio
  BY <1>1, Tomada
<1> DEFINE r == [base |-> t[k].inicio, limite |-> t[k].fin]
<1>3. /\ \/ contexto' = ConContexto(h, r) /\ Responde("LP", p, "ready")
         \/ contexto' = contexto /\ Responde("LP", p, "exit")
      /\ UNCHANGED fallo
  BY <1>2, Zenon DEF Publica
<1>4. pc' = [pc EXCEPT !["LP"] = "libre"]
  BY <1>3 DEF Responde, Va
<1>5. Toca("LP") /\ pc'["LP"] = "libre"
  BY <1>1, <1>4 DEF Forma, Toca
<1>6. EnMano'
  BY <1>5 DEF EnMano
<1>7. CASE contexto' = contexto
  <2>1. Tipado'
    BY <1>1, <1>3, <1>7 DEF Fija, Tipado
  <2> QED BY <1>1, <1>5, <1>6, <1>7, <2>1, FijaQuieta DEF Devolviendo
<1>8. CASE contexto' = ConContexto(h, r)
  <2>1. p \in Procesos /\ proceso[p] = "new"
    BY <1>1 DEF Protocolo, EnRegla, DeAlta
  <2>2. h \notin DOMAIN contexto
    <3>1. h[1] = p
      OBVIOUS
    <3> HIDE DEF h
    <3> QED BY <2>1, <3>1 DEF Protocolo
  <2>3. /\ DOMAIN contexto' = DOMAIN contexto \cup {h} /\ contexto'[h] = r
        /\ \A g \in DOMAIN contexto : g # h => contexto'[g] = contexto[g]
    BY <1>8 DEF ConContexto
  <2>4. ASSUME NEW d \in Clientes, loc[d].pid = p PROVE pc[d] \notin Devolviendo
    BY <2>1, <2>4 DEF Protocolo, EnRegla, DeAlta, Devolviendo
  <2>5. \A q : q \in Alojados <=> /\ q \in Procesos /\ <<q, 0>> \in DOMAIN contexto
                                  /\ \A d \in Clientes : ~(loc[d].pid = q /\ pc[d] \in Devolviendo)
    BY DEF Alojados, EsContexto, Devuelto, Devolviendo
  <2>6. \A q : q \in Alojados' <=>
                /\ q \in Procesos /\ <<q, 0>> \in DOMAIN contexto'
                /\ \A d \in Clientes : ~(loc'[d].pid = q /\ pc'[d] \in Devolviendo)
    BY DEF Alojados, EsContexto, Devuelto, Devolviendo
  <2>7. ASSUME NEW d \in Clientes, NEW q
        PROVE  (loc'[d].pid = q /\ pc'[d] \in Devolviendo)
                  <=> (loc[d].pid = q /\ pc[d] \in Devolviendo)
    <3>1. CASE d = "LP"
      BY <1>1, <1>5, <3>1 DEF Devolviendo
    <3>2. CASE d # "LP"
      BY <1>5, <3>2 DEF Toca
    <3> QED BY <3>1, <3>2
  <2>8. Alojados' = Alojados \cup {p} /\ p \notin Alojados
    <3>1. \A q : <<q, 0>> = h <=> q = p
      OBVIOUS
    <3> HIDE DEF h, p
    <3>2. p \notin Alojados
      BY <2>2, <2>5, <3>1
    <3>3. \A d \in Clientes : ~(loc'[d].pid = p /\ pc'[d] \in Devolviendo)
      BY <2>4, <2>7 DEF p
    <3>4. p \in Alojados'
      BY <2>1, <2>3, <2>6, <3>1, <3>3
    <3>5. ASSUME NEW q, q # p PROVE q \in Alojados' <=> q \in Alojados
      <4>1. <<q, 0>> \in DOMAIN contexto' <=> <<q, 0>> \in DOMAIN contexto
        BY <2>3, <3>1, <3>5
      <4>2. \A d \in Clientes : (loc'[d].pid = q /\ pc'[d] \in Devolviendo)
                                   <=> (loc[d].pid = q /\ pc[d] \in Devolviendo)
        BY <2>7
      <4> QED BY <2>5, <2>6, <4>1, <4>2
    <3> QED BY <3>2, <3>4, <3>5
  <2>9. \A q \in Alojados : contexto'[<<q, 0>>] = contexto[<<q, 0>>]
    <3>1. \A q \in Alojados : <<q, 0>> # h
      BY <2>8
    <3> HIDE DEF h
    <3> QED BY <2>3, <2>5, <3>1
  <2>10. /\ t[k].inicio \in Nat /\ t[k].fin \in Nat
         /\ t[k].inicio \in 0..(TamMemoria - 1) /\ t[k].fin \in 0..(TamMemoria - 1)
         /\ t[k].fin - t[k].inicio + 1 = t[k].tamanio
    <3>1. /\ t[k].inicio \in Nat /\ t[k].fin \in Nat /\ t[k].tamanio \in Nat
          /\ t[k].inicio \in 0..(TamMemoria - 1) /\ t[k].fin \in 0..(TamMemoria - 1)
          /\ t[k].fin = t[k].inicio + t[k].tamanio - 1
      BY <1>1, Separadas
    <3> QED BY <3>1
  <2>11. Tipado'
    <3>1. r \in Rango
      BY <2>10 DEF Rango
    <3>2. \A g \in DOMAIN contexto' : contexto'[g] \in Rango
      BY <2>3, <3>1 DEF Fija, Tipado
    <3> QED BY <1>1, <1>3, <3>2 DEF Fija, Tipado
  <2>12. ASSUME NEW q \in Alojados PROVE Tiene(t, contexto[<<q, 0>>], Tamano[q])
    BY DEF Fija
  <2>13. Tiene(t, r, Tamano[p])
    BY <1>2 DEF Tiene
  <2>14. Fija'
    <3>1. \A q \in Alojados' : Tiene(t, contexto'[<<q, 0>>], Tamano[q])
      BY <2>3, <2>8, <2>9, <2>12, <2>13
    <3>2. \A q, s \in Alojados' : q # s => contexto'[<<q, 0>>].base # contexto'[<<s, 0>>].base
      <4>1. \A q, s \in Alojados : q # s => contexto[<<q, 0>>].base # contexto[<<s, 0>>].base
        BY DEF Fija
      <4>2. contexto'[<<p, 0>>].base = t[k].inicio
        BY <2>3
      <4> DEFINE base(q) == contexto'[<<q, 0>>].base
      <4>3. \A q \in Alojados : base(q) = contexto[<<q, 0>>].base /\ base(q) # base(p)
        BY <1>2, <2>9, <4>2
      <4>4. \A q, s \in Alojados : q # s => base(q) # base(s)
        BY <4>1, <4>3
      <4> HIDE DEF base, p
      <4>5. \A q, s \in Alojados \cup {p} : q # s => base(q) # base(s)
        BY <4>3, <4>4
      <4> QED BY <2>8, <4>5 DEF base
    <3>3. \A q \in Procesos : <<q, 0>> \in DOMAIN contexto' /\ q \notin Alojados'
                                => contexto'[<<q, 0>>] = SinRango
      <4>1. \A q \in Procesos : <<q, 0>> \in DOMAIN contexto /\ q \notin Alojados
                                  => contexto[<<q, 0>>] = SinRango
        BY DEF Fija
      <4>2. \A q : <<q, 0>> = h => q = p
        OBVIOUS
      <4> HIDE DEF h, p
      <4> QED BY <2>3, <2>8, <4>1, <4>2
    <3>4. \A d \in Clientes : pc'[d] # "funde"
      BY <1>5 DEF Toca, Fija
    <3>5. Contigua(tablaParticiones')
      BY <1>1
    <3> QED BY <1>1, <1>6, <2>11, <3>1, <3>2, <3>3, <3>4, <3>5 DEF Fija
  <2>15. Cambio(Mapa, Mapa')
    <3> DEFINE a == Mapa
               b == Mapa'
               x == t[k].inicio
               y == t[k].fin
    <3>1. DOMAIN a = Alojados /\ \A q \in Alojados : a[q] = contexto[<<q, 0>>]
      BY DEF Mapa
    <3>2. b = [q \in Alojados \cup {p} |-> IF q = p THEN r ELSE a[q]]
      <4>1. b = [q \in Alojados' |-> contexto'[<<q, 0>>]]
        BY DEF Mapa
      <4>2. contexto'[<<p, 0>>] = r
        BY <2>3
      <4> HIDE DEF a, r
      <4> QED BY <2>8, <2>9, <3>1, <4>1, <4>2
    <3>3. \A q \in Alojados : Promesa!Disjuntos([base |-> x, limite |-> y], a[q])
      BY <1>1, <1>2, <2>12, <3>1, OtraDisjunta
    <3>4. x \in 0..(TamMemoria - 1) /\ y \in 0..(TamMemoria - 1) /\ y - x + 1 >= Tamano[p]
      BY <1>2, <2>10
    <3>5. r = [base |-> x, limite |-> y]
      OBVIOUS
    <3> HIDE DEF a, b, x, y, r, p
    <3>6. Cambio(a, b)
      BY <2>1, <2>8, <3>1, <3>2, <3>3, <3>4, <3>5 DEF Cambio
    <3> QED BY <3>6 DEF a, b
  <2> QED BY <2>14, <2>15
<1> QED BY <1>3, <1>7, <1>8

\* Nothing but the undefined behaviour
LEMMA FijaFallo ==
  ASSUME Fija, UNCHANGED <<tablaParticiones, contexto, pc, loc>>, fallo' \in Fallos
  PROVE  Fija' /\ Cambio(Mapa, Mapa')
<1>1. Alojados' = Alojados
  BY DEF Alojados, EsContexto, Devuelto
<1>2. Tipado'
  BY DEF Fija, Tipado
<1>3. EnMano'
  BY <1>1 DEF Fija, EnMano
<1>4. Mapa' = Mapa
  BY <1>1 DEF Mapa
<1> QED BY <1>1, <1>2, <1>3, <1>4 DEF Fija, Cambio

LEMMA FijaFinProceso ==
  ASSUME Protocolo, Fija, NEW c \in Clientes, FinProceso(c)
  PROVE  Fija' /\ Cambio(Mapa, Mapa')
<1> DEFINE p == loc[c].pid
           suyos == {h \in DOMAIN contexto : h[1] = p}
           e == IF suyos = {} THEN "libre"
                ELSE IF <<p, 0>> \in suyos THEN "libera" ELSE "libera_hilos"
<1>1. /\ pc[c] = "fin_proceso" /\ UNCHANGED <<tablaParticiones, contexto, fallo>>
      /\ pc' = [pc EXCEPT ![c] = e] /\ loc' = [loc EXCEPT ![c].hilos = suyos]
  BY DEF FinProceso, En, Va
<1>2. c \in {"CP", "DUMP"} /\ Forma /\ loc \in [Clientes -> Locales]
  BY <1>1, OtrosClientes DEF DeAlta, Fija, Tipado
<1>3. /\ e \in {"libre", "libera", "libera_hilos"} /\ e \in Etiquetas
      /\ (e = "libera_hilos" => <<p, 0>> \notin DOMAIN contexto)
  BY DEF Etiquetas
<1>4. suyos \in SUBSET Contextos
  BY <1>2 DEF Forma
<1> HIDE DEF e, suyos
<1>5. /\ Toca(c) /\ pc'[c] = e /\ loc'[c].pid = p
  BY <1>1, <1>2, <1>3, <1>4, DatosHilos
<1>6. loc' \in [Clientes -> Locales]
  BY <1>1, <1>2, <1>4 DEF Locales
<1>7. Tipado'
  BY <1>1, <1>6 DEF Fija, Tipado
<1> QED BY <1>1, <1>2, <1>3, <1>5, <1>7, FijaQuieta DEF Devolviendo

LEMMA FijaLiberaHilos ==
  ASSUME Protocolo, Fija, NEW c \in Clientes, LiberaHilos(c)
  PROVE  Fija' /\ Cambio(Mapa, Mapa')
<1> DEFINE p == loc[c].pid
           H == loc[c].hilos
           g == CHOOSE f \in H : \A i \in H : f[2] <= i[2]
<1>1. pc[c] = "libera_hilos" /\ UNCHANGED tablaParticiones
  BY DEF LiberaHilos, En
<1>2. /\ c \in {"CP", "DUMP"} /\ Forma /\ loc \in [Clientes -> Locales]
      /\ (<<p, 0>> \in DOMAIN contexto => <<p, 0>> \in H)
  <2>1. c \in {"CP", "DUMP"} /\ Forma /\ EnRegla(c)
    BY <1>1, OtrosClientes DEF DeAlta
  <2> QED BY <1>1, <2>1 DEF EnRegla, Devolviendo, Fija, Tipado
<1>3. \/ /\ H = {} /\ pc' = [pc EXCEPT ![c] = "libre"]
         /\ UNCHANGED <<contexto, loc, fallo>>
      \/ /\ contexto' = SinContexto(g) /\ loc' = [loc EXCEPT ![c].hilos = H \ {g}]
         /\ UNCHANGED <<pc, fallo>>
      \/ fallo' = "contexto_liberado" /\ UNCHANGED <<contexto, pc, loc>>
  BY Zenon DEF LiberaHilos, Responde, Va
<1> HIDE DEF g
<1>4. CASE H = {} /\ pc' = [pc EXCEPT ![c] = "libre"] /\ UNCHANGED <<contexto, loc, fallo>>
  <2>1. Toca(c) /\ pc'[c] = "libre"
    BY <1>2, <1>4 DEF Forma, Toca
  <2>2. Tipado'
    BY <1>4 DEF Fija, Tipado
  <2>3. <<p, 0>> \notin DOMAIN contexto
    BY <1>2, <1>4
  <2> QED BY <1>1, <1>2, <1>4, <2>1, <2>2, <2>3, FijaQuieta DEF Devolviendo
<1>5. CASE /\ contexto' = SinContexto(g) /\ loc' = [loc EXCEPT ![c].hilos = H \ {g}]
           /\ UNCHANGED <<pc, fallo>>
  <2>1. DOMAIN contexto' = DOMAIN contexto \ {g}
        /\ \A f \in DOMAIN contexto' : contexto'[f] = contexto[f]
    BY <1>5 DEF SinContexto
  <2>2. loc' \in [Clientes -> Locales] /\ loc'[c].pid = p
        /\ \A d \in Clientes : d # c => loc'[d] = loc[d]
    BY <1>2, <1>5 DEF Locales
  <2>3. Toca(c) /\ pc'[c] = "libera_hilos"
    BY <1>1, <1>5, <2>2 DEF Toca
  <2>4. Tipado'
    BY <1>5, <2>1, <2>2 DEF Fija, Tipado
  <2>5. \A q \in Procesos : <<q, 0>> \in DOMAIN contexto =>
            <<q, 0>> \in DOMAIN contexto' \/ q = g[1]
    <3>1. \A q : <<q, 0>> = g => q = g[1]
      OBVIOUS
    <3> QED BY <2>1, <3>1
  <2> QED BY <1>1, <1>2, <2>1, <2>2, <2>3, <2>4, <2>5, FijaQuieta DEF Devolviendo
<1>6. CASE fallo' = "contexto_liberado" /\ UNCHANGED <<contexto, pc, loc>>
  BY <1>1, <1>6, FijaFallo DEF Fallos
<1> QED BY <1>3, <1>4, <1>5, <1>6

LEMMA FijaHilo ==
  ASSUME Protocolo, Fija, "CP" \in Clientes, CreaHilo \/ PublicaHilo \/ FinHilo
  PROVE  Fija' /\ Cambio(Mapa, Mapa')
<1> DEFINE c == "CP"
           p == loc[c].pid
           h == <<p, loc[c].tid>>
<1>1. /\ pc[c] \in {"crea_hilo", "publica_hilo", "fin_hilo"}
      /\ UNCHANGED tablaParticiones
  BY DEF CreaHilo, PublicaHilo, FinHilo, En
<1>2. /\ Forma /\ EnRegla(c) /\ loc \in [Clientes -> Locales]
      /\ \A g \in DOMAIN contexto : contexto[g] \in Rango
  BY <1>1, OtrosClientes DEF DeAlta, Fija, Tipado
<1>3. CASE /\ <<p, 0>> \in DOMAIN contexto /\ loc' = [loc EXCEPT ![c].rango = contexto[<<p, 0>>]]
           /\ pc' = [pc EXCEPT ![c] = "publica_hilo"] /\ UNCHANGED <<contexto, fallo>>
  <2> DEFINE x == contexto[<<p, 0>>]
  <2>1. x \in Rango
    BY <1>2, <1>3
  <2> HIDE DEF x
  <2>2. /\ loc' \in [Clientes -> Locales]
        /\ \A d \in Clientes : d # c => loc'[d] = loc[d]
    BY <1>2, <1>3, <2>1 DEF Locales, x
  <2>3. Toca(c) /\ pc'[c] = "publica_hilo"
    BY <1>2, <1>3, <2>2 DEF Forma, Toca
  <2>4. Tipado'
    BY <1>3, <2>2 DEF Fija, Tipado
  <2> QED BY <1>1, <1>3, <2>3, <2>4, FijaQuieta DEF Devolviendo
<1>4. CASE fallo' = "puntero_nulo" /\ UNCHANGED <<contexto, pc, loc>>
  BY <1>1, <1>4, FijaFallo DEF Fallos
<1>5. ASSUME pc' = [pc EXCEPT ![c] = "libre"], UNCHANGED <<loc, fallo>>,
             \/ UNCHANGED contexto
             \/ pc[c] = "publica_hilo" /\ contexto' = ConContexto(h, loc[c].rango)
             \/ contexto' = SinContexto(h)
      PROVE  Fija' /\ Cambio(Mapa, Mapa')
  <2>1. pc'[c] = "libre" /\ Toca(c)
    BY <1>2, <1>5 DEF Forma, Toca
  <2>2. h[1] = p /\ h[2] = loc[c].tid
    OBVIOUS
  <2>3. pc[c] # "publica_hilo" \/ h[2] # 0
    BY <1>2, <2>2 DEF EnRegla
  <2>4. loc[c].rango \in Rango
    BY <1>2 DEF Locales
  <2> HIDE DEF h
  <2>5. /\ \A g \in DOMAIN contexto' :
              \/ g \in DOMAIN contexto /\ contexto'[g] = contexto[g]
              \/ g = h /\ pc[c] = "publica_hilo" /\ contexto'[g] = loc[c].rango
        /\ \A g \in DOMAIN contexto : g \in DOMAIN contexto' \/ g = h
    BY <1>5 DEF ConContexto, SinContexto
  <2>6. ASSUME NEW q \in Procesos, <<q, 0>> \in DOMAIN contexto'
        PROVE  <<q, 0>> \in DOMAIN contexto /\ contexto'[<<q, 0>>] = contexto[<<q, 0>>]
    <3>1. <<q, 0>>[2] = 0
      OBVIOUS
    <3> QED BY <2>3, <2>5, <2>6, <3>1
  <2>7. ASSUME NEW q \in Procesos, <<q, 0>> \in DOMAIN contexto
        PROVE  <<q, 0>> \in DOMAIN contexto' \/ q = h[1]
    <3>1. <<q, 0>>[1] = q
      OBVIOUS
    <3> QED BY <2>5, <2>7, <3>1
  <2>8. Tipado'
    BY <1>2, <1>5, <2>4, <2>5 DEF Fija, Tipado
  <2>9. pc[c] \notin Devolviendo /\ pc'[c] \notin Devolviendo /\ pc'[c] # "funde"
    BY <1>1, <2>1 DEF Devolviendo
  <2> QED BY <1>1, <2>1, <2>6, <2>7, <2>8, <2>9, FijaQuieta
<1>6. CASE CreaHilo
  BY <1>3, <1>4, <1>6 DEF CreaHilo, Va, EsContexto
<1>7. CASE PublicaHilo
  BY <1>5, <1>7 DEF PublicaHilo, Va, En
<1>8. CASE FinHilo
  BY <1>5, <1>8 DEF FinHilo, Va
<1> QED BY <1>6, <1>7, <1>8

LEMMA FijaVolcado ==
  ASSUME Protocolo, Fija, "DUMP" \in Clientes, Dump
  PROVE  Fija' /\ Cambio(Mapa, Mapa')
<1> DEFINE c == "DUMP"
<1>1. pc[c] = "dump" /\ UNCHANGED <<tablaParticiones, contexto, loc>> /\ Forma
  BY DEF Dump, En, Protocolo
<1>2. CASE fallo' = "contexto_liberado" /\ UNCHANGED pc
  BY <1>1, <1>2, FijaFallo DEF Fallos
<1>3. ASSUME NEW e \in {"libre", "fin_proceso"}, pc' = [pc EXCEPT ![c] = e], UNCHANGED fallo
      PROVE  Fija' /\ Cambio(Mapa, Mapa')
  <2>1. pc'[c] = e /\ Toca(c)
    BY <1>1, <1>3 DEF Forma, Toca
  <2>2. Tipado'
    BY <1>1, <1>3 DEF Fija, Tipado
  <2> QED BY <1>1, <2>1, <2>2, FijaQuieta DEF Devolviendo
<1> QED BY <1>2, <1>3 DEF Dump, Va

\* FIN_PROCESO gives back the partition of a process it ends first.
LEMMA FijaDevuelve ==
  ASSUME Esquema = "FIJAS", Protocolo, Fija, NEW c \in Clientes, c # "LP",
         pc[c] \notin Devolviendo, NEW h, h = <<loc[c].pid, 0>>, h \in DOMAIN contexto,
         NEW k \in DelContexto(tablaParticiones, contexto[h]),
         tablaParticiones' = ConMarca(tablaParticiones, k, FALSE),
         contexto' = [contexto EXCEPT ![h] = SinRango],
         Toca(c), pc'[c] = "libera_hilos", loc'[c].pid = loc[c].pid,
         loc' \in [Clientes -> Locales], UNCHANGED fallo, loc[c].pid \in Procesos
  PROVE  Fija' /\ Cambio(Mapa, Mapa')
<1> DEFINE p == loc[c].pid
           t == tablaParticiones
           u == t'
<1>1. /\ Contigua(t) /\ \A d \in Clientes : pc[d] # "funde"
      /\ \A q \in Alojados : Tiene(t, contexto[<<q, 0>>], Tamano[q])
      /\ \A q, s \in Alojados : q # s => contexto[<<q, 0>>].base # contexto[<<s, 0>>].base
      /\ \A q \in Procesos : <<q, 0>> \in DOMAIN contexto /\ q \notin Alojados
                                => contexto[<<q, 0>>] = SinRango
  BY DEF Fija
<1>2. /\ k \in 1..Len(t) /\ t[k].inicio = contexto[h].base
      /\ t[k].fin = contexto[h].limite
  BY <1>1, Separadas DEF DelContexto
<1>3. p \in Alojados
  <2>1. contexto[h] # SinRango
    <3>1. t[k].fin > 0
      BY <1>1, <1>2, Separadas
    <3> QED BY <1>2, <3>1 DEF SinRango
  <2> QED BY <1>1, <2>1
<1>4. \A q \in Alojados : q # p => contexto[<<q, 0>>].base # t[k].inicio
  BY <1>1, <1>2, <1>3
<1>5. /\ DOMAIN contexto' = DOMAIN contexto /\ contexto'[h] = SinRango
      /\ \A g \in DOMAIN contexto : g # h => contexto'[g] = contexto[g]
  OBVIOUS
<1>6. \A q : <<q, 0>> = h <=> q = p
  OBVIOUS
<1>7. Alojados' = Alojados \ {p}
  <2>1. \A q : q \in Alojados <=> /\ q \in Procesos /\ <<q, 0>> \in DOMAIN contexto
                                  /\ \A d \in Clientes : ~(loc[d].pid = q /\ pc[d] \in Devolviendo)
    BY DEF Alojados, EsContexto, Devuelto, Devolviendo
  <2>2. \A q : q \in Alojados' <=>
                /\ q \in Procesos /\ <<q, 0>> \in DOMAIN contexto'
                /\ \A d \in Clientes : ~(loc'[d].pid = q /\ pc'[d] \in Devolviendo)
    BY DEF Alojados, EsContexto, Devuelto, Devolviendo
  <2>3. p \notin Alojados'
    BY <2>2 DEF Devolviendo
  <2>4. ASSUME NEW q, q # p PROVE q \in Alojados' <=> q \in Alojados
    <3>1. ASSUME NEW d \in Clientes
          PROVE  (loc'[d].pid = q /\ pc'[d] \in Devolviendo)
                    <=> (loc[d].pid = q /\ pc[d] \in Devolviendo)
      <4>1. CASE d = c
        BY <2>4, <4>1
      <4>2. CASE d # c
        BY <4>2 DEF Toca
      <4> QED BY <4>1, <4>2
    <3> QED BY <1>5, <2>1, <2>2, <3>1
  <2> QED BY <2>3, <2>4
<1> HIDE DEF p
<1>8. \A q \in Alojados' : q \in Alojados /\ q # p /\ contexto'[<<q, 0>>] = contexto[<<q, 0>>]
  <2>1. \A q \in Alojados : <<q, 0>> \in DOMAIN contexto
    BY DEF Alojados, EsContexto
  <2> QED BY <1>5, <1>6, <1>7, <2>1
<1>9. /\ Contigua(u) /\ Len(u) = Len(t) /\ \A j \in 1..Len(t) : j # k => u[j] = t[j]
  <2>1. PICK v \in BOOLEAN : v = FALSE
    OBVIOUS
  <2>2. u = ConMarca(t, k, v) /\ Contigua(t) /\ k \in 1..Len(t)
    BY <1>1, <1>2, <2>1
  <2> HIDE DEF t, u
  <2> QED BY <2>2, Marcada
<1> HIDE DEF u
<1>10. ASSUME NEW q \in Alojados' PROVE Tiene(u, contexto'[<<q, 0>>], Tamano[q])
  <2>1. q \in Alojados /\ q # p /\ contexto'[<<q, 0>>] = contexto[<<q, 0>>]
    BY <1>8
  <2>2. PICK j \in 1..Len(t) : /\ t[j].inicio = contexto[<<q, 0>>].base
                               /\ t[j].fin = contexto[<<q, 0>>].limite
                               /\ t[j].ocupada /\ t[j].tamanio >= Tamano[q]
    BY <1>1, <2>1 DEF Tiene
  <2>3. j # k
    BY <1>4, <2>1, <2>2
  <2> QED BY <1>9, <2>1, <2>2, <2>3 DEF Tiene
<1>11. \A q, s \in Alojados' : q # s => contexto'[<<q, 0>>].base # contexto'[<<s, 0>>].base
  BY <1>1, <1>8
<1>12. \A q \in Procesos : <<q, 0>> \in DOMAIN contexto' /\ q \notin Alojados'
                              => contexto'[<<q, 0>>] = SinRango
  <2>1. ASSUME NEW q \in Procesos, <<q, 0>> \in DOMAIN contexto', q \notin Alojados', q # p
        PROVE  contexto'[<<q, 0>>] = SinRango
    <3>1. q \notin Alojados /\ <<q, 0>> # h
      BY <1>6, <1>7, <2>1
    <3> QED BY <1>1, <1>5, <2>1, <3>1
  <2>2. contexto'[<<p, 0>>] = SinRango
    BY <1>5, <1>6
  <2> QED BY <2>1, <2>2
<1>13. EnMano'
  <2> SUFFICES ASSUME "LP" \in Clientes, pc'["LP"] \in {"marca", "divide", "publica"}
               PROVE  \E j \in 1..Len(u) :
                         /\ u[j].inicio = loc'["LP"].particion
                         /\ u[j].tamanio >= Tamano[loc'["LP"].pid]
                         /\ u[j].ocupada <=> pc'["LP"] # "marca"
                         /\ \A q \in Alojados' : contexto'[<<q, 0>>].base # u[j].inicio
    BY DEF EnMano, u
  <2>1. pc'["LP"] = pc["LP"] /\ loc'["LP"] = loc["LP"]
    BY DEF Toca
  <2>2. PICK j \in 1..Len(t) :
           /\ t[j].inicio = loc["LP"].particion
           /\ t[j].tamanio >= Tamano[loc["LP"].pid]
           /\ t[j].ocupada <=> pc["LP"] # "marca"
           /\ \A q \in Alojados : contexto[<<q, 0>>].base # t[j].inicio
    BY <2>1 DEF Fija, EnMano
  <2>3. j # k
    BY <1>2, <1>3, <1>6, <2>2
  <2>4. u[j] = t[j]
    BY <1>9, <2>3
  <2> QED BY <1>8, <1>9, <2>1, <2>2, <2>4
<1>14. Tipado'
  <2>1. SinRango \in Rango
    BY DEF SinRango, Rango
  <2>2. \A g \in DOMAIN contexto' : contexto'[g] \in Rango
    BY <1>5, <2>1 DEF Fija, Tipado
  <2> QED BY <2>2 DEF Fija, Tipado
<1>15. \A d \in Clientes : pc'[d] # "funde"
  BY <1>1 DEF Toca
<1>16. Fija'
  BY <1>9, <1>10, <1>11, <1>12, <1>13, <1>14, <1>15 DEF Fija, u
<1> QED BY <1>7, <1>8, <1>16, CambioMenos

LEMMA FijaLibera ==
  ASSUME Esquema = "FIJAS", Protocolo, Fija, NEW c \in Clientes, Libera(c)
  PROVE  Fija' /\ Cambio(Mapa, Mapa')
<1> DEFINE p == loc[c].pid
           h == <<p, 0>>
           t == tablaParticiones
           ks == DelContexto(t, contexto[h])
           k == CHOOSE n \in ks : \A m \in ks : n <= m
           x == t[k].inicio
<1>1. pc[c] = "libera"
  BY DEF Libera, En
<1>2. /\ c \in {"CP", "DUMP"} /\ Forma /\ p \in Procesos /\ loc \in [Clientes -> Locales]
      /\ Contigua(t)
  BY <1>1, OtrosClientes DEF DeAlta, Fija, Tipado
<1>3. \/ fallo' = "contexto_liberado" /\ UNCHANGED <<t, contexto, pc, loc>>
      \/ /\ h \in DOMAIN contexto /\ ks = {} /\ pc' = [pc EXCEPT ![c] = "libera_hilos"]
         /\ UNCHANGED <<t, contexto, loc, fallo>>
      \/ /\ h \in DOMAIN contexto /\ ks # {} /\ t' = ConMarca(t, k, FALSE)
         /\ contexto' = [contexto EXCEPT ![h] = SinRango]
         /\ loc' = [loc EXCEPT ![c].particion = x, ![c].k = k]
         /\ pc' = [pc EXCEPT ![c] = IF k > 1 /\ Esquema = "DINAMICAS"
                                    THEN "funde" ELSE "libera_hilos"]
         /\ UNCHANGED fallo
  BY Zenon DEF Libera, EsContexto, Va, ConMarca
<1>4. CASE fallo' = "contexto_liberado" /\ UNCHANGED <<t, contexto, pc, loc>>
  BY <1>4, FijaFallo DEF Fallos
<1>5. CASE /\ h \in DOMAIN contexto /\ ks = {} /\ pc' = [pc EXCEPT ![c] = "libera_hilos"]
           /\ UNCHANGED <<t, contexto, loc, fallo>>
  <2>1. Toca(c) /\ pc'[c] = "libera_hilos"
    BY <1>2, <1>5 DEF Forma, Toca
  <2>2. Tipado'
    BY <1>5 DEF Fija, Tipado
  <2>3. p \notin Alojados
    <3>1. ASSUME p \in Alojados PROVE FALSE
      <4>1. Tiene(t, contexto[h], Tamano[p])
        BY <3>1 DEF Fija
      <4>2. PICK j \in 1..Len(t) : t[j].inicio = contexto[h].base
                                   /\ t[j].fin = contexto[h].limite /\ t[j].ocupada
        BY <4>1 DEF Tiene
      <4>3. j \in ks
        BY <1>2, <4>2, Separadas DEF DelContexto
      <4> QED BY <1>5, <4>3
    <3> QED BY <3>1
  <2> QED BY <1>1, <1>2, <1>5, <2>1, <2>2, <2>3, FijaQuieta DEF Devolviendo
<1>6. CASE /\ h \in DOMAIN contexto /\ ks # {} /\ t' = ConMarca(t, k, FALSE)
           /\ contexto' = [contexto EXCEPT ![h] = SinRango]
           /\ loc' = [loc EXCEPT ![c].particion = x, ![c].k = k]
           /\ pc' = [pc EXCEPT ![c] = IF k > 1 /\ Esquema = "DINAMICAS"
                                      THEN "funde" ELSE "libera_hilos"]
           /\ UNCHANGED fallo
  <2>1. ks \in SUBSET (1..Len(t)) /\ Len(t) \in Nat
    BY <1>2, Separadas DEF DelContexto
  <2>2. k \in ks
    <3>1. ks \in SUBSET Nat
      BY <2>1
    <3> HIDE DEF ks
    <3>2. Min(ks) \in ks /\ \A y \in ks : Min(ks) <= y
      BY <1>6, <3>1, MinimoExiste
    <3> QED BY <3>2
  <2> HIDE DEF k
  <2>3. k \in Nat /\ x \in Nat
    BY <1>2, <2>1, <2>2, Separadas
  <2> HIDE DEF x
  <2>4. /\ loc' \in [Clientes -> Locales] /\ loc'[c].pid = p
        /\ \A d \in Clientes : d # c => loc'[d] = loc[d]
    <3> DEFINE r == [loc[c] EXCEPT !.particion = x, !.k = k]
    <3>1. r \in Locales /\ r.pid = p
      BY <1>2, <2>3 DEF Locales
    <3>2. loc' = [loc EXCEPT ![c] = r]
      BY <1>2, <1>6 DEF Locales
    <3> HIDE DEF r
    <3> QED BY <1>2, <3>1, <3>2
  <2>5. pc' = [pc EXCEPT ![c] = "libera_hilos"]
    BY <1>6
  <2>6. Toca(c) /\ pc'[c] = "libera_hilos"
    BY <1>2, <2>4, <2>5 DEF Forma, Toca
  <2>7. c # "LP" /\ pc[c] \notin Devolviendo
    BY <1>1, <1>2 DEF Devolviendo
  <2> QED BY <1>2, <1>6, <2>2, <2>4, <2>6, <2>7, FijaDevuelve
<1> QED BY <1>3, <1>4, <1>5, <1>6

LEMMA FijaFunde ==
  ASSUME Fija, NEW c \in Clientes
  PROVE  ~Funde(c)
BY DEF Fija, Funde, En

IInv == Protocolo /\ Fija

LEMMA InitIInv ==
  ASSUME Esquema = "FIJAS", Init
  PROVE  IInv /\ Promesa!Init
<1>1. Protocolo
  BY InitProtocolo
<1>2. Contigua(tablaParticiones)
  BY InicialContigua DEF Init
<1>3. contexto = [h \in {} |-> SinRango] /\ DOMAIN contexto = {}
  BY DEF Init
<1>4. Alojados = {}
  BY <1>3 DEF Alojados, EsContexto
<1>5. loc \in [Clientes -> Locales]
  <2>1. 0 \in Hebras
    BY ConstantesMemoria
  <2> QED BY <2>1 DEF Init, Locales, Rango, SinRango
<1>6. \A c \in Clientes : pc[c] = "libre"
  BY DEF Init
<1>7. fallo \in Fallos
  BY DEF Init, Fallos
<1>8. Fija
  BY <1>2, <1>3, <1>4, <1>5, <1>6, <1>7 DEF Fija, Tipado, EnMano
<1>9. Promesa!Init
  BY <1>4 DEF Promesa!Init
<1> QED BY <1>1, <1>8, <1>9 DEF IInv

LEMMA FijaFinalizar ==
  ASSUME Esquema = "FIJAS", IInv, NEW c \in Clientes, Finalizar(c)
  PROVE  Fija' /\ Cambio(Mapa, Mapa')
BY FijaFinProceso, FijaLibera, FijaFunde, FijaLiberaHilos DEF Finalizar, IInv

LEMMA NextIInv ==
  ASSUME Esquema = "FIJAS", IInv, [Next]_vars
  PROVE  IInv' /\ Cambio(Mapa, Mapa')
<1>1. Protocolo'
  BY NextProtocolo DEF IInv
<1>2. CASE UNCHANGED vars
  <2>1. UNCHANGED <<tablaParticiones, contexto, pc, loc>> /\ fallo' \in Fallos
    BY <1>2 DEF vars, IInv, Fija, Tipado
  <2> QED BY <1>1, <2>1, FijaFallo DEF IInv
<1>3. CASE PasoLP
  <2>1. "LP" \in Clientes /\ 0 \in Hebras
    BY <1>3, ConstantesMemoria DEF PasoLP
  <2>2. ASSUME NEW p \in Procesos, PedirProceso(p) PROVE Fija' /\ Cambio(Mapa, Mapa')
    BY <2>1, <2>2, FijaPedir DEF PedirProceso, IInv
  <2>3. ASSUME CrearProceso PROVE Fija' /\ Cambio(Mapa, Mapa')
    BY <2>1, <2>3, FijaEntra, FijaBusca, FijaMarca, FijaDivide, FijaPublica
       DEF CrearProceso, IInv
  <2> QED BY <1>1, <1>3, <2>2, <2>3 DEF PasoLP, IInv
<1>4. CASE PasoCP
  <2>1. "CP" \in Clientes /\ 0 \in Hebras
    BY <1>4, ConstantesMemoria DEF PasoCP
  <2>2. ASSUME NEW p \in Procesos, PedirFin(p) PROVE Fija' /\ Cambio(Mapa, Mapa')
    BY <2>1, <2>2, FijaPedir DEF PedirFin, IInv
  <2>3. ASSUME NEW p \in Procesos, NEW t \in Hebras, PedirHilo(p, t) \/ PedirFinHilo(p, t)
        PROVE  Fija' /\ Cambio(Mapa, Mapa')
    BY <2>1, <2>3, FijaPedir DEF PedirHilo, PedirFinHilo, IInv
  <2>4. ASSUME Finalizar("CP") PROVE Fija' /\ Cambio(Mapa, Mapa')
    BY <2>1, <2>4, FijaFinalizar
  <2>5. ASSUME CreaHilo \/ PublicaHilo \/ FinHilo PROVE Fija' /\ Cambio(Mapa, Mapa')
    BY <2>1, <2>5, FijaHilo DEF IInv
  <2> QED BY <1>1, <1>4, <2>2, <2>3, <2>4, <2>5 DEF PasoCP, IInv
<1>5. CASE PasoDump
  <2>1. "DUMP" \in Clientes
    BY <1>5 DEF PasoDump
  <2>2. ASSUME NEW p \in Procesos, NEW t \in Hebras, PedirDump(p, t)
        PROVE  Fija' /\ Cambio(Mapa, Mapa')
    BY <2>1, <2>2, FijaPedir DEF PedirDump, IInv
  <2>3. ASSUME Dump PROVE Fija' /\ Cambio(Mapa, Mapa')
    BY <2>1, <2>3, FijaVolcado DEF IInv
  <2>4. ASSUME Finalizar("DUMP") PROVE Fija' /\ Cambio(Mapa, Mapa')
    BY <2>1, <2>4, FijaFinalizar
  <2> QED BY <1>1, <1>5, <2>2, <2>3, <2>4 DEF PasoDump, IInv
<1> QED BY <1>2, <1>3, <1>4, <1>5 DEF Next

(* The invariant of memoria under FIJAS, with every client in parallel:    *)
(* the table keeps its partitions, each admitted process has one of its    *)
(* own, and the one CREAR_PROCESO is giving belongs to nobody.             *)
THEOREM MemoriaIInv == ASSUME Esquema = "FIJAS" PROVE Spec => []IInv
<1>1. Init => IInv
  BY InitIInv
<1>2. IInv /\ [Next]_vars => IInv'
  BY NextIInv
<1> QED BY <1>1, <1>2, PTL DEF Spec

(* The table, the contexts and the locals of the requests hold values of   *)
(* their C types, with every client in parallel.                           *)
THEOREM MemoriaTypeOK == ASSUME Esquema = "FIJAS" PROVE Spec => []TypeOK
<1>1. IInv => TypeOK
  BY DEF IInv, Protocolo, Forma, Fija, Tipado, Contigua, TypeOK
<1> QED BY <1>1, MemoriaIInv, PTL

(* A process has access to exactly one occupied partition, large enough    *)
(* and of no other process, while creations, ends and dumps overlap        *)
(* (operaciones_kernel.c:95-97, administrativo.c:190-216).                 *)
THEOREM MemoriaRango == ASSUME Esquema = "FIJAS" PROVE Spec => []RangoEsParticion
<1>1. ASSUME IInv PROVE RangoEsParticion
  <2> DEFINE t == tablaParticiones
  <2> SUFFICES ASSUME NEW p \in Alojados
               PROVE  /\ Cardinality(DelContexto(t, contexto[<<p, 0>>])) = 1
                      /\ contexto[<<p, 0>>].limite - contexto[<<p, 0>>].base + 1 >= Tamano[p]
                      /\ \A q \in Alojados \ {p} : contexto[<<q, 0>>] # contexto[<<p, 0>>]
    BY DEF RangoEsParticion
  <2>1. Contigua(t) /\ Tiene(t, contexto[<<p, 0>>], Tamano[p])
    BY <1>1 DEF IInv, Fija
  <2> DEFINE c == contexto[<<p, 0>>]
             ks == DelContexto(t, c)
  <2>2. PICK k \in 1..Len(t) : /\ t[k].inicio = c.base /\ t[k].fin = c.limite
                               /\ t[k].ocupada /\ t[k].tamanio >= Tamano[p]
    BY <2>1 DEF Tiene
  <2>3. ks = {k}
    <3>1. k \in ks
      BY <2>1, <2>2, Separadas DEF DelContexto
    <3>2. ASSUME NEW j \in ks PROVE j = k
      BY <2>1, <2>2, <3>2, Separadas, Distintas DEF DelContexto
    <3> QED BY <3>1, <3>2
  <2>4. Cardinality(ks) = 1
    BY <2>3, FS_Singleton
  <2>5. c.limite - c.base + 1 >= Tamano[p]
    <3>1. /\ t[k].inicio \in Nat /\ t[k].fin \in Nat /\ t[k].tamanio \in Nat
          /\ t[k].fin = t[k].inicio + t[k].tamanio - 1
      BY <2>1, Separadas
    <3>2. t[k].fin - t[k].inicio + 1 = t[k].tamanio
      BY <3>1
    <3> QED BY <2>2, <3>2
  <2>6. \A q \in Alojados \ {p} : contexto[<<q, 0>>] # c
    BY <1>1 DEF IInv, Fija
  <2> QED BY <2>4, <2>5, <2>6
<1>2. IInv => RangoEsParticion
  BY <1>1
<1> QED BY <1>2, MemoriaIInv, PTL

(* Every step of memoria, with its clients in parallel, gives one process  *)
(* a range disjoint from the others, takes one back, or moves none.        *)
THEOREM MemoriaCumplePromesa == ASSUME Esquema = "FIJAS" PROVE Spec => CumplePromesa
<1>1. Init => Promesa!Init
  BY InitIInv
<1>2. IInv /\ [Next]_vars => Promesa!Next \/ UNCHANGED Mapa
  <2> SUFFICES ASSUME IInv, [Next]_vars PROVE Promesa!Next \/ UNCHANGED Mapa
    OBVIOUS
  <2> QED BY NextIInv DEF Cambio, Mapa, Promesa!Next, Promesa!Otorgar, Promesa!Devolver
<1>3. IInv /\ [Next]_vars => [Promesa!Next]_(Mapa)
  BY <1>2
<1> QED BY <1>1, <1>3, MemoriaIInv, PTL DEF Spec, CumplePromesa, Promesa!Spec, Mapa

-----------------------------------------------------------------------------
(* Splits and merges of the scheme DINAMICAS                               *)

Registro == [inicio : Nat, fin : Nat, tamanio : Nat \ {0}, ocupada : BOOLEAN]

Tabla(t) ==
    /\ t \in Seq(Registro) /\ Len(t) > 0
    /\ t[1].inicio = 0 /\ t[Len(t)].fin = TamMemoria - 1
    /\ \A k \in 1..Len(t) : t[k].fin = t[k].inicio + t[k].tamanio - 1
    /\ \A k \in 1..(Len(t) - 1) : t[k + 1].inicio = t[k].fin + 1

-----------------------------------------------------------------------------
(* The table                                                               *)

\* What a row holds, and that it is not empty.
LEMMA Filas ==
  ASSUME NEW t, Tabla(t)
  PROVE  /\ Len(t) \in Nat \ {0} /\ DOMAIN t = 1..Len(t)
         /\ \A k \in 1..Len(t) :
               /\ t[k] \in Registro /\ t[k].inicio \in Nat /\ t[k].fin \in Nat
               /\ t[k].tamanio \in Nat \ {0} /\ t[k].ocupada \in BOOLEAN
               /\ t[k].inicio <= t[k].fin
<1>1. Len(t) \in Nat \ {0} /\ DOMAIN t = 1..Len(t)
  BY LenProperties DEF Tabla
<1>2. \A k \in 1..Len(t) : t[k] \in Registro
  BY ElementOfSeq DEF Tabla
<1>3. ASSUME NEW k \in 1..Len(t)
      PROVE  /\ t[k].inicio \in Nat /\ t[k].fin \in Nat
             /\ t[k].tamanio \in Nat \ {0} /\ t[k].ocupada \in BOOLEAN
  BY <1>2 DEF Registro
<1>4. ASSUME NEW k \in 1..Len(t) PROVE t[k].inicio <= t[k].fin
  <2>1. t[k].fin = t[k].inicio + t[k].tamanio - 1
    BY DEF Tabla
  <2> QED BY <2>1, <1>3
<1> QED BY <1>1, <1>2, <1>3, <1>4

\* Two tables have the same occupied partitions, wherever they are listed.
MismasOcupadas(t, u) ==
    /\ \A j \in 1..Len(t) : t[j].ocupada => \E m \in 1..Len(u) : u[m] = t[j]
    /\ \A m \in 1..Len(u) : u[m].ocupada => \E j \in 1..Len(t) : u[m] = t[j]

\* u is t with the free partitions from a to b as a single one.
Fusion(t, u, a, b) ==
    /\ u \in Seq(Registro) /\ Len(u) = Len(t) - (b - a)
    /\ \A j \in a..b : ~t[j].ocupada
    /\ u[a].inicio = t[a].inicio /\ u[a].fin = t[b].fin /\ ~u[a].ocupada
    /\ u[a].fin = u[a].inicio + u[a].tamanio - 1
    /\ \A m \in 1..Len(u) : m < a => u[m] = t[m]
    /\ \A m \in 1..Len(u) : m > a => u[m] = t[m + (b - a)]

LEMMA FusionTabla ==
  ASSUME NEW t, Tabla(t), NEW u, NEW a \in 1..Len(t), NEW b \in 1..Len(t), a <= b,
         Fusion(t, u, a, b)
  PROVE  Tabla(u) /\ MismasOcupadas(t, u)
<1> DEFINE n == Len(t)
           l == Len(u)
           d == b - a
<1>1. n \in Nat \ {0} /\ d \in Nat /\ a \in Nat \ {0} /\ l = n - d /\ b = a + d
      /\ a <= l /\ l \in Nat \ {0} /\ 1 \in 1..l /\ l \in 1..l
  BY Filas DEF Fusion
<1>2. /\ u[a].inicio = t[a].inicio /\ u[a].fin = t[b].fin /\ ~u[a].ocupada
      /\ u[a].fin = u[a].inicio + u[a].tamanio - 1
      /\ \A m \in 1..l : m < a => u[m] = t[m]
      /\ \A m \in 1..l : m > a => u[m] = t[m + d]
      /\ \A j \in a..b : ~t[j].ocupada
  BY DEF Fusion
<1>3. /\ t[1].inicio = 0 /\ t[n].fin = TamMemoria - 1
      /\ \A k \in 1..n : t[k].fin = t[k].inicio + t[k].tamanio - 1
      /\ \A k \in 1..(n - 1) : t[k + 1].inicio = t[k].fin + 1
  BY DEF Tabla
<1>4. u \in Seq(Registro)
  BY DEF Fusion
<1> HIDE DEF n, l, d
<1>5. u[1].inicio = 0
  <2>1. CASE a = 1
    BY <2>1, <1>2, <1>3
  <2>2. CASE a > 1
    BY <2>2, <1>1, <1>2, <1>3
  <2> QED BY <2>1, <2>2, <1>1
<1>6. u[l].fin = TamMemoria - 1
  <2>1. CASE a = l
    <3>1. b = n
      BY <2>1, <1>1
    <3> QED BY <2>1, <3>1, <1>2, <1>3
  <2>2. CASE a < l
    <3>1. u[l] = t[l + d] /\ l + d = n
      BY <2>2, <1>1, <1>2
    <3> QED BY <3>1, <1>3
  <2> QED BY <2>1, <2>2, <1>1
<1>7. ASSUME NEW m \in 1..l PROVE u[m].fin = u[m].inicio + u[m].tamanio - 1
  <2>1. CASE m < a
    <3>1. u[m] = t[m] /\ m \in 1..n
      BY <2>1, <1>1, <1>2
    <3> QED BY <3>1, <1>3
  <2>2. CASE m = a
    BY <2>2, <1>2
  <2>3. CASE m > a
    <3>1. u[m] = t[m + d] /\ m + d \in 1..n
      BY <2>3, <1>1, <1>2
    <3> QED BY <3>1, <1>3
  <2> QED BY <2>1, <2>2, <2>3, <1>1
<1>8. ASSUME NEW m \in 1..(l - 1) PROVE u[m + 1].inicio = u[m].fin + 1
  <2>0. m \in 1..l /\ m + 1 \in 1..l
    BY <1>1
  <2>1. CASE m + 1 < a
    <3>1. u[m] = t[m] /\ u[m + 1] = t[m + 1] /\ m \in 1..(n - 1)
      BY <2>0, <2>1, <1>1, <1>2
    <3> QED BY <3>1, <1>3
  <2>2. CASE m + 1 = a
    <3>1. u[m] = t[m] /\ u[m + 1].inicio = t[m + 1].inicio /\ m \in 1..(n - 1)
      BY <2>0, <2>2, <1>1, <1>2
    <3> QED BY <3>1, <1>3
  <2>3. CASE m = a
    <3>1. u[m].fin = t[b].fin /\ u[m + 1] = t[m + 1 + d] /\ m + 1 + d = b + 1
          /\ b \in 1..(n - 1)
      BY <2>0, <2>3, <1>1, <1>2
    <3>2. t[b + 1].inicio = t[b].fin + 1
      BY <3>1, <1>3
    <3> QED BY <3>1, <3>2
  <2>4. CASE m > a
    <3>1. u[m] = t[m + d] /\ u[m + 1] = t[m + 1 + d] /\ m + d \in 1..(n - 1)
          /\ m + 1 + d = (m + d) + 1
      BY <2>0, <2>4, <1>1, <1>2
    <3>2. t[(m + d) + 1].inicio = t[m + d].fin + 1
      BY <3>1, <1>3
    <3> QED BY <3>1, <3>2
  <2> QED BY <2>0, <2>1, <2>2, <2>3, <2>4, <1>1
<1>9. Tabla(u)
  BY <1>1, <1>4, <1>5, <1>6, <1>7, <1>8 DEF Tabla, l
<1>10. ASSUME NEW j \in 1..n, t[j].ocupada PROVE \E m \in 1..l : u[m] = t[j]
  <2>1. ~(j \in a..b)
    BY <1>2, <1>10
  <2>2. CASE j < a
    <3>1. j \in 1..l /\ u[j] = t[j]
      BY <2>2, <1>1, <1>2
    <3> QED BY <3>1
  <2>3. CASE j > b
    <3>1. j - d \in 1..l /\ j - d > a /\ (j - d) + d = j
      BY <2>3, <1>1
    <3>2. u[j - d] = t[(j - d) + d]
      BY <3>1, <1>2
    <3> QED BY <3>1, <3>2
  <2> QED BY <2>1, <2>2, <2>3, <1>1
<1>11. ASSUME NEW m \in 1..l, u[m].ocupada PROVE \E j \in 1..n : u[m] = t[j]
  <2>1. m # a
    BY <1>2, <1>11
  <2>2. CASE m < a
    <3>1. u[m] = t[m] /\ m \in 1..n
      BY <2>2, <1>1, <1>2
    <3> QED BY <3>1
  <2>3. CASE m > a
    <3>1. u[m] = t[m + d] /\ m + d \in 1..n
      BY <2>3, <1>1, <1>2
    <3> QED BY <3>1
  <2>4. m < a \/ m > a
    BY <2>1, <1>1
  <2> QED BY <2>2, <2>3, <2>4
<1> QED BY <1>9, <1>10, <1>11 DEF MismasOcupadas, n, l

Medida(p) == /\ p.inicio \in Nat /\ p.fin \in Nat /\ p.tamanio \in Nat
             /\ p.fin = p.inicio + p.tamanio - 1

\* A partition and the next, as one.
LEMMA Unidas ==
  ASSUME NEW p \in Registro, NEW q \in Registro
  PROVE  /\ Unida(p, q) \in Registro
         /\ Unida(p, q).inicio = p.inicio /\ Unida(p, q).fin = q.fin
         /\ Unida(p, q).tamanio = p.tamanio + q.tamanio
         /\ Unida(p, q).ocupada = p.ocupada
<1> DEFINE n == p.tamanio + q.tamanio
           x == [p EXCEPT !.fin = q.fin, !.tamanio = @ + q.tamanio]
<1>1. n \in Nat \ {0} /\ q.fin \in Nat
  BY DEF Registro
<1>2. x.inicio = p.inicio /\ x.fin = q.fin /\ x.tamanio = n /\ x.ocupada = p.ocupada
  BY DEF Registro
<1>3. x \in Registro
  BY <1>1 DEF Registro
<1> QED BY <1>2, <1>3 DEF Unida

\* Of two partitions one after the other, the size still fits the ends.
LEMMA UnidasMedida ==
  ASSUME NEW p \in Registro, NEW q \in Registro, Medida(p), Medida(q),
         q.inicio = p.fin + 1
  PROVE  Medida(Unida(p, q))
<1> DEFINE a == p.inicio
           b == p.tamanio
           c == q.tamanio
           x == Unida(p, q)
           xi == x.inicio
           xf == x.fin
           xt == x.tamanio
<1>1. a \in Nat /\ b \in Nat /\ c \in Nat /\ p.fin = a + b - 1 /\ q.fin = (a + b - 1) + 1 + c - 1
      /\ q.fin \in Nat
  BY DEF Medida
<1>2. xi = a /\ xf = q.fin /\ xt = b + c
  BY Unidas
<1> HIDE DEF a, b, c, xi, xf, xt
<1>3. xi \in Nat /\ xf \in Nat /\ xt \in Nat /\ xf = xi + xt - 1
  BY <1>1, <1>2
<1> QED BY <1>3 DEF Medida, xi, xf, xt

\* The merge with the free neighbours, alone in memoria (administrativo.c:218-255)
LEMMA FundidaFusion ==
  ASSUME NEW t, Tabla(t), NEW k \in 1..Len(t), ~t[k].ocupada
  PROVE  \E a, b \in 1..Len(t) : a <= b /\ Fusion(t, Fundida(t, k, k), a, b)
<1> DEFINE n == Len(t)
           u == Fundida(t, k, k)
<1>1. /\ n \in Nat \ {0} /\ DOMAIN t = 1..n /\ t \in Seq(Registro) /\ k \in 1..n
      /\ \A j \in 1..n : /\ t[j] \in Registro /\ t[j].inicio \in Nat /\ t[j].fin \in Nat
                         /\ t[j].tamanio \in Nat \ {0}
                         /\ t[j].fin = t[j].inicio + t[j].tamanio - 1
      /\ \A j \in 1..(n - 1) : t[j + 1].inicio = t[j].fin + 1
  <2>1. t \in Seq(Registro)
    BY DEF Tabla
  <2>2. \A j \in 1..n : t[j].fin = t[j].inicio + t[j].tamanio - 1
    BY DEF Tabla
  <2>3. \A j \in 1..(n - 1) : t[j + 1].inicio = t[j].fin + 1
    BY DEF Tabla
  <2> QED BY <2>1, <2>2, <2>3, Filas
<1>2. ASSUME NEW a \in 1..n, NEW x \in Registro
      PROVE  /\ [t EXCEPT ![a] = x] \in Seq(Registro)
             /\ Len([t EXCEPT ![a] = x]) = n
             /\ \A j \in 1..n : [t EXCEPT ![a] = x][j] = IF j = a THEN x ELSE t[j]
  BY <1>1, ExceptSeq
<1>3. CASE LibreEn(t, k - 1) /\ LibreEn(t, k + 1)
  <2> DEFINE x == Unida(Unida(t[k - 1], t[k]), t[k + 1])
             v == [t EXCEPT ![k - 1] = x]
             w == RemoveAt(v, k + 1)
  <2>1. k - 1 \in 1..n /\ k + 1 \in 1..n /\ ~t[k - 1].ocupada /\ ~t[k + 1].ocupada
    BY <1>1, <1>3 DEF LibreEn
  <2>2. Unida(t[k - 1], t[k]) \in Registro
    BY <1>1, <2>1, Unidas
  <2>3. /\ x \in Registro /\ x.inicio = t[k - 1].inicio /\ x.fin = t[k + 1].fin
        /\ x.tamanio = t[k - 1].tamanio + t[k].tamanio + t[k + 1].tamanio
        /\ x.ocupada = t[k - 1].ocupada
    BY <1>1, <2>1, <2>2, Unidas
  <2>4. v = [t EXCEPT ![k - 1] = ConSiguiente(t, k, Unida(@, t[k]))]
    BY <1>3 DEF ConSiguiente
  <2>5. LibreEn(v, k + 1)
    <3>1. DOMAIN v = 1..n
      BY <1>1
    <3>2. v[k + 1] = t[k + 1]
      BY <1>1, <2>1
    <3> QED BY <2>1, <3>1, <3>2 DEF LibreEn
  <2> HIDE DEF x
  <2>6. /\ v \in Seq(Registro) /\ Len(v) = n
        /\ \A j \in 1..n : v[j] = IF j = k - 1 THEN x ELSE t[j]
    BY <1>2, <2>1, <2>3
  <2>7. u = RemoveAt(w, k)
    BY <1>3, <2>4, <2>5 DEF Fundida, SinSiguiente
  <2> HIDE DEF u, v
  <2>8. /\ w \in Seq(Registro) /\ Len(w) = n - 1
        /\ \A j \in 1..(n - 1) : w[j] = IF j < k + 1 THEN v[j] ELSE v[j + 1]
    BY <2>1, <2>6, QuitarPosicion
  <2> HIDE DEF w
  <2>9. /\ u \in Seq(Registro) /\ Len(u) = n - 2
        /\ \A j \in 1..(n - 2) : u[j] = IF j < k THEN w[j] ELSE w[j + 1]
    <3>1. k \in 1..Len(w)
      BY <1>1, <2>1, <2>8
    <3>2. /\ u \in Seq(Registro) /\ Len(u) = Len(w) - 1
          /\ \A j \in 1..(Len(w) - 1) : u[j] = IF j < k THEN w[j] ELSE w[j + 1]
      BY <2>7, <2>8, <3>1, QuitarPosicion
    <3>3. Len(w) - 1 = n - 2
      BY <1>1, <2>8
    <3> QED BY <3>2, <3>3
  <2>10. /\ u[k - 1] = x
         /\ \A m \in 1..(n - 2) : m < k - 1 => u[m] = t[m]
         /\ \A m \in 1..(n - 2) : m > k - 1 => u[m] = t[m + 2]
    <3>1. u[k - 1] = x
      BY <1>1, <2>1, <2>6, <2>8, <2>9
    <3>2. ASSUME NEW m \in 1..(n - 2), m < k - 1 PROVE u[m] = t[m]
      <4>1. u[m] = w[m] /\ m \in 1..(n - 1) /\ m < k + 1 /\ m \in 1..n /\ m # k - 1
        BY <1>1, <2>1, <2>9, <3>2
      <4>2. w[m] = v[m]
        BY <4>1, <2>8
      <4> QED BY <4>1, <4>2, <2>6
    <3>3. ASSUME NEW m \in 1..(n - 2), m > k - 1 PROVE u[m] = t[m + 2]
      <4>1. u[m] = w[m + 1] /\ m + 1 \in 1..(n - 1) /\ m + 1 >= k + 1
            /\ m + 2 \in 1..n /\ (m + 1) + 1 = m + 2 /\ m + 2 # k - 1
        BY <1>1, <2>1, <2>9, <3>3
      <4>2. w[m + 1] = v[m + 2]
        BY <4>1, <2>8, <1>1
      <4>3. v[m + 2] = t[m + 2]
        BY <4>1, <2>6
      <4> QED BY <4>1, <4>2, <4>3
    <3> QED BY <3>1, <3>2, <3>3
  <2>11. x.fin = x.inicio + x.tamanio - 1
    <3>1. k - 1 \in 1..(n - 1) /\ k \in 1..(n - 1) /\ (k - 1) + 1 = k
      BY <1>1, <2>1
    <3>2. t[(k - 1) + 1].inicio = t[k - 1].fin + 1 /\ t[k + 1].inicio = t[k].fin + 1
      BY <1>1, <3>1
    <3>3. Medida(t[k - 1]) /\ Medida(t[k]) /\ Medida(t[k + 1])
      BY <1>1, <2>1 DEF Medida
    <3> DEFINE y == Unida(t[k - 1], t[k])
    <3>4. Medida(y)
      BY <1>1, <2>1, <3>1, <3>2, <3>3, UnidasMedida
    <3>5. y \in Registro /\ y.fin = t[k].fin
      BY <1>1, <2>1, Unidas
    <3> HIDE DEF y
    <3>6. Medida(Unida(y, t[k + 1]))
      BY <1>1, <2>1, <3>2, <3>3, <3>4, <3>5, UnidasMedida
    <3>7. x = Unida(y, t[k + 1])
      BY DEF x, y
    <3> QED BY <3>6, <3>7 DEF Medida
  <2>12. ASSUME NEW j \in (k - 1)..(k + 1) PROVE ~t[j].ocupada
    <3>1. j = k - 1 \/ j = k \/ j = k + 1
      BY <1>1, <2>1
    <3> QED BY <2>1, <3>1
  <2>13. (k + 1) - (k - 1) = 2 /\ k - 1 <= k + 1
    BY <1>1
  <2>14. Fusion(t, u, k - 1, k + 1)
    BY <2>1, <2>3, <2>9, <2>10, <2>11, <2>12, <2>13 DEF Fusion
  <2> QED BY <2>1, <2>13, <2>14 DEF u
<1>4. CASE LibreEn(t, k - 1) /\ ~LibreEn(t, k + 1)
  <2> DEFINE x == Unida(t[k - 1], t[k])
             v == [t EXCEPT ![k - 1] = x]
  <2>1. k - 1 \in 1..n /\ ~t[k - 1].ocupada
    BY <1>1, <1>4 DEF LibreEn
  <2>3. /\ x \in Registro /\ x.inicio = t[k - 1].inicio /\ x.fin = t[k].fin
        /\ x.tamanio = t[k - 1].tamanio + t[k].tamanio
        /\ x.ocupada = t[k - 1].ocupada
    BY <1>1, <2>1, Unidas
  <2>4. v = [t EXCEPT ![k - 1] = ConSiguiente(t, k, Unida(@, t[k]))]
    BY <1>4 DEF ConSiguiente
  <2>5. ~LibreEn(v, k + 1)
    <3>1. DOMAIN v = 1..n
      BY <1>1
    <3>2. k + 1 \in 1..n => v[k + 1] = t[k + 1]
      BY <1>1, <2>1
    <3> QED BY <1>1, <1>4, <3>1, <3>2 DEF LibreEn
  <2> HIDE DEF x
  <2>6. /\ v \in Seq(Registro) /\ Len(v) = n
        /\ \A j \in 1..n : v[j] = IF j = k - 1 THEN x ELSE t[j]
    BY <1>2, <2>1, <2>3
  <2>7. u = RemoveAt(v, k)
    BY <1>4, <2>4, <2>5 DEF Fundida, SinSiguiente
  <2> HIDE DEF u, v
  <2>9. /\ u \in Seq(Registro) /\ Len(u) = n - 1
        /\ \A j \in 1..(n - 1) : u[j] = IF j < k THEN v[j] ELSE v[j + 1]
    <3>1. k \in 1..Len(v)
      BY <1>1, <2>6
    <3>2. /\ u \in Seq(Registro) /\ Len(u) = Len(v) - 1
          /\ \A j \in 1..(Len(v) - 1) : u[j] = IF j < k THEN v[j] ELSE v[j + 1]
      BY <2>6, <2>7, <3>1, QuitarPosicion
    <3> QED BY <2>6, <3>2
  <2>10. /\ u[k - 1] = x
         /\ \A m \in 1..(n - 1) : m < k - 1 => u[m] = t[m]
         /\ \A m \in 1..(n - 1) : m > k - 1 => u[m] = t[m + 1]
    <3>1. u[k - 1] = x
      BY <1>1, <2>1, <2>6, <2>9
    <3>2. ASSUME NEW m \in 1..(n - 1), m < k - 1 PROVE u[m] = t[m]
      BY <1>1, <2>1, <2>6, <2>9, <3>2
    <3>3. ASSUME NEW m \in 1..(n - 1), m > k - 1 PROVE u[m] = t[m + 1]
      BY <1>1, <2>1, <2>6, <2>9, <3>3
    <3> QED BY <3>1, <3>2, <3>3
  <2>11. x.fin = x.inicio + x.tamanio - 1
    <3>1. k - 1 \in 1..(n - 1) /\ (k - 1) + 1 = k
      BY <1>1, <2>1
    <3>2. t[(k - 1) + 1].inicio = t[k - 1].fin + 1
      BY <1>1, <3>1
    <3>3. Medida(t[k - 1]) /\ Medida(t[k])
      BY <1>1, <2>1 DEF Medida
    <3>4. Medida(x)
      BY <1>1, <2>1, <3>1, <3>2, <3>3, UnidasMedida DEF x
    <3> QED BY <3>4 DEF Medida
  <2>12. ASSUME NEW j \in (k - 1)..k PROVE ~t[j].ocupada
    <3>1. j = k - 1 \/ j = k
      BY <1>1, <2>1
    <3> QED BY <2>1, <3>1
  <2>13. k - (k - 1) = 1 /\ k - 1 <= k
    BY <1>1
  <2>14. Fusion(t, u, k - 1, k)
    BY <2>1, <2>3, <2>9, <2>10, <2>11, <2>12, <2>13 DEF Fusion
  <2> QED BY <1>1, <2>1, <2>13, <2>14 DEF u
<1>5. CASE ~LibreEn(t, k - 1) /\ LibreEn(t, k + 1)
  <2> DEFINE x == Unida(t[k], t[k + 1])
             v == [t EXCEPT ![k] = x]
  <2>1. k + 1 \in 1..n /\ ~t[k + 1].ocupada
    BY <1>1, <1>5 DEF LibreEn
  <2>3. /\ x \in Registro /\ x.inicio = t[k].inicio /\ x.fin = t[k + 1].fin
        /\ x.tamanio = t[k].tamanio + t[k + 1].tamanio
        /\ x.ocupada = t[k].ocupada
    BY <1>1, <2>1, Unidas
  <2>4. v = [t EXCEPT ![k] = ConSiguiente(t, k, @)]
    BY <1>5 DEF ConSiguiente
  <2>5. LibreEn(v, k + 1)
    <3>1. DOMAIN v = 1..n
      BY <1>1
    <3>2. v[k + 1] = t[k + 1]
      BY <1>1, <2>1
    <3> QED BY <2>1, <3>1, <3>2 DEF LibreEn
  <2> HIDE DEF x
  <2>6. /\ v \in Seq(Registro) /\ Len(v) = n
        /\ \A j \in 1..n : v[j] = IF j = k THEN x ELSE t[j]
    BY <1>1, <1>2, <2>3
  <2>7. u = RemoveAt(v, k + 1)
    BY <1>5, <2>4, <2>5 DEF Fundida, SinSiguiente
  <2> HIDE DEF u, v
  <2>9. /\ u \in Seq(Registro) /\ Len(u) = n - 1
        /\ \A j \in 1..(n - 1) : u[j] = IF j < k + 1 THEN v[j] ELSE v[j + 1]
    <3>1. k + 1 \in 1..Len(v)
      BY <2>1, <2>6
    <3>2. /\ u \in Seq(Registro) /\ Len(u) = Len(v) - 1
          /\ \A j \in 1..(Len(v) - 1) : u[j] = IF j < k + 1 THEN v[j] ELSE v[j + 1]
      BY <2>6, <2>7, <3>1, QuitarPosicion
    <3> QED BY <2>6, <3>2
  <2>10. /\ u[k] = x
         /\ \A m \in 1..(n - 1) : m < k => u[m] = t[m]
         /\ \A m \in 1..(n - 1) : m > k => u[m] = t[m + 1]
    <3>1. u[k] = x
      BY <1>1, <2>1, <2>6, <2>9
    <3>2. ASSUME NEW m \in 1..(n - 1), m < k PROVE u[m] = t[m]
      BY <1>1, <2>1, <2>6, <2>9, <3>2
    <3>3. ASSUME NEW m \in 1..(n - 1), m > k PROVE u[m] = t[m + 1]
      BY <1>1, <2>1, <2>6, <2>9, <3>3
    <3> QED BY <3>1, <3>2, <3>3
  <2>11. x.fin = x.inicio + x.tamanio - 1
    <3>1. k \in 1..(n - 1)
      BY <1>1, <2>1
    <3>2. t[k + 1].inicio = t[k].fin + 1
      BY <1>1, <3>1
    <3>3. Medida(t[k]) /\ Medida(t[k + 1])
      BY <1>1, <2>1 DEF Medida
    <3>4. Medida(x)
      BY <1>1, <2>1, <3>2, <3>3, UnidasMedida DEF x
    <3> QED BY <3>4 DEF Medida
  <2>12. ASSUME NEW j \in k..(k + 1) PROVE ~t[j].ocupada
    <3>1. j = k \/ j = k + 1
      BY <1>1, <2>1
    <3> QED BY <2>1, <3>1
  <2>13. (k + 1) - k = 1 /\ k <= k + 1
    BY <1>1
  <2>14. Fusion(t, u, k, k + 1)
    BY <2>1, <2>3, <2>9, <2>10, <2>11, <2>12, <2>13 DEF Fusion
  <2> QED BY <1>1, <2>1, <2>13, <2>14 DEF u
<1>6. CASE ~LibreEn(t, k - 1) /\ ~LibreEn(t, k + 1)
  <2>1. u = [t EXCEPT ![k] = t[k]]
    <3>1. LibreEn(t, k + 1) = FALSE
      BY <1>6 DEF LibreEn
    <3>2. ~LibreEn([t EXCEPT ![k] = t[k]], k + 1)
      BY <1>1, <1>6 DEF LibreEn
    <3> QED BY <1>6, <3>2 DEF Fundida, SinSiguiente, ConSiguiente
  <2>2. /\ u \in Seq(Registro) /\ Len(u) = n /\ \A j \in 1..n : u[j] = t[j]
    BY <1>1, <1>2, <2>1
  <2> HIDE DEF u
  <2>3. k - k = 0 /\ k <= k /\ n - 0 = n /\ \A m \in 1..n : m + 0 = m
    BY <1>1
  <2>4. \A j \in k..k : ~t[j].ocupada
    BY <1>1
  <2>5. Fusion(t, u, k, k)
    BY <1>1, <2>2, <2>3, <2>4 DEF Fusion
  <2> QED BY <1>1, <2>3, <2>5 DEF u
<1> QED BY <1>3, <1>4, <1>5, <1>6

(* A merge whose index is still the one of the freed partition keeps the   *)
(* partitions one after the other without holes, and every occupied one    *)
(* as it was (administrativo.c:218-255).                                   *)
THEOREM MemoriaFunde ==
  ASSUME NEW t, Tabla(t), NEW k \in 1..Len(t), ~t[k].ocupada
  PROVE  Tabla(Fundida(t, k, k)) /\ MismasOcupadas(t, Fundida(t, k, k))
<1>1. PICK a, b \in 1..Len(t) : a <= b /\ Fusion(t, Fundida(t, k, k), a, b)
  BY FundidaFusion
<1> DEFINE u == Fundida(t, k, k)
<1> HIDE DEF u
<1>2. a <= b /\ Fusion(t, u, a, b)
  BY <1>1 DEF u
<1>3. Tabla(u) /\ MismasOcupadas(t, u)
  BY <1>2, FusionTabla
<1> QED BY <1>3 DEF u

(* A split keeps the partitions one after the other without holes, leaves  *)
(* the rest as they were and gives the process at least what it asked for  *)
(* (administrativo.c:121-152).                                             *)
THEOREM MemoriaDivide ==
  ASSUME NEW t, Tabla(t), NEW k \in 1..Len(t), NEW n \in Nat \ {0}, t[k].tamanio >= n,
         Esquema = "DINAMICAS", NEW u, u = Dividida(t, k, n)
  PROVE  /\ Tabla(u) /\ k \in 1..Len(u)
         /\ u[k].inicio = t[k].inicio /\ u[k].ocupada = t[k].ocupada
         /\ u[k].tamanio >= n
         /\ \A j \in 1..Len(t) : j # k => \E m \in 1..Len(u) : u[m] = t[j]
         /\ \A m \in 1..Len(u) : u[m].ocupada =>
                m = k \/ \E j \in 1..Len(t) : u[m] = t[j]
<1> DEFINE p == t[k]
           r == [p EXCEPT !.tamanio = n, !.fin = p.inicio + n - 1]
           q == Libre(p.inicio + n, p.tamanio - n)
           v == [t EXCEPT ![k] = r]
           l == Len(t)
<1>1. /\ l \in Nat \ {0} /\ DOMAIN t = 1..l /\ t \in Seq(Registro) /\ k \in 1..l
      /\ \A j \in 1..l : /\ t[j] \in Registro /\ Medida(t[j])
      /\ \A j \in 1..(l - 1) : t[j + 1].inicio = t[j].fin + 1
      /\ t[1].inicio = 0 /\ t[l].fin = TamMemoria - 1
  <2>1. t \in Seq(Registro) /\ t[1].inicio = 0 /\ t[l].fin = TamMemoria - 1
    BY DEF Tabla
  <2>2. ASSUME NEW j \in 1..l PROVE Medida(t[j])
    <3>1. t[j].fin = t[j].inicio + t[j].tamanio - 1
      BY DEF Tabla
    <3> QED BY <3>1, Filas DEF Medida
  <2>3. \A j \in 1..(l - 1) : t[j + 1].inicio = t[j].fin + 1
    BY DEF Tabla
  <2> QED BY <2>1, <2>2, <2>3, Filas
<1>2. CASE ~(p.tamanio > n)
  <2>1. u = t
    BY <1>2 DEF Dividida
  <2> QED BY <2>1
<1>3. CASE p.tamanio > n
  <2>1. p \in Registro /\ Medida(p)
    BY <1>1
  <2>2. /\ r \in Registro /\ r.inicio = p.inicio /\ r.tamanio = n
        /\ r.fin = p.inicio + n - 1 /\ r.ocupada = p.ocupada
    <3>1. p.inicio + n - 1 \in Nat
      BY <2>1 DEF Medida
    <3>2. r \in Registro
      BY <2>1, <3>1 DEF Registro
    <3>3. r.inicio = p.inicio /\ r.tamanio = n /\ r.fin = p.inicio + n - 1
          /\ r.ocupada = p.ocupada
      BY <2>1 DEF Registro
    <3> QED BY <3>2, <3>3
  <2>3. /\ q \in Registro /\ q.inicio = p.inicio + n /\ q.tamanio = p.tamanio - n
        /\ q.fin = p.fin /\ q.ocupada = FALSE
    <3>1. /\ p.inicio + n \in Nat /\ p.tamanio - n \in Nat \ {0}
          /\ p.inicio + n + (p.tamanio - n) - 1 = p.fin /\ p.fin \in Nat
      BY <1>3, <2>1 DEF Medida
    <3> QED BY <3>1 DEF Libre, Registro
  <2>4. u = InsertAt(v, k + 1, q)
    <3>1. v = [t EXCEPT ![k].tamanio = n, ![k].fin = p.inicio + n - 1]
      BY <1>1
    <3> QED BY <1>3, <3>1, Zenon DEF Dividida
  <2> HIDE DEF r, q
  <2>5. /\ v \in Seq(Registro) /\ Len(v) = l
        /\ \A j \in 1..l : v[j] = IF j = k THEN r ELSE t[j]
    BY <1>1, <2>2, ExceptSeq
  <2> HIDE DEF v
  <2>6. /\ u \in Seq(Registro) /\ Len(u) = l + 1
        /\ \A j \in 1..(l + 1) :
              u[j] = IF j < k + 1 THEN v[j] ELSE IF j = k + 1 THEN q ELSE v[j - 1]
    <3>1. k + 1 \in 1..(Len(v) + 1)
      BY <1>1, <2>5
    <3>2. /\ u \in Seq(Registro) /\ Len(u) = Len(v) + 1
          /\ \A j \in 1..(Len(v) + 1) :
                u[j] = IF j < k + 1 THEN v[j] ELSE IF j = k + 1 THEN q ELSE v[j - 1]
      <4>1. v \in Seq(Registro) /\ q \in Registro
        BY <2>3, <2>5
      <4> DEFINE z == k + 1
                 o == InsertAt(v, z, q)
      <4>2. z \in 1..(Len(v) + 1)
        BY <3>1
      <4> HIDE DEF z
      <4>3. Insercion(o, Registro, v, z, q)
        BY <4>1, <4>2, InsertarPosicion
      <4>4. u = o
        BY <2>4 DEF z
      <4> HIDE DEF o
      <4> QED BY <4>3, <4>4 DEF z, Insercion
    <3> QED BY <2>5, <3>2
  <2>7. /\ u[k] = r /\ u[k + 1] = q
        /\ \A j \in 1..(l + 1) : j < k => u[j] = t[j]
        /\ \A j \in 1..(l + 1) : j > k + 1 => u[j] = t[j - 1]
    <3>1. u[k] = r /\ u[k + 1] = q
      BY <1>1, <2>5, <2>6
    <3>2. ASSUME NEW j \in 1..(l + 1), j < k PROVE u[j] = t[j]
      BY <1>1, <2>5, <2>6, <3>2
    <3>3. ASSUME NEW j \in 1..(l + 1), j > k + 1 PROVE u[j] = t[j - 1]
      <4>1. u[j] = v[j - 1] /\ j - 1 \in 1..l /\ j - 1 # k
        BY <1>1, <2>6, <3>3
      <4> QED BY <4>1, <2>5
    <3> QED BY <3>1, <3>2, <3>3
  <2> HIDE DEF p, l
  <2>8. u[1].inicio = 0
    <3>1. CASE k = 1
      BY <3>1, <1>1, <2>2, <2>7 DEF p
    <3>2. CASE k > 1
      <4>1. 1 \in 1..(l + 1) /\ 1 < k
        BY <1>1, <3>2
      <4> QED BY <4>1, <1>1, <2>7
    <3> QED BY <1>1, <3>1, <3>2
  <2>9. u[l + 1].fin = TamMemoria - 1
    <3>1. CASE k = l
      BY <3>1, <1>1, <2>3, <2>7 DEF p
    <3>2. CASE k < l
      <4>1. l + 1 \in 1..(l + 1) /\ l + 1 > k + 1 /\ (l + 1) - 1 = l
        BY <1>1, <3>2
      <4>2. u[l + 1] = t[(l + 1) - 1]
        BY <4>1, <2>7
      <4> QED BY <4>1, <4>2, <1>1
    <3> QED BY <1>1, <3>1, <3>2
  <2>10. ASSUME NEW j \in 1..(l + 1) PROVE Medida(u[j])
    <3>1. CASE j < k
      <4>1. u[j] = t[j] /\ j \in 1..l
        BY <3>1, <1>1, <2>7
      <4> QED BY <4>1, <1>1
    <3>2. CASE j = k
      BY <3>2, <2>1, <2>2, <2>7 DEF Medida
    <3>3. CASE j = k + 1
      <4>1. u[j].inicio = p.inicio + n /\ u[j].tamanio = p.tamanio - n /\ u[j].fin = p.fin
        BY <3>3, <2>3, <2>7
      <4>2. p.inicio \in Nat /\ p.tamanio \in Nat /\ p.fin \in Nat
            /\ p.fin = p.inicio + p.tamanio - 1
        BY <2>1 DEF Medida
      <4> DEFINE a == p.inicio
                 b == p.tamanio
      <4>3. /\ a \in Nat /\ b \in Nat /\ b > n
            /\ u[j].inicio = a + n /\ u[j].tamanio = b - n /\ u[j].fin = a + b - 1
        BY <1>3, <4>1, <4>2
      <4> HIDE DEF a, b
      <4>4. a + n \in Nat /\ b - n \in Nat /\ a + b - 1 \in Nat
            /\ a + b - 1 = (a + n) + (b - n) - 1
        BY <4>3
      <4> QED BY <4>3, <4>4 DEF Medida
    <3>4. CASE j > k + 1
      <4>1. u[j] = t[j - 1] /\ j - 1 \in 1..l
        BY <3>4, <1>1, <2>7
      <4> QED BY <4>1, <1>1
    <3> QED BY <1>1, <3>1, <3>2, <3>3, <3>4
  <2>11. ASSUME NEW j \in 1..l PROVE u[j + 1].inicio = u[j].fin + 1
    <3>1. CASE j + 1 < k
      <4>1. u[j] = t[j] /\ u[j + 1] = t[j + 1] /\ j \in 1..(l - 1)
        BY <3>1, <1>1, <2>7
      <4> QED BY <4>1, <1>1
    <3>2. CASE j + 1 = k
      <4>1. u[j] = t[j] /\ u[j + 1].inicio = t[j + 1].inicio /\ j \in 1..(l - 1)
        BY <3>2, <1>1, <2>2, <2>7 DEF p
      <4> QED BY <4>1, <1>1
    <3>3. CASE j = k
      <4>1. u[j].fin = p.inicio + n - 1 /\ u[j + 1].inicio = p.inicio + n
        BY <3>3, <2>2, <2>3, <2>7
      <4> QED BY <4>1, <2>1 DEF Medida
    <3>4. CASE j = k + 1
      <4>1. u[j].fin = t[k].fin /\ u[j + 1] = t[(j + 1) - 1] /\ (j + 1) - 1 = k + 1
            /\ k \in 1..(l - 1)
        BY <3>4, <1>1, <2>3, <2>7 DEF p
      <4>2. t[k + 1].inicio = t[k].fin + 1
        BY <4>1, <1>1
      <4> QED BY <4>1, <4>2
    <3>5. CASE j > k + 1
      <4>0. j \in 1..(l + 1) /\ j + 1 \in 1..(l + 1) /\ j + 1 > k + 1
            /\ (j + 1) - 1 = (j - 1) + 1 /\ j - 1 \in 1..(l - 1)
        BY <3>5, <1>1
      <4>1. u[j] = t[j - 1] /\ u[j + 1] = t[(j + 1) - 1] /\ (j + 1) - 1 = (j - 1) + 1
            /\ j - 1 \in 1..(l - 1)
        BY <3>5, <4>0, <2>7
      <4>2. t[(j - 1) + 1].inicio = t[j - 1].fin + 1
        BY <4>1, <1>1
      <4> QED BY <4>1, <4>2
    <3> QED BY <1>1, <3>1, <3>2, <3>3, <3>4, <3>5
  <2>12. Tabla(u)
    <3>1. Len(u) > 0 /\ Len(u) = l + 1 /\ (l + 1) - 1 = l
      BY <1>1, <2>6
    <3> QED BY <3>1, <2>6, <2>8, <2>9, <2>10, <2>11 DEF Tabla, Medida
  <2>13. k \in 1..Len(u) /\ u[k].inicio = t[k].inicio /\ u[k].ocupada = t[k].ocupada
         /\ u[k].tamanio >= n
    BY <1>1, <2>2, <2>6, <2>7 DEF p
  <2>14. ASSUME NEW j \in 1..l, j # k PROVE \E m \in 1..(l + 1) : u[m] = t[j]
    <3>1. CASE j < k
      <4>1. j \in 1..(l + 1)
        BY <1>1
      <4> QED BY <3>1, <4>1, <2>7
    <3>2. CASE j > k
      <4>1. j + 1 \in 1..(l + 1) /\ j + 1 > k + 1 /\ (j + 1) - 1 = j
        BY <3>2, <1>1
      <4>2. u[j + 1] = t[(j + 1) - 1]
        BY <4>1, <2>7
      <4> QED BY <4>1, <4>2
    <3> QED BY <1>1, <2>14, <3>1, <3>2
  <2>15. ASSUME NEW m \in 1..(l + 1), u[m].ocupada
         PROVE  m = k \/ \E j \in 1..l : u[m] = t[j]
    <3>1. m # k + 1
      BY <2>3, <2>7, <2>15
    <3>2. CASE m < k
      <4>1. m \in 1..l
        BY <3>2, <1>1
      <4> QED BY <3>2, <4>1, <2>7
    <3>3. CASE m > k + 1
      <4>1. m - 1 \in 1..l
        BY <3>3, <1>1
      <4> QED BY <3>3, <4>1, <2>7
    <3> QED BY <1>1, <3>1, <3>2, <3>3
  <2> QED BY <2>6, <2>12, <2>13, <2>14, <2>15 DEF l
<1> QED BY <1>2, <1>3
=============================================================================
