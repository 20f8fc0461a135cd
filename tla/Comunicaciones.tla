--------------------------- MODULE Comunicaciones ---------------------------
(***************************************************************************)
(* utils/src/utils: the handshake and the packets every module speaks, on  *)
(* streams of bytes, with the servers that use them: memoria, whose accept *)
(* thread does the handshakes one by one and gives each connection a       *)
(* thread; and filesystem, which memoria calls for each dump.  The clients *)
(* are the threads of the kernel, one request for each connection, and the *)
(* CPU, which keeps its connection.                                        *)
(*                                                                         *)
(* A byte is a record: the value it is part of, and its place in it.  A    *)
(* recv returns no more than what has arrived and, where the network cuts, *)
(* any part of that.                                                       *)
(***************************************************************************)
EXTENDS Integers, SequencesExt

CONSTANTS
    DeKernel, DeCpu, DeDump,    \* connections, by who opens them
    Guion,                      \* the requests sent on each connection
    DumpDe,                     \* the connection that serves a MEMORY_DUMP
    Codigos,                    \* op_code
    Valores,                    \* what a field of a packet may hold
    Octetos,                    \* sizeof(uint32_t) and sizeof(int)
    Cortes,                     \* the network may deliver a packet in parts
    NULO

Conexiones == DeKernel \cup DeCpu \cup DeDump
Externas   == DeKernel \cup DeCpu
Servidores == {"HSMEMORIA", "HSFS"}

PedidosKernel == {"CREAR_PROCESO", "FIN_PROCESO", "CREAR_HILO", "FIN_HILO"}
PedidosCpu == {"OBTENER_CONTEXTO", "ACTUALIZAR_CONTEXTO", "OBTENER_INSTRUCCION",
               "READ_MEM", "WRITE_MEM"}

ASSUME ConstantesComunicaciones ==
    /\ Octetos \in Nat \ {0} /\ Cortes \in BOOLEAN
    /\ DeKernel \cap DeCpu = {} /\ Externas \cap DeDump = {} /\ NULO \notin Conexiones
    /\ PedidosKernel \cup PedidosCpu
          \cup {"MENSAJE", "MEMORY_DUMP", "SUCCESS", "SIZE_ERROR", "INFO"} \subseteq Codigos

\* Each client asks for what its module asks for.  A field has at least one byte: the
\* dump of a process of size 0, whose contents have none, is left out.
ASSUME GuionesComunicaciones ==
    /\ \A c \in Conexiones :
          Guion[c] \in Seq([op : Codigos, campos : Seq([v : Valores, n : Nat \ {0}])])
    /\ \A c \in DeKernel :
          Len(Guion[c]) = 1 /\ Guion[c][1].op \in PedidosKernel \cup {"MEMORY_DUMP"}
    /\ \A c \in DeCpu : \A i \in DOMAIN Guion[c] : Guion[c][i].op \in PedidosCpu
    /\ \A c \in DeDump : Len(Guion[c]) = 1 /\ Guion[c][1].op = "MEMORY_DUMP"
    /\ DOMAIN DumpDe = {c \in DeKernel : Guion[c][1].op = "MEMORY_DUMP"}
    /\ \A c \in DOMAIN DumpDe : DumpDe[c] \in DeDump
    /\ \A c, d \in DOMAIN DumpDe : DumpDe[c] = DumpDe[d] => c = d

VARIABLES
    con,        \* of each connection: see Cerrada and Nueva
    acepta,     \* the connection the accept thread of a server is busy with
    guardado,   \* filesystem: what it wrote
    fallo       \* filesystem: exit(EXIT_FAILURE)

vars == <<con, acepta, guardado, fallo>>

Otro(l) == IF l = "cli" THEN "srv" ELSE "cli"

-----------------------------------------------------------------------------
(* Bytes.  BASURA is what a buffer holds that nothing was written to.      *)

BASURA == <<"basura">>
Numero(n) == <<"numero", n>>

Bytes(v, n) == [k \in 1..n |-> [v |-> v, k |-> k]]

Valor(bs) ==
    IF \A k \in DOMAIN bs : bs[k].v = bs[1].v /\ bs[k].k = k THEN bs[1].v ELSE BASURA

\* agregar_a_paquete, of each field
Campos(campos) ==
    FlattenSeq([i \in DOMAIN campos |->
        Bytes(Numero(campos[i].n), Octetos) \o Bytes(campos[i].v, campos[i].n)])

\* Mutant: the size leaves out the length of the first field.
SerializadoCorto(p) ==
    LET datos == Campos(p.campos)
    IN  Bytes(<<"op", p.op>>, 1) \o Bytes(Numero(Len(datos) - Octetos), Octetos) \o datos

\* enviar_paquete
Serializado(p) ==
    LET datos == Campos(p.campos)
    IN  Bytes(<<"op", p.op>>, 1) \o Bytes(Numero(Len(datos)), Octetos) \o datos

\* quitar_de_buffer, of the size of the field that begins at i: 0 when it is none,
\* or is more than what is left.
Largo(bs, i) ==
    LET quedan == Len(bs) + 1 - (i + Octetos)
        largo  == IF quedan > 0 THEN Valor(SubSeq(bs, i, i + Octetos - 1)) ELSE BASURA
    IN  IF largo \in {Numero(n) : n \in 1..quedan} THEN largo[2] ELSE 0

\* and of its bytes
Quitado(bs, i) ==
    LET n == Largo(bs, i) IN
    [v |-> IF n = 0 THEN BASURA ELSE Valor(SubSeq(bs, i + Octetos, i + Octetos + n - 1)),
     n |-> n]

\* deserealizar_paquete.  After a size that is none the rest is garbage.
Deserealizado(bs) ==
    LET lista[i \in 1..(Len(bs) + 1)] ==
            IF i > Len(bs) THEN <<>>
            ELSE <<Quitado(bs, i)>> \o lista[IF Largo(bs, i) = 0 THEN Len(bs) + 1
                                             ELSE i + Octetos + Largo(bs, i)]
    IN  lista[1]

-----------------------------------------------------------------------------
(* send and recv on one connection, a record                               *)

Va(r, l, etiqueta) == [r EXCEPT !.pc[l] = etiqueta]
Cierra(r, l) == [Va(r, l, "fin") EXCEPT !.cerro = @ \cup {l}]
Quita(r, l, k) == [r EXCEPT !.ent[l] = SubSeq(@, k + 1, Len(@))]

Envia(r, l, bs) ==
    IF Otro(l) \in r.cerro THEN r ELSE [r EXCEPT !.ent[Otro(l)] = @ \o bs]

\* Mutant: it waits for one byte more.
CompletoDeMas(r, l, n) == Len(r.ent[l]) > n \/ Otro(l) \in r.cerro

\* recv with MSG_WAITALL returns n bytes, or what there is when the peer closes.
Completo(r, l, n) == Len(r.ent[l]) >= n \/ Otro(l) \in r.cerro

\* recv without it: how many bytes it may return.  The cut falls anywhere, between two
\* fields or inside one.
Llegan(r, l, n) ==
    LET hay == IF n < Len(r.ent[l]) THEN n ELSE Len(r.ent[l])
    IN  IF hay > 0 THEN {k \in 1..hay : Cortes \/ k = hay}
        ELSE IF Otro(l) \in r.cerro THEN {0} ELSE {}

Saludo(r, l) ==
    IF Len(r.ent[l]) < Octetos THEN BASURA ELSE Valor(SubSeq(r.ent[l], 1, Octetos))

EnviaPaquete(r, l, p) == Envia(r, l, Serializado(p))

En(c, l, etiqueta) == fallo = "ninguno" /\ con[c].pc[l] = etiqueta

-----------------------------------------------------------------------------
(* hs_client_to_module_valid and the request.  The result of the handshake *)
(* is not looked at by any of its callers.                                 *)

Origen(c)   == IF c \in DeKernel THEN "HSKERNEL" ELSE IF c \in DeCpu THEN "HSCPU" ELSE "HSMEMORIA"
Servidor(c) == IF c \in DeDump THEN "HSFS" ELSE "HSMEMORIA"

Abierta(r, c) ==
    [Envia(r, "cli", Bytes(<<"hs", Origen(c)>>, Octetos)) EXCEPT
        !.pc = [cli |-> "valida", srv |-> "cola"]]

\* create_connection, and the first send
Conectar(c) ==
    /\ c \in Externas /\ En(c, "cli", "no")
    /\ con' = [con EXCEPT ![c] = Abierta(@, c)]
    /\ UNCHANGED <<acepta, guardado, fallo>>

Validar(c) ==
    LET r == con[c]
        s == IF Saludo(r, "cli") = <<"hs", Servidor(c)>> THEN "HSOK" ELSE "HSFAIL"
    IN  /\ En(c, "cli", "valida") /\ Completo(r, "cli", Octetos)
        /\ con' = [con EXCEPT ![c] =
               Va(Envia(Quita(r, "cli", Octetos), "cli", Bytes(<<"hs", s>>, Octetos)),
                  "cli", "pide")]
        /\ UNCHANGED <<acepta, guardado, fallo>>

Pedir(c) ==
    LET r == con[c] IN
    /\ En(c, "cli", "pide") /\ r.pedidas < Len(Guion[c])
    /\ con' = [con EXCEPT ![c] =
           [Va(EnviaPaquete(r, "cli", Guion[c][r.pedidas + 1]), "cli", "op")
                EXCEPT !.pedidas = @ + 1]]
    /\ UNCHANGED <<acepta, guardado, fallo>>

-----------------------------------------------------------------------------
(* recibir_paquete, of both sides: three recv, whose results are ignored   *)

Ops == {<<"op", o>> : o \in Codigos}

\* The byte that is left of a packet that was cut is some code.
RecibirOp(c, l) ==
    LET r == con[c] IN
    /\ En(c, l, "op")
    /\ \E k \in Llegan(r, l, 1) :
       \E op \in IF k = 1 /\ r.ent[l][1].v \in Ops THEN {r.ent[l][1].v} ELSE Ops :
          con' = [con EXCEPT ![c] =
              [Va(Quita(r, l, k), l, "tamanio") EXCEPT !.rx[l].op = op]]
    /\ UNCHANGED <<acepta, guardado, fallo>>

RecibirTamanio(c, l) ==
    LET r == con[c] IN
    /\ En(c, l, "tamanio")
    /\ \E k \in Llegan(r, l, Octetos) :
          con' = [con EXCEPT ![c] =
              [Va(Quita(r, l, k), l, "datos") EXCEPT !.rx[l].tamanio =
                  IF k = Octetos THEN Valor(SubSeq(r.ent[l], 1, Octetos)) ELSE BASURA]]
    /\ UNCHANGED <<acepta, guardado, fallo>>

\* Of a size that was not read, anything; here, what has arrived.
RecibirDatos(c, l) ==
    LET r      == con[c]
        t      == r.rx[l].tamanio
        espera == IF t # BASURA /\ t[1] = "numero" THEN t[2] ELSE Len(r.ent[l])
    IN  /\ En(c, l, "datos")
        /\ \E k \in IF espera = 0 THEN {0} ELSE Llegan(r, l, espera) :
              con' = [con EXCEPT ![c] =
                  [Va(Quita(r, l, k), l, "procesa") EXCEPT !.rx[l].datos =
                      SubSeq(r.ent[l], 1, k) \o Bytes(BASURA, espera - k)]]
        /\ UNCHANGED <<acepta, guardado, fallo>>

Recibido(c, l) ==
    [op |-> con[c].rx[l].op[2], campos |-> Deserealizado(con[c].rx[l].datos)]

-----------------------------------------------------------------------------
(* The servers                                                             *)

\* client_wait, and the first half of the handshake
Aceptar(c) ==
    LET s == Servidor(c) IN
    /\ En(c, "srv", "cola") /\ acepta[s] = NULO
    /\ acepta' = [acepta EXCEPT ![s] = c]
    /\ con' = [con EXCEPT ![c] = Va(@, "srv", "saluda")]
    /\ UNCHANGED <<guardado, fallo>>

Saludar(c) ==
    LET r == con[c] IN
    /\ En(c, "srv", "saluda") /\ Completo(r, "srv", Octetos)
    /\ con' = [con EXCEPT ![c] =
           [Va(Envia(Quita(r, "srv", Octetos), "srv", Bytes(<<"hs", Servidor(c)>>, Octetos)),
               "srv", "confirma") EXCEPT !.quien = Saludo(r, "srv")]]
    /\ UNCHANGED <<acepta, guardado, fallo>>

\* Mutant: the accept thread stays with the connection.
ConfirmarSinSoltar(c) ==
    LET r == con[c] IN
    /\ En(c, "srv", "confirma") /\ Completo(r, "srv", Octetos)
    /\ con' = [con EXCEPT ![c] = Va(Quita(r, "srv", Octetos), "srv", "op")]
    /\ UNCHANGED <<acepta, guardado, fallo>>

\* hs_server_to_module_get_type decides which requests memoria will read;
\* filesystem reads them whatever hs_server_to_module_valid says.
Confirmar(c) ==
    LET r     == con[c]
        ok    == Saludo(r, "srv") = <<"hs", "HSOK">>
        sigue == Quita(r, "srv", Octetos)
    IN  /\ En(c, "srv", "confirma") /\ Completo(r, "srv", Octetos)
        /\ con' = [con EXCEPT ![c] =
               IF c \in DeDump \/ (ok /\ r.quien \in {<<"hs", "HSKERNEL">>, <<"hs", "HSCPU">>})
               THEN Va(sigue, "srv", "op") ELSE Cierra(sigue, "srv")]
        /\ acepta' = [acepta EXCEPT ![Servidor(c)] = NULO]
        /\ UNCHANGED <<guardado, fallo>>

Contesta(r, p) == [EnviaPaquete(r, "srv", p) EXCEPT !.resultados = Append(@, p)]
Simple(op) == [op |-> op, campos |-> <<>>]

\* What memoria answers to a request, and filesystem to a dump
Respuestas(p) ==
    CASE p.op \in PedidosKernel -> {Simple("SUCCESS"), Simple("SIZE_ERROR")}
      [] p.op \in PedidosCpu    -> {[op |-> "INFO", campos |-> p.campos]}
      [] p.op = "MEMORY_DUMP"   -> {Simple("SUCCESS"), Simple("MEMORY_DUMP")}

\* procesar_peticion_kernel: one request, and the connection is closed
ProcesarKernel(c) ==
    LET p == Recibido(c, "srv") IN
    /\ c \in DeKernel /\ En(c, "srv", "procesa")
    /\ IF p.op = "MEMORY_DUMP"          \* memory_dump
       THEN con' = [con EXCEPT ![c] = Va(@, "srv", "espera"),
                               ![DumpDe[c]] = Abierta(@, DumpDe[c])]
       ELSE \E r \in IF p.op \in PedidosKernel
                     THEN {Contesta(con[c], a) : a \in Respuestas(p)} ELSE {con[c]} :
                con' = [con EXCEPT ![c] = Cierra(r, "srv")]
    /\ UNCHANGED <<acepta, guardado, fallo>>

\* Mutant: any answer of filesystem will do.
PasarExito(c) ==
    LET d == DumpDe[c] IN
    /\ c \in DOMAIN DumpDe /\ En(c, "srv", "espera") /\ En(d, "cli", "procesa")
    /\ con' = [con EXCEPT
           ![c] = Cierra(Contesta(@, Simple("SUCCESS")), "srv"),
           ![d] = Cierra([con[d] EXCEPT !.respuestas = Append(@, Recibido(d, "cli"))], "cli")]
    /\ UNCHANGED <<acepta, guardado, fallo>>

\* memory_dump passes on the operation code of the answer.
PasarRespuesta(c) ==
    LET d == DumpDe[c] IN
    /\ c \in DOMAIN DumpDe /\ En(c, "srv", "espera") /\ En(d, "cli", "procesa")
    /\ con' = [con EXCEPT
           ![c] = Cierra(Contesta(@, Simple(Recibido(d, "cli").op)), "srv"),
           ![d] = Cierra([con[d] EXCEPT !.respuestas = Append(@, Recibido(d, "cli"))], "cli")]
    /\ UNCHANGED <<acepta, guardado, fallo>>

\* procesar_peticion_cpu: until a code that is none of its own
ProcesarCpu(c) ==
    LET p == Recibido(c, "srv") IN
    /\ c \in DeCpu /\ En(c, "srv", "procesa")
    /\ IF p.op \in PedidosCpu
       THEN \E a \in Respuestas(p) :
                con' = [con EXCEPT ![c] = Va(Contesta(@, a), "srv", "op")]
       ELSE con' = [con EXCEPT ![c] = Cierra(@, "srv")]
    /\ UNCHANGED <<acepta, guardado, fallo>>

\* atender_memory_dump
ProcesarDump(c) ==
    LET p == Recibido(c, "srv") IN
    /\ c \in DeDump /\ En(c, "srv", "procesa")
    /\ IF p.op = "MEMORY_DUMP"
       THEN /\ \E a \in Respuestas(p) :
                  /\ con' = [con EXCEPT ![c] = Cierra(Contesta(@, a), "srv")]
                  /\ guardado' = IF a.op = "SUCCESS" THEN guardado \cup {p.campos}
                                 ELSE guardado
            /\ UNCHANGED fallo
       ELSE fallo' = "salida" /\ UNCHANGED <<con, guardado>>
    /\ UNCHANGED acepta

\* The client has the answer: the kernel closes, the CPU goes on.
Leer(c) ==
    LET r == con[c] IN
    /\ c \in Externas /\ En(c, "cli", "procesa")
    /\ con' = [con EXCEPT ![c] =
           [IF c \in DeKernel THEN Cierra(r, "cli") ELSE Va(r, "cli", "pide")
                EXCEPT !.respuestas = Append(@, Recibido(c, "cli"))]]
    /\ UNCHANGED <<acepta, guardado, fallo>>

-----------------------------------------------------------------------------

Nada  == [op |-> <<"op", "MENSAJE">>, tamanio |-> Numero(0), datos |-> <<>>]
Nueva == [ent |-> [cli |-> <<>>, srv |-> <<>>], cerro |-> {},
          pc |-> [cli |-> "no", srv |-> "no"], rx |-> [cli |-> Nada, srv |-> Nada],
          quien |-> BASURA, pedidas |-> 0, resultados |-> <<>>, respuestas |-> <<>>]

Init ==
    /\ con = [c \in Conexiones |-> Nueva]
    /\ acepta = [s \in Servidores |-> NULO]
    /\ guardado = {} /\ fallo = "ninguno"

Cliente(c) ==
    \/ Conectar(c) \/ Validar(c) \/ Pedir(c) \/ Leer(c)
    \/ RecibirOp(c, "cli") \/ RecibirTamanio(c, "cli") \/ RecibirDatos(c, "cli")

Atencion(c) ==
    \/ RecibirOp(c, "srv") \/ RecibirTamanio(c, "srv") \/ RecibirDatos(c, "srv")
    \/ ProcesarKernel(c) \/ PasarRespuesta(c) \/ ProcesarCpu(c) \/ ProcesarDump(c)

Aceptacion(s) ==
    \E c \in {d \in Conexiones : Servidor(d) = s} : Aceptar(c) \/ Saludar(c) \/ Confirmar(c)

Next ==
    \/ \E c \in Conexiones : Cliente(c) \/ Atencion(c)
    \/ \E s \in Servidores : Aceptacion(s)

Spec == Init /\ [][Next]_vars

\* Every thread ends or waits for a stream, so it is enough that one that can
\* run does.
Fairness == WF_vars(Next)

FairSpec == Spec /\ Fairness
=============================================================================
