------------------------------ MODULE ComProps ------------------------------
(***************************************************************************)
(* What a connection between two modules must give.                        *)
(***************************************************************************)
EXTENDS Comunicaciones

Etiquetas == {"no", "valida", "pide", "cola", "saluda", "confirma", "op", "tamanio",
              "datos", "procesa", "espera", "fin"}

(* The connections are records of their type, and an accept thread is busy *)
(* only with a connection in its handshake.                                *)
TypeOK ==
    /\ \A c \in Conexiones :
          /\ con[c].pc.cli \in Etiquetas /\ con[c].pc.srv \in Etiquetas
          /\ con[c].cerro \subseteq {"cli", "srv"}
          /\ con[c].pedidas \in 0..Len(Guion[c])
    /\ \A s \in Servidores : acepta[s] # NULO =>
          Servidor(acepta[s]) = s /\ con[acepta[s]].pc.srv \in {"saluda", "confirma"}
    /\ fallo \in {"ninguno", "salida"}

(* Both sides split the stream at the same bytes (comunications.c:93,117): *)
(* what a side takes for a packet is the last one the other sent, whole    *)
(* and field by field, and a new one begins where it ended, although the   *)
(* request may follow the handshake in the same segment.                   *)
Encuadre ==
    \A c \in Conexiones :
        /\ con[c].pc.srv = "procesa" => Recibido(c, "srv") = Guion[c][con[c].pedidas]
        /\ con[c].pc.cli = "procesa" => Recibido(c, "cli") = Last(con[c].resultados)
        /\ \A l \in {"cli", "srv"} : con[c].pc[l] = "procesa" => con[c].ent[l] = <<>>

Hechas(c) ==
    IF c \in DOMAIN DumpDe THEN con[DumpDe[c]].resultados ELSE con[c].resultados

EnDisco(c) == IF c \in DOMAIN DumpDe THEN {Guion[DumpDe[c]][1].campos} ELSE {}

L == INSTANCE Llamadas WITH
    Clientes   <- Externas,
    Resultados <- Respuestas,
    Archivo    <- EnDisco,
    pedidas    <- [c \in Externas |-> con[c].pedidas],
    resultados <- [c \in Externas |-> Hechas(c)],
    respuestas <- [c \in Externas |-> con[c].respuestas]

(* Through the handshakes, the segments, the thread of memoria and the     *)
(* connection it opens to filesystem, each request is carried out once and *)
(* its client reads the answer it got: what the modules Kernel, Memoria,   *)
(* Filesystem and Cpu take for granted.                                    *)
CumpleLlamadas == L!Spec

(* Nobody waits for ever: each request is answered, though each accept     *)
(* thread does one handshake at a time (servidor_memoria.c:30-35) and      *)
(* memoria is a client of filesystem while the kernel waits for it.        *)
TodoPedidoSeContesta ==
    \A c \in Externas : <>(Len(con[c].respuestas) = Len(Guion[c]))

(* The dump on disk is the one memoria sent, of whatever size              *)
(* (memoria/src/operaciones_kernel.c:310-316).                             *)
DumpIntegro == guardado \subseteq {Guion[d][1].campos : d \in DeDump}
=============================================================================
