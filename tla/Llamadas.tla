------------------------------ MODULE Llamadas ------------------------------
(***************************************************************************)
(* What the modules take a connection for: a client makes one request at a *)
(* time, it is carried out once, and the answer the client reads is the    *)
(* one its own request got.  A dump that is answered SUCCESS is on disk as *)
(* it was in memory.                                                       *)
(***************************************************************************)
EXTENDS Naturals, Sequences

CONSTANTS
    Clientes,
    Guion,          \* the requests of each client, in order
    Resultados(_),  \* the answers a request may get
    Archivo(_)      \* what the request of a client leaves on disk if it succeeds

VARIABLES
    pedidas,        \* of each client: how many it made
    resultados,     \* and what came of each
    respuestas,     \* and what it was told
    guardado

vars == <<pedidas, resultados, respuestas, guardado>>

Init ==
    /\ pedidas = [c \in Clientes |-> 0]
    /\ resultados = [c \in Clientes |-> <<>>]
    /\ respuestas = [c \in Clientes |-> <<>>]
    /\ guardado = {}

Pedir(c) ==
    /\ pedidas[c] = Len(respuestas[c]) /\ pedidas[c] < Len(Guion[c])
    /\ pedidas' = [pedidas EXCEPT ![c] = @ + 1]
    /\ UNCHANGED <<resultados, respuestas, guardado>>

Hacer(c) ==
    LET pedido == Guion[c][pedidas[c]] IN
    /\ Len(resultados[c]) < pedidas[c]
    /\ \E r \in Resultados(pedido) :
          /\ resultados' = [resultados EXCEPT ![c] = Append(@, r)]
          /\ guardado' = IF r.op = "SUCCESS" THEN guardado \cup Archivo(c)
                         ELSE guardado
    /\ UNCHANGED <<pedidas, respuestas>>

Contestar(c) ==
    /\ Len(respuestas[c]) < Len(resultados[c])
    /\ respuestas' = [respuestas EXCEPT ![c] = Append(@, resultados[c][Len(@) + 1])]
    /\ UNCHANGED <<pedidas, resultados, guardado>>

Next == \E c \in Clientes : Pedir(c) \/ Hacer(c) \/ Contestar(c)

Spec == Init /\ [][Next]_vars
=============================================================================
