------------------------------- MODULE MCCom -------------------------------
(***************************************************************************)
(* Instances of Comunicaciones: the kernel, the CPU and a dump.           *)
(***************************************************************************)
EXTENDS ComProps, TLC

CONSTANTS k1, k2, u, f2

Pedido(op, campos) == [op |-> op, campos |-> campos]
Campo(v, n) == [v |-> v, n |-> n]
Dump(c, n) ==
    Pedido("MEMORY_DUMP", <<Campo(Numero(n), 1), Campo(<<"nombre", c>>, 2), Campo(<<"contenido", c>>, n)>>)

\* k1 creates a process and k2 dumps one; the CPU makes two requests.
Tres ==
    k1 :> <<Pedido("CREAR_PROCESO", <<Campo(Numero(1), 1), Campo(<<"archivo", k1>>, 2)>>)>>
    @@ k2 :> <<Pedido("MEMORY_DUMP", <<Campo(Numero(2), 1)>>)>>
    @@ u :> <<Pedido("OBTENER_INSTRUCCION", <<Campo(Numero(1), 1), Campo(Numero(0), 1)>>),
              Pedido("READ_MEM", <<Campo(Numero(5), 1)>>)>>
    @@ f2 :> <<Dump(k2, 3)>>

SuDump == k2 :> f2
CodigosUsados == PedidosKernel \cup PedidosCpu
                 \cup {"MENSAJE", "MEMORY_DUMP", "SUCCESS", "INFO", "SIZE_ERROR"}
ValoresUsados == {Numero(n) : n \in 0..5}
                 \cup {<<"archivo", k1>>, <<"nombre", k2>>, <<"contenido", k2>>}
=============================================================================
