----------------------------- MODULE Asignador -----------------------------
(***************************************************************************)
(* What memoria promises to the kernel and to the CPU: a process it admits *)
(* has a range of user memory of its own, as large as it asked for, which  *)
(* stays where it is until the process ends.                               *)
(***************************************************************************)
EXTENDS Integers

CONSTANTS Procesos, Tamano, Techo   \* processes, the size of each, memory size

VARIABLE rango      \* the range of each admitted process

Disjuntos(r, s) == r.limite < s.base \/ s.limite < r.base

Init == rango = [p \in {} |-> 0]

Otorgar(p) ==
    /\ p \notin DOMAIN rango
    /\ \E b, l \in 0..(Techo - 1) :
        LET r == [base |-> b, limite |-> l] IN
        /\ l - b + 1 >= Tamano[p]
        /\ \A q \in DOMAIN rango : Disjuntos(r, rango[q])
        /\ rango' = [q \in DOMAIN rango \cup {p} |-> IF q = p THEN r ELSE rango[q]]

Devolver(p) ==
    /\ p \in DOMAIN rango
    /\ rango' = [q \in DOMAIN rango \ {p} |-> rango[q]]

Next == \E p \in Procesos : Otorgar(p) \/ Devolver(p)

Spec == Init /\ [][Next]_rango
=============================================================================
