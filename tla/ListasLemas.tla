---------------------------- MODULE ListasLemas ----------------------------
(***************************************************************************)
(* Facts about the list operations of the commons library the modules use: *)
(* list_remove (RemoveAt), list_remove_element (RemoveFirst) and the       *)
(* membership of an element in a list (ToSet).  Also the recursion on the  *)
(* naturals that the definitions of the packets and of the words use.      *)
(***************************************************************************)
EXTENDS Integers, Sequences, SequencesExt, SequenceTheorems, WellFoundedInduction,
        TLAPS

(* A nonempty set of naturals has a least element, the one Min picks.      *)
LEMMA MinimoExiste ==
    ASSUME NEW I \in SUBSET Nat, I # {}
    PROVE  Min(I) \in I /\ \A y \in I : Min(I) <= y
<1>1. PICK x \in I : \A y \in I : ~(<<y, x>> \in OpToRel(<, Nat))
  BY NatLessThanWellFounded, WFMin, Zenon
<1>2. \A y \in I : y \in Nat /\ x \in Nat /\ ~(y < x)
  BY <1>1 DEF OpToRel
<1>3. \A y \in I : x <= y
  BY <1>2
<1>4. \E z \in I : \A y \in I : z <= y
  BY <1>3
<1> QED
  BY <1>4 DEF Min

(* list_remove at a valid index keeps the other elements, in order.        *)
LEMMA QuitarPosicion ==
    ASSUME NEW S, NEW s \in Seq(S), NEW k \in 1..Len(s)
    PROVE  /\ RemoveAt(s, k) \in Seq(S)
           /\ Len(RemoveAt(s, k)) = Len(s) - 1
           /\ \A m \in 1..(Len(s) - 1) :
                 RemoveAt(s, k)[m] = IF m < k THEN s[m] ELSE s[m + 1]
<1> DEFINE a == SubSeq(s, 1, k - 1)
           b == SubSeq(s, k + 1, Len(s))
<1>0. Len(s) \in Nat /\ \A n \in 1..Len(s) : s[n] \in S
  BY LenProperties, ElementOfSeq
<1>1. /\ a \in Seq(S) /\ Len(a) = k - 1
      /\ \A n \in 1..(k - 1) : a[n] = s[n]
  <2>1. \A n \in 1..(k - 1) : s[n] \in S
    BY <1>0
  <2> QED
    BY <1>0, <2>1, SubSeqProperties, Z3
<1>2. /\ b \in Seq(S) /\ Len(b) = Len(s) - k
      /\ \A n \in 1..(Len(s) - k) : b[n] = s[n + k]
  <2>1. \A n \in (k + 1)..Len(s) : s[n] \in S
    BY <1>0
  <2> QED
    BY <1>0, <2>1, SubSeqProperties, Z3
<1>3. RemoveAt(s, k) = a \o b
  BY DEF RemoveAt
<1> HIDE DEF a, b
<1>4. /\ a \o b \in Seq(S)
      /\ Len(a \o b) = Len(a) + Len(b)
      /\ \A m \in 1..(Len(a) + Len(b)) :
            (a \o b)[m] = IF m <= Len(a) THEN a[m] ELSE b[m - Len(a)]
  BY <1>1, <1>2, ConcatProperties
<1> QED
  BY <1>0, <1>1, <1>2, <1>3, <1>4

\* o is s, of elements of S, with e inserted at k.
Insercion(o, S, s, k, e) ==
    /\ o \in Seq(S) /\ Len(o) = Len(s) + 1
    /\ \A m \in 1..(Len(s) + 1) :
          o[m] = IF m < k THEN s[m] ELSE IF m = k THEN e ELSE s[m - 1]

(* list_add followed by list_sort, as InsertAt: the new element is at its  *)
(* place and those from there on are one further.                          *)
LEMMA InsertarPosicion ==
    ASSUME NEW S, NEW s \in Seq(S), NEW k \in 1..(Len(s) + 1), NEW e \in S
    PROVE  Insercion(InsertAt(s, k, e), S, s, k, e)
<1> DEFINE a == SubSeq(s, 1, k - 1)
           b == SubSeq(s, k, Len(s))
           c == a \o <<e>>
<1>0. Len(s) \in Nat /\ \A n \in 1..Len(s) : s[n] \in S
  BY LenProperties, ElementOfSeq
<1>1. /\ a \in Seq(S) /\ Len(a) = k - 1
      /\ \A n \in 1..(k - 1) : a[n] = s[n]
  <2>1. \A n \in 1..(k - 1) : s[n] \in S
    BY <1>0
  <2> QED
    BY <1>0, <2>1, SubSeqProperties, Z3
<1>2. /\ b \in Seq(S) /\ Len(b) = Len(s) - k + 1
      /\ \A n \in 1..(Len(s) - k + 1) : b[n] = s[n + k - 1]
  <2>1. \A n \in k..Len(s) : s[n] \in S
    BY <1>0
  <2> QED
    BY <1>0, <2>1, SubSeqProperties, Z3
<1>3. InsertAt(s, k, e) = c \o b
  BY DEF InsertAt
<1>4. <<e>> \in Seq(S) /\ Len(<<e>>) = 1 /\ <<e>>[1] = e
  OBVIOUS
<1> HIDE DEF a, b
<1>5. /\ c \in Seq(S) /\ Len(c) = Len(a) + 1
      /\ \A m \in 1..(Len(a) + 1) : c[m] = IF m <= Len(a) THEN a[m] ELSE e
  BY <1>1, <1>4, ConcatProperties
<1> HIDE DEF c
<1>6. /\ c \o b \in Seq(S)
      /\ Len(c \o b) = Len(c) + Len(b)
      /\ \A m \in 1..(Len(c) + Len(b)) :
            (c \o b)[m] = IF m <= Len(c) THEN c[m] ELSE b[m - Len(c)]
  BY <1>2, <1>5, ConcatProperties
<1> QED
  BY <1>0, <1>1, <1>2, <1>3, <1>5, <1>6 DEF Insercion

(* list_remove_element removes at most one element and invents none; it    *)
(* shortens the list exactly when the element was in it.                   *)
LEMMA QuitarElemento ==
    ASSUME NEW S, NEW s \in Seq(S), NEW e
    PROVE  /\ RemoveFirst(s, e) \in Seq(S)
           /\ Len(RemoveFirst(s, e)) <= Len(s)
           /\ e \in ToSet(s) => Len(RemoveFirst(s, e)) = Len(s) - 1
<1>0. Len(s) \in Nat /\ DOMAIN s = 1..Len(s)
  BY LenProperties
<1> DEFINE I == {i \in 1..Len(s) : s[i] = e}
           r == RemoveFirst(s, e)
<1>1. (\E i \in 1..Len(s) : s[i] = e) => r = RemoveAt(s, Min(I))
  BY Zenon DEF RemoveFirst, SelectInSeq
<1>2. ~(\E i \in 1..Len(s) : s[i] = e) => r = s
  BY Zenon DEF RemoveFirst
<1>3. (\E i \in 1..Len(s) : s[i] = e) <=> e \in ToSet(s)
  BY <1>0 DEF ToSet
<1>4. e \in ToSet(s) => Min(I) \in 1..Len(s)
  <2> SUFFICES ASSUME e \in ToSet(s) PROVE Min(I) \in 1..Len(s)
    OBVIOUS
  <2>1. I \in SUBSET Nat /\ I # {}
    BY <1>0, <1>3
  <2> QED
    BY <2>1, MinimoExiste
<1> HIDE DEF r, I
<1>5. /\ r \in Seq(S)
      /\ Len(r) <= Len(s)
      /\ e \in ToSet(s) => Len(r) = Len(s) - 1
  <2>1. CASE e \in ToSet(s)
    <3>1. r = RemoveAt(s, Min(I)) /\ Min(I) \in 1..Len(s)
      BY <2>1, <1>1, <1>3, <1>4, Zenon
    <3>2. r \in Seq(S) /\ Len(r) = Len(s) - 1
      BY <3>1, QuitarPosicion, Zenon
    <3> QED
      BY <3>2, <1>0
  <2>2. CASE e \notin ToSet(s)
    <3>1. r = s
      BY <2>2, <1>2, <1>3, Zenon
    <3>2. Len(s) <= Len(s)
      BY <1>0
    <3> QED
      BY <3>1, <3>2, <2>2, Zenon
  <2> QED
    BY <2>1, <2>2
<1> QED
  BY <1>5, Zenon DEF r

(* The elements of a list belong to the set it is a list of.               *)
LEMMA ElementosDeLista ==
    ASSUME NEW S, NEW s \in Seq(S)
    PROVE  /\ ToSet(s) \subseteq S
           /\ s # <<>> => s[1] \in S /\ s[Len(s)] \in S /\ Len(s) \in Nat \ {0}
           /\ \A k \in DOMAIN s : s[k] \in S /\ k \in Nat \ {0} /\ k <= Len(s)
  BY LenProperties, ElementOfSeq, EmptySeq DEF ToSet
-----------------------------------------------------------------------------
(* Lists that hold each element once.                                      *)

SinDobles(s) == \A k, m \in DOMAIN s : k # m => s[k] # s[m]

(* list_remove(l, k - 1): that element leaves, the others stay.            *)
LEMMA QuitarPosicionUnica ==
    ASSUME NEW S, NEW s \in Seq(S), NEW k \in 1..Len(s), SinDobles(s)
    PROVE  SinDobles(RemoveAt(s, k)) /\ ToSet(RemoveAt(s, k)) = ToSet(s) \ {s[k]}
<1> DEFINE r == RemoveAt(s, k)
           n == Len(s)
           de(m) == IF m < k THEN m ELSE m + 1
<1>1. /\ r \in Seq(S) /\ Len(r) = n - 1 /\ n \in Nat /\ DOMAIN s = 1..n
      /\ \A m \in 1..(n - 1) : r[m] = IF m < k THEN s[m] ELSE s[m + 1]
  BY QuitarPosicion, LenProperties
<1>2. DOMAIN r = 1..(n - 1)
  BY <1>1, LenProperties
<1> HIDE DEF r, n
<1>3. \A m \in 1..(n - 1) : de(m) \in 1..n /\ de(m) # k /\ r[m] = s[de(m)]
  BY <1>1 DEF n
<1>4. \A l \in 1..n : l # k => \E m \in 1..(n - 1) : de(m) = l
  <2> SUFFICES ASSUME NEW l \in 1..n, l # k PROVE \E m \in 1..(n - 1) : de(m) = l
    OBVIOUS
  <2>1. CASE l < k
    <3>1. l \in 1..(n - 1) /\ de(l) = l
      BY <1>1, <2>1 DEF n
    <3> QED BY <3>1
  <2>2. CASE l > k
    <3>1. l - 1 \in 1..(n - 1) /\ de(l - 1) = l
      BY <1>1, <2>2 DEF n
    <3> QED BY <3>1
  <2> QED BY <1>1, <2>1, <2>2 DEF n
<1>5. \A a, b \in 1..(n - 1) : de(a) = de(b) => a = b
  BY <1>1 DEF n
<1>6. k \in DOMAIN s
  BY <1>1 DEF n
<1> HIDE DEF de
<1>7. SinDobles(r)
  BY <1>1, <1>2, <1>3, <1>5 DEF SinDobles
<1>8. ToSet(r) = ToSet(s) \ {s[k]}
  <2>1. ToSet(r) = {r[m] : m \in 1..(n - 1)} /\ ToSet(s) = {s[m] : m \in 1..n}
    BY <1>1, <1>2 DEF ToSet
  <2>2. \A l \in 1..n : l # k => s[l] # s[k]
    BY <1>1, <1>6 DEF SinDobles
  <2> QED BY <1>3, <1>4, <2>1, <2>2
<1> QED BY <1>7, <1>8 DEF r

(* list_remove_element(l, e): e leaves, the others stay.                   *)
LEMMA QuitarElementoUnico ==
    ASSUME NEW S, NEW s \in Seq(S), NEW e, SinDobles(s)
    PROVE  /\ SinDobles(RemoveFirst(s, e))
           /\ ToSet(RemoveFirst(s, e)) = ToSet(s) \ {e}
<1> DEFINE I == {i \in 1..Len(s) : s[i] = e}
<1>0. Len(s) \in Nat /\ DOMAIN s = 1..Len(s)
  BY LenProperties
<1>1. CASE e \in ToSet(s)
  <2>1. \E i \in 1..Len(s) : s[i] = e
    BY <1>0, <1>1 DEF ToSet
  <2>2. RemoveFirst(s, e) = RemoveAt(s, Min(I))
    BY <2>1, Zenon DEF RemoveFirst, SelectInSeq
  <2>3. I \in SUBSET Nat /\ I # {}
    BY <1>0, <2>1
  <2>4. Min(I) \in 1..Len(s) /\ s[Min(I)] = e
    BY <2>3, MinimoExiste
  <2> HIDE DEF I
  <2> QED BY <2>2, <2>4, QuitarPosicionUnica
<1>2. CASE e \notin ToSet(s)
  <2>1. ~(\E i \in 1..Len(s) : s[i] = e)
    BY <1>0, <1>2 DEF ToSet
  <2>2. RemoveFirst(s, e) = s
    BY <2>1, Zenon DEF RemoveFirst
  <2> QED BY <1>2, <2>2
<1> QED BY <1>1, <1>2

(* list_add: e is in the list afterwards, once if it was not before.       *)
LEMMA AgregarElemento ==
    ASSUME NEW S, NEW s \in Seq(S), NEW e \in S
    PROVE  /\ ToSet(Append(s, e)) = ToSet(s) \cup {e}
           /\ SinDobles(s) /\ e \notin ToSet(s) => SinDobles(Append(s, e))
<1> DEFINE r == Append(s, e)
           n == Len(s)
<1>1. /\ n \in Nat /\ DOMAIN s = 1..n /\ DOMAIN r = 1..(n + 1)
      /\ r[n + 1] = e /\ \A m \in 1..n : r[m] = s[m]
  BY LenProperties, AppendProperties
<1> HIDE DEF r, n
<1>2. ToSet(r) = ToSet(s) \cup {e}
  <2>1. ToSet(r) = {r[m] : m \in 1..(n + 1)} /\ ToSet(s) = {s[m] : m \in 1..n}
    BY <1>1 DEF ToSet
  <2>2. 1..(n + 1) = 1..n \cup {n + 1}
    BY <1>1
  <2> QED BY <1>1, <2>1, <2>2
<1>3. ASSUME SinDobles(s), e \notin ToSet(s) PROVE SinDobles(r)
  <2>1. \A m \in 1..n : s[m] # e
    BY <1>1, <1>3 DEF ToSet
  <2>2. ASSUME NEW k \in 1..(n + 1), NEW m \in 1..(n + 1), k # m PROVE r[k] # r[m]
    BY <1>1, <1>3, <2>1, <2>2 DEF SinDobles
  <2> QED BY <1>1, <2>2 DEF SinDobles
<1> QED BY <1>2, <1>3 DEF r

(* list_remove_element invents nothing.                                    *)
LEMMA QuitarElementoContenido ==
    ASSUME NEW S, NEW s \in Seq(S), NEW e
    PROVE  ToSet(RemoveFirst(s, e)) \subseteq ToSet(s)
<1> DEFINE I == {i \in 1..Len(s) : s[i] = e}
<1>0. Len(s) \in Nat /\ DOMAIN s = 1..Len(s)
  BY LenProperties
<1>1. CASE \E i \in 1..Len(s) : s[i] = e
  <2>2. RemoveFirst(s, e) = RemoveAt(s, Min(I))
    BY <1>1, Zenon DEF RemoveFirst, SelectInSeq
  <2>3. I \in SUBSET Nat /\ I # {}
    BY <1>0, <1>1
  <2>4. Min(I) \in 1..Len(s)
    BY <2>3, MinimoExiste
  <2> DEFINE k == Min(I)
             r == RemoveAt(s, k)
  <2> HIDE DEF k
  <2>5. /\ r \in Seq(S) /\ Len(r) = Len(s) - 1
        /\ \A m \in 1..(Len(s) - 1) : r[m] = IF m < k THEN s[m] ELSE s[m + 1]
    BY <2>4, QuitarPosicion DEF k
  <2> HIDE DEF r
  <2>6. DOMAIN r = 1..(Len(s) - 1)
    BY <1>0, <2>5, LenProperties
  <2>7. \A m \in 1..(Len(s) - 1) : \E l \in 1..Len(s) : r[m] = s[l]
    <3>1. \A m \in 1..(Len(s) - 1) : m \in 1..Len(s) /\ m + 1 \in 1..Len(s)
      BY <1>0
    <3> QED BY <2>5, <3>1
  <2>8. ToSet(r) \subseteq ToSet(s)
    BY <1>0, <2>6, <2>7 DEF ToSet
  <2> QED BY <2>2, <2>8 DEF r, k
<1>2. CASE ~(\E i \in 1..Len(s) : s[i] = e)
  BY <1>2, Zenon DEF RemoveFirst
<1> QED BY <1>1, <1>2

(* list_remove(l, 0), the head of a list.                                  *)
LEMMA ColaUnica ==
    ASSUME NEW S, NEW s \in Seq(S), s # <<>>, SinDobles(s)
    PROVE  SinDobles(Tail(s)) /\ ToSet(Tail(s)) = ToSet(s) \ {s[1]}
<1> DEFINE n == Len(s)
           r == Tail(s)
<1>1. /\ n \in Nat \ {0} /\ DOMAIN s = 1..n /\ DOMAIN r = 1..(n - 1)
      /\ \A m \in 1..(n - 1) : r[m] = s[m + 1]
  BY LenProperties, EmptySeq, HeadTailProperties
<1> HIDE DEF r, n
<1>2. \A m \in 1..(n - 1) : m + 1 \in 1..n /\ m + 1 # 1
  BY <1>1
<1>3. \A l \in 1..n : l # 1 => l - 1 \in 1..(n - 1) /\ (l - 1) + 1 = l
  BY <1>1
<1>4. 1 \in 1..n
  BY <1>1
<1>5. SinDobles(r)
  BY <1>1, <1>2 DEF SinDobles
<1>6. ToSet(r) = ToSet(s) \ {s[1]}
  <2>1. ToSet(r) = {r[m] : m \in 1..(n - 1)} /\ ToSet(s) = {s[m] : m \in 1..n}
    BY <1>1 DEF ToSet
  <2>2. \A l \in 1..n : l # 1 => s[l] # s[1]
    BY <1>1, <1>4 DEF SinDobles
  <2>3. \A l \in 1..n : l # 1 => \E m \in 1..(n - 1) : r[m] = s[l]
    BY <1>1, <1>3
  <2>4. \A m \in 1..(n - 1) : \E l \in 1..n : l # 1 /\ r[m] = s[l]
    BY <1>1, <1>2
  <2>5. ASSUME NEW e \in ToSet(r) PROVE e \in ToSet(s) \ {s[1]}
    BY <2>1, <2>2, <2>4
  <2>6. ASSUME NEW e \in ToSet(s) \ {s[1]} PROVE e \in ToSet(r)
    BY <2>1, <2>3
  <2> QED BY <2>5, <2>6
<1> QED BY <1>5, <1>6 DEF r
-----------------------------------------------------------------------------
(* Recursive functions on the naturals: the equation of each has a         *)
(* solution, which is what the definition of one needs.                    *)

\* f goes from its first value by the steps g, each from the argument ant[k].
RecorrePor(f, N, c, g, ant) ==
    f = [k \in 0..N |-> IF k = 0 THEN c ELSE g[<<k, f[ant[k]]>>]]

LEMMA RecursionPor ==
  ASSUME NEW N \in Nat, NEW S, NEW c \in S, NEW g \in [Nat \X S -> S],
         NEW ant \in [1..N -> Nat], \A k \in 1..N : ant[k] < k
  PROVE  \E f \in [0..N -> S] : RecorrePor(f, N, c, g, ant)
<1> DEFINE Es(f, n) == \A k \in 0..n : f[k] = IF k = 0 THEN c ELSE g[<<k, f[ant[k]]>>]
           Mal == {n \in 0..N : ~ \E f \in [0..n -> S] : Es(f, n)}
<1>1. SUFFICES \E f \in [0..N -> S] : Es(f, N)
  <2>1. ASSUME NEW f \in [0..N -> S], Es(f, N) PROVE RecorrePor(f, N, c, g, ant)
    BY <2>1 DEF RecorrePor
  <2> QED BY <2>1
<1>2. CASE Mal = {}
  <2>1. N \in 0..N
    OBVIOUS
  <2>2. N \notin Mal
    <3> HIDE DEF Mal
    <3> QED BY <1>2
  <2> QED BY <2>1, <2>2
<1>3. CASE Mal # {}
  <2>1. PICK n \in Mal : \A y \in Mal : n <= y
    <3>1. Mal \in SUBSET Nat
      OBVIOUS
    <3> HIDE DEF Mal
    <3> QED BY <1>3, <3>1, MinimoExiste
  <2>2. CASE n = 0
    <3> DEFINE f == [k \in 0..0 |-> c]
    <3>1. f \in [0..0 -> S] /\ Es(f, 0)
      OBVIOUS
    <3> QED BY <2>1, <2>2, <3>1
  <2>3. CASE n # 0
    <3>1. n - 1 \in 0..N /\ ~(n <= n - 1) /\ n \in 1..N /\ ant[n] \in 0..(n - 1)
      BY <2>1, <2>3
    <3>2. n - 1 \notin Mal
      BY <2>1, <3>1
    <3>3. PICK f \in [0..(n - 1) -> S] : Es(f, n - 1)
      BY <3>1, <3>2
    <3> DEFINE h == [k \in 0..n |-> IF k = n THEN g[<<n, f[ant[n]]>>] ELSE f[k]]
    <3>4. <<n, f[ant[n]]>> \in Nat \X S
      BY <3>1, <3>3
    <3>5. h \in [0..n -> S]
      BY <3>1, <3>3, <3>4
    <3>6. \A k \in 0..(n - 1) : h[k] = f[k]
      BY <3>1
    <3>7. h[n] = g[<<n, f[ant[n]]>>]
      BY <3>1
    <3> HIDE DEF h
    <3>8. \A k \in 0..n : h[k] = IF k = 0 THEN c ELSE g[<<k, h[ant[k]]>>]
      <4> TAKE k \in 0..n
      <4>1. CASE k = n
        <5>1. h[ant[n]] = f[ant[n]]
          BY <3>1, <3>6
        <5> QED BY <4>1, <3>7, <5>1, <2>3
      <4>2. CASE k # n
        <5>1. k \in 0..(n - 1) /\ (k # 0 => k \in 1..N /\ ant[k] \in 0..(n - 1))
          BY <4>2, <3>1
        <5>2. h[k] = f[k] /\ (k # 0 => h[ant[k]] = f[ant[k]])
          BY <3>6, <5>1
        <5>3. f[k] = IF k = 0 THEN c ELSE g[<<k, f[ant[k]]>>]
          BY <3>3, <5>1
        <5> QED BY <5>2, <5>3
      <4> QED BY <4>1, <4>2
    <3>9. Es(h, n)
      BY <3>8
    <3> QED BY <2>1, <3>5, <3>9
  <2> QED BY <2>2, <2>3
<1> QED BY <1>2, <1>3

\* The usual case: each from the one before.
Recorre(f, N, c, g) == f = [k \in 0..N |-> IF k = 0 THEN c ELSE g[<<k, f[k - 1]>>]]

LEMMA Recursion ==
  ASSUME NEW N \in Nat, NEW S, NEW c \in S, NEW g \in [Nat \X S -> S]
  PROVE  \E f \in [0..N -> S] : Recorre(f, N, c, g)
<1> DEFINE ant == [k \in 1..N |-> k - 1]
<1>1. /\ ant \in [1..N -> Nat]
      /\ \A k \in 1..N : ant[k] = k - 1 /\ ant[k] < k
  OBVIOUS
<1> HIDE DEF ant
<1>2. PICK f \in [0..N -> S] : RecorrePor(f, N, c, g, ant)
  BY <1>1, RecursionPor
<1>3. \A k \in 0..N : f[k] = IF k = 0 THEN c ELSE g[<<k, f[ant[k]]>>]
  BY <1>2 DEF RecorrePor
<1>4. \A k \in 0..N : f[k] = IF k = 0 THEN c ELSE g[<<k, f[k - 1]>>]
  <2> TAKE k \in 0..N
  <2>1. k # 0 => k \in 1..N
    OBVIOUS
  <2> QED BY <1>1, <1>3, <2>1
<1>5. Recorre(f, N, c, g)
  BY <1>4 DEF Recorre
<1> QED BY <1>5
=============================================================================
