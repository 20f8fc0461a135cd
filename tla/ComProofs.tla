------------------------------ MODULE ComProofs ------------------------------
(***************************************************************************)
(* What holds of the connections for every script, size of an integer and  *)
(* values of the fields, when no recv returns before what was sent has     *)
(* arrived.                                                                *)
(***************************************************************************)
EXTENDS ComProps, SequenceTheorems, TLAPS

Listas == INSTANCE ListasLemas

(* The hypothesis on the network: a packet is not delivered in parts.  The *)
(* code does nothing that ensures it (com_partido); it puts no bound on    *)
(* the fields, that of a dump among them.                                  *)
Entero == [v : Valores, n : Nat \ {0}]
Paquete == [op : Codigos, campos : Seq(Entero)]

SinPartir ==
    /\ Cortes = FALSE
    /\ \A c \in Conexiones : Guion[c] \in Seq(Paquete)

-----------------------------------------------------------------------------
(* Sequences                                                               *)

LEMMA SumaEnRango ==
  ASSUME NEW x \in Nat, NEW y \in Nat, NEW z \in Nat, x + y <= z, NEW j \in 1..y
  PROVE  x + j \in 1..z
  OBVIOUS

LEMMA Pegar ==
  ASSUME NEW S, NEW a \in Seq(S), NEW b \in Seq(S)
  PROVE  /\ a \o b \in Seq(S) /\ Len(a \o b) = Len(a) + Len(b)
         /\ \A k \in 1..Len(a) : (a \o b)[k] = a[k]
         /\ \A k \in 1..Len(b) : (a \o b)[Len(a) + k] = b[k]
  OBVIOUS

LEMMA Tramo ==
  ASSUME NEW S, NEW s \in Seq(S), NEW i \in Nat \ {0}, NEW j \in Nat,
         i <= j + 1, j <= Len(s)
  PROVE  /\ SubSeq(s, i, j) \in Seq(S) /\ Len(SubSeq(s, i, j)) = j + 1 - i
         /\ \A k \in 1..(j + 1 - i) : SubSeq(s, i, j)[k] = s[i + k - 1]
  OBVIOUS

\* What is taken from the front is what was put there, and the rest is left.
LEMMA QuitarDelante ==
  ASSUME NEW S, NEW a \in Seq(S), NEW b \in Seq(S)
  PROVE  /\ SubSeq(a \o b, 1, Len(a)) = a
         /\ SubSeq(a \o b, Len(a) + 1, Len(a \o b)) = b
<1> DEFINE s == a \o b
<1>1. /\ s \in Seq(S) /\ Len(s) = Len(a) + Len(b)
      /\ \A k \in 1..Len(a) : s[k] = a[k]
      /\ \A k \in 1..Len(b) : s[Len(a) + k] = b[k]
  BY Pegar
<1> HIDE DEF s
<1>2. SubSeq(s, 1, Len(a)) = a
  <2>1. /\ SubSeq(s, 1, Len(a)) \in Seq(S) /\ Len(SubSeq(s, 1, Len(a))) = Len(a)
        /\ \A k \in 1..Len(a) : SubSeq(s, 1, Len(a))[k] = s[k]
    BY <1>1, Tramo
  <2> QED BY <1>1, <2>1, SeqEqual
<1>3. SubSeq(s, Len(a) + 1, Len(s)) = b
  <2>1. /\ SubSeq(s, Len(a) + 1, Len(s)) \in Seq(S)
        /\ Len(SubSeq(s, Len(a) + 1, Len(s))) = Len(b)
        /\ \A k \in 1..Len(b) : SubSeq(s, Len(a) + 1, Len(s))[k] = s[Len(a) + k]
    BY <1>1, Tramo
  <2> QED BY <1>1, <2>1, SeqEqual
<1> QED BY <1>2, <1>3 DEF s

-----------------------------------------------------------------------------
(* Bytes                                                                   *)

HsCodigos == {"HSKERNEL", "HSCPU", "HSMEMORIA", "HSFS", "HSOK", "HSFAIL"}

Dato == Valores \cup {BASURA} \cup {Numero(n) : n \in Nat} \cup {<<"op", o>> : o \in Codigos}
        \cup {<<"hs", h>> : h \in HsCodigos}
Byte == [v : Dato, k : Nat \ {0}]

LEMMA BytesDeValor ==
  ASSUME NEW v \in Dato, NEW n \in Nat
  PROVE  /\ Bytes(v, n) \in Seq(Byte) /\ Len(Bytes(v, n)) = n
         /\ \A k \in 1..n : Bytes(v, n)[k] = [v |-> v, k |-> k]
         /\ n > 0 => Valor(Bytes(v, n)) = v
<1> USE ConstantesComunicaciones
<1>1. \A k \in 1..n : [v |-> v, k |-> k] \in Byte
  BY DEF Byte
<1>2. Bytes(v, n) = [k \in 1..n |-> [v |-> v, k |-> k]]
  BY DEF Bytes
<1>3. Bytes(v, n) \in [1..n -> Byte]
  BY <1>1, <1>2
<1>4. n \in Nat
  OBVIOUS
<1>5. Bytes(v, n) \in Seq(Byte) /\ Len(Bytes(v, n)) = n /\ DOMAIN Bytes(v, n) = 1..n
  BY <1>3, <1>4
<1>6. \A k \in 1..n : Bytes(v, n)[k] = [v |-> v, k |-> k]
  BY <1>2
<1>7. ASSUME n > 0 PROVE Valor(Bytes(v, n)) = v
  <2> DEFINE b == Bytes(v, n)
  <2>1. \A k \in DOMAIN b : b[k].v = v /\ b[k].k = k
    BY <1>5, <1>6
  <2>2. b[1].v = v
    BY <2>1, <1>5, <1>7
  <2> HIDE DEF b
  <2> QED BY <2>1, <2>2 DEF Valor, b
<1> QED BY <1>5, <1>6, <1>7

-----------------------------------------------------------------------------
(* What is put together one part after another (FlattenSeq).               *)

Partes(bs, ss, off) ==
    /\ off \in [0..Len(ss) -> Nat] /\ off[0] = 0 /\ off[Len(ss)] = Len(bs)
    /\ \A k \in 1..Len(ss) :
          /\ off[k] = off[k - 1] + Len(ss[k]) /\ off[k] <= Len(bs)
          /\ \A j \in 1..Len(ss[k]) : bs[off[k - 1] + j] = ss[k][j]

Acumula(f, ss) == f = [i \in 1..Len(ss) |-> IF i = 1 THEN ss[i] ELSE f[i - 1] \o ss[i]]

LEMMA AcumulaExiste ==
  ASSUME NEW S, NEW ss \in Seq(Seq(S)), ss # <<>>
  PROVE  \E f : Acumula(f, ss) /\ FlattenSeq(ss) = f[Len(ss)]
<1> DEFINE flatten[i \in 1..Len(ss)] == IF i = 1 THEN ss[i] ELSE flatten[i-1] \o ss[i]
           N == Len(ss)
           g == [p \in Nat \X Seq(S) |-> IF p[1] \in 1..N THEN p[2] \o ss[p[1]] ELSE p[2]]
<1>1. N \in Nat \ {0} /\ \A i \in 1..N : ss[i] \in Seq(S)
  OBVIOUS
<1>2. g \in [Nat \X Seq(S) -> Seq(S)]
  <2>1. \A p \in Nat \X Seq(S) : p[1] \in 1..N => p[2] \o ss[p[1]] \in Seq(S)
    BY <1>1
  <2> QED BY <2>1
<1>3. ASSUME NEW k \in 1..N, NEW x \in Seq(S) PROVE g[<<k, x>>] = x \o ss[k]
  <2>1. <<k, x>> \in Nat \X Seq(S) /\ <<k, x>>[1] = k /\ <<k, x>>[2] = x
    BY <1>1
  <2> HIDE DEF N
  <2> QED BY <2>1, Zenon
<1>4. PICK h \in [0..N -> Seq(S)] : Listas!Recorre(h, N, <<>>, g)
  <2>1. <<>> \in Seq(S)
    OBVIOUS
  <2> HIDE DEF g, N
  <2> QED BY <1>1, <1>2, <2>1, Listas!Recursion
<1>5. \A k \in 0..N : h[k] = IF k = 0 THEN <<>> ELSE g[<<k, h[k - 1]>>]
  BY <1>4 DEF Listas!Recorre
<1>6. \A k \in 1..N : h[k] = h[k - 1] \o ss[k]
  <2> HIDE DEF g, N
  <2> TAKE k \in 1..N
  <2>1. k \in 0..N /\ k - 1 \in 0..N /\ k # 0
    BY <1>1
  <2> QED BY <1>3, <1>4, <1>5, <2>1
<1> DEFINE f == [i \in 1..N |-> h[i]]
<1>7. \A i \in 1..N : f[i] = IF i = 1 THEN ss[i] ELSE f[i - 1] \o ss[i]
  <2> HIDE DEF g
  <2> TAKE i \in 1..N
  <2>1. CASE i = 1
    <3>1. 1 \in 1..N /\ 0 \in 0..N /\ 1 - 1 = 0
      BY <1>1
    <3>2. h[0] = <<>> /\ h[1] = h[1 - 1] \o ss[1] /\ ss[1] \in Seq(S)
      <4> HIDE DEF N
      <4> QED BY <1>1, <1>5, <1>6, <3>1
    <3>3. <<>> \o ss[1] = ss[1]
      BY <3>2
    <3>4. h[1] = ss[1]
      BY <3>1, <3>2, <3>3, Zenon
    <3> QED BY <2>1, <3>4, <3>1
  <2>2. CASE i # 1
    <3>1. i - 1 \in 1..N
      BY <2>2, <1>1
    <3> QED BY <2>2, <3>1, <1>6
  <2> QED BY <2>1, <2>2
<1>8. Acumula(f, ss)
  <2>1. f = [i \in 1..N |-> f[i]]
    OBVIOUS
  <2> HIDE DEF f
  <2> QED BY <1>7, <2>1 DEF Acumula
<1> HIDE DEF f
<1>9. FlattenSeq(ss) = flatten[Len(ss)]
  <2>1. Len(ss) # 0
    BY <1>1
  <2> QED BY <2>1, Zenon DEF FlattenSeq
<1>10. Acumula(flatten, ss)
  BY <1>8, Zenon DEF Acumula
<1> HIDE DEF flatten
<1> QED BY <1>9, <1>10, Zenon

LEMMA Aplanar ==
  ASSUME NEW S, NEW ss \in Seq(Seq(S))
  PROVE  FlattenSeq(ss) \in Seq(S) /\ \E off : Partes(FlattenSeq(ss), ss, off)
<1> DEFINE N == Len(ss)
<1>1. CASE ss = <<>>
  <2>1. FlattenSeq(ss) = <<>>
    BY <1>1, Zenon DEF FlattenSeq
  <2> DEFINE off == [k \in 0..0 |-> 0]
  <2>2. /\ off \in [0..Len(ss) -> Nat] /\ off[0] = 0 /\ off[Len(ss)] = 0 /\ Len(ss) = 0
    BY <1>1
  <2> HIDE DEF off
  <2>3. Partes(<<>>, ss, off)
    BY <2>2 DEF Partes
  <2> QED BY <2>1, <2>3
<1>2. CASE ss # <<>>
  <2>1. PICK f : Acumula(f, ss) /\ FlattenSeq(ss) = f[Len(ss)]
    BY <1>2, AcumulaExiste
  <2>2. N \in Nat \ {0} /\ \A i \in 1..N : ss[i] \in Seq(S) /\ Len(ss[i]) \in Nat
    BY <1>2
  <2>3. \A i \in 1..N : f[i] = IF i = 1 THEN ss[i] ELSE f[i - 1] \o ss[i]
    BY <2>1 DEF Acumula
  <2> DEFINE g == [p \in Nat \X Nat |-> IF p[1] \in 1..N THEN p[2] + Len(ss[p[1]]) ELSE p[2]]
  <2>4. g \in [Nat \X Nat -> Nat]
    BY <2>2
  <2>5. \A k \in 1..N, x \in Nat : g[<<k, x>>] = x + Len(ss[k])
    OBVIOUS
  <2>6. PICK off \in [0..N -> Nat] : Listas!Recorre(off, N, 0, g)
    <3> HIDE DEF g, N
    <3> QED BY <2>2, <2>4, Listas!Recursion
  <2>7. off[0] = 0 /\ \A k \in 1..N : off[k] = off[k - 1] + Len(ss[k])
    <3> HIDE DEF g, N
    <3>1. \A k \in 0..N : off[k] = IF k = 0 THEN 0 ELSE g[<<k, off[k - 1]>>]
      BY <2>6 DEF Listas!Recorre
    <3>2. off[0] = 0
      <4>1. 0 \in 0..N
        BY <2>2
      <4> QED BY <3>1, <4>1
    <3>3. ASSUME NEW k \in 1..N PROVE off[k] = off[k - 1] + Len(ss[k])
      <4>1. k \in 0..N /\ k # 0 /\ k - 1 \in 0..N
        BY <2>2
      <4>2. off[k - 1] \in Nat
        BY <2>6, <4>1
      <4> QED BY <3>1, <2>5, <4>1, <4>2
    <3> QED BY <3>2, <3>3
  <2> DEFINE Bien(m) ==
        /\ f[m] \in Seq(S) /\ Len(f[m]) = off[m]
        /\ \A k \in 1..m : /\ off[k] <= off[m]
                           /\ \A j \in 1..Len(ss[k]) : f[m][off[k - 1] + j] = ss[k][j]
      Mal == {m \in 1..N : ~Bien(m)}
  <2>8. SUFFICES Mal = {}
    <3>1. Bien(N)
      BY <2>2, <2>8
    <3>2. Partes(f[N], ss, off)
      BY <3>1, <2>6, <2>7, <2>2 DEF Partes
    <3> QED BY <3>1, <3>2, <2>1
  <2>9. SUFFICES ASSUME Mal # {} PROVE FALSE
    OBVIOUS
  <2>10. PICK m \in Mal : \A y \in Mal : m <= y
    <3>1. Mal \in SUBSET Nat
      OBVIOUS
    <3> HIDE DEF Mal
    <3> QED BY <2>9, <3>1, Listas!MinimoExiste
  <2> HIDE DEF g
  <2>11. CASE m = 1
    <3>1. f[1] = ss[1] /\ off[1] = Len(ss[1]) /\ off[0] = 0
      BY <2>2, <2>3, <2>6, <2>7
    <3>2. Bien(1)
      BY <3>1, <2>2
    <3> QED BY <2>10, <2>11, <3>2
  <2>12. CASE m # 1
    <3>1. m \in 2..N /\ m - 1 \in 1..N /\ ~(m <= m - 1)
      BY <2>10, <2>12, <2>2
    <3>2. Bien(m - 1)
      BY <2>10, <3>1
    <3>3. f[m] = f[m - 1] \o ss[m] /\ off[m] = off[m - 1] + Len(ss[m])
      <4>1. m \in 1..N /\ m # 1
        BY <3>1, <2>12
      <4> HIDE DEF N, Mal
      <4> QED BY <2>3, <2>7, <4>1
    <3> DEFINE a == f[m - 1]
    <3>4. /\ f[m] \in Seq(S) /\ Len(f[m]) = Len(a) + Len(ss[m])
          /\ \A k \in 1..Len(a) : f[m][k] = a[k]
          /\ \A k \in 1..Len(ss[m]) : f[m][Len(a) + k] = ss[m][k]
      <4>1. a \in Seq(S) /\ ss[m] \in Seq(S)
        BY <3>2, <2>2, <3>1
      <4>2. f[m] = a \o ss[m]
        BY <3>3
      <4> DEFINE b == ss[m]
      <4> HIDE DEF a, b
      <4>3. /\ a \o b \in Seq(S) /\ Len(a \o b) = Len(a) + Len(b)
            /\ \A k \in 1..Len(a) : (a \o b)[k] = a[k]
            /\ \A k \in 1..Len(b) : (a \o b)[Len(a) + k] = b[k]
        BY <4>1, Pegar, SMTT(60) DEF b
      <4> QED BY <4>2, <4>3, Zenon DEF b
    <3>5. a \in Seq(S) /\ Len(a) = off[m - 1] /\ off[m - 1] \in Nat /\ off[m] \in Nat
      <4>1. m - 1 \in 0..N /\ m \in 0..N
        BY <3>1, <2>2
      <4>2. off[m - 1] \in Nat /\ off[m] \in Nat
        <5> HIDE DEF N, Mal, a
        <5> QED BY <4>1, <2>6
      <4> QED BY <4>2, <3>2
    <3>6. ASSUME NEW k \in 1..m
          PROVE  /\ off[k] <= off[m]
                 /\ \A j \in 1..Len(ss[k]) : f[m][off[k - 1] + j] = ss[k][j]
      <4>1. CASE k = m
        BY <4>1, <3>4, <3>5
      <4>2. CASE k # m
        <5>1. k \in 1..(m - 1) /\ k \in 1..N
          BY <4>2, <3>1
        <5>2. /\ off[k] <= off[m - 1]
              /\ \A j \in 1..Len(ss[k]) : a[off[k - 1] + j] = ss[k][j]
          BY <5>1, <3>2
        <5>3. /\ off[k] = off[k - 1] + Len(ss[k]) /\ off[k] \in Nat /\ off[k - 1] \in Nat
              /\ Len(ss[k]) \in Nat /\ Len(ss[m]) \in Nat
          <6>1. k \in 0..N /\ k - 1 \in 0..N /\ m \in 1..N
            BY <5>1, <2>2, <3>1
          <6> HIDE DEF N, Mal, a
          <6> QED BY <6>1, <5>1, <2>2, <2>6, <2>7
        <5>4. ASSUME NEW j \in 1..Len(ss[k]) PROVE off[k - 1] + j \in 1..Len(a)
          <6> HIDE DEF N, Mal, a, Bien
          <6>1. off[k - 1] + Len(ss[k]) <= off[m - 1]
            BY <5>2, <5>3
          <6>2. Len(a) \in Nat /\ Len(a) = off[m - 1] /\ Len(ss[k]) \in Nat /\ off[k - 1] \in Nat
            BY <5>3, <3>5
          <6> QED BY <6>1, <6>2, SumaEnRango
        <5> HIDE DEF a
        <5>5. \A j \in 1..Len(ss[k]) : f[m][off[k - 1] + j] = ss[k][j]
          BY <5>2, <5>4, <3>4
        <5>6. off[k] <= off[m]
          BY <5>2, <5>3, <3>3, <3>5
        <5> QED BY <5>5, <5>6
      <4> QED BY <4>1, <4>2
    <3>7. Bien(m)
      BY <3>4, <3>5, <3>6, <3>3
    <3> QED BY <2>10, <3>7
  <2> QED BY <2>11, <2>12
<1> QED BY <1>1, <1>2

-----------------------------------------------------------------------------
(* The fields of a packet: what deserealizar_paquete takes is what         *)
(* agregar_a_paquete put.                                                  *)

CamposEn(bs, cs, off) ==
    /\ off \in [0..Len(cs) -> Nat] /\ off[0] = 0 /\ off[Len(cs)] = Len(bs)
    /\ \A k \in 1..Len(cs) :
          LET i == off[k - 1] + 1
              n == cs[k].n
          IN  /\ off[k] = off[k - 1] + Octetos + n /\ off[k] <= Len(bs)
              /\ SubSeq(bs, i, i + Octetos - 1) = Bytes(Numero(n), Octetos)
              /\ SubSeq(bs, i + Octetos, i + Octetos + n - 1) = Bytes(cs[k].v, n)

LEMMA CampoEnBytes ==
  ASSUME SinPartir, NEW x \in Entero
  PROVE  /\ x.n \in Nat \ {0} /\ x.v \in Dato /\ x = [v |-> x.v, n |-> x.n]
         /\ Bytes(Numero(x.n), Octetos) \in Seq(Byte)
         /\ Len(Bytes(Numero(x.n), Octetos)) = Octetos
         /\ Valor(Bytes(Numero(x.n), Octetos)) = Numero(x.n)
         /\ Bytes(x.v, x.n) \in Seq(Byte) /\ Len(Bytes(x.v, x.n)) = x.n
         /\ Valor(Bytes(x.v, x.n)) = x.v
<1>1. /\ x.n \in Nat \ {0} /\ x.v \in Valores
      /\ x = [v |-> x.v, n |-> x.n]
  BY ConstantesComunicaciones DEF Entero
<1>2. Numero(x.n) \in Dato /\ x.v \in Dato
  BY <1>1 DEF Dato
<1>3. Octetos \in Nat \ {0}
  BY ConstantesComunicaciones
<1>4. Octetos \in Nat /\ x.n \in Nat
  BY <1>1, <1>3
<1> QED BY <1>1, <1>2, <1>3, <1>4, BytesDeValor

LEMMA CamposBien ==
  ASSUME SinPartir, NEW cs \in Seq(Entero)
  PROVE  Campos(cs) \in Seq(Byte) /\ \E off : CamposEn(Campos(cs), cs, off)
<1> DEFINE A(k) == Bytes(Numero(cs[k].n), Octetos)
           B(k) == Bytes(cs[k].v, cs[k].n)
           ss == [k \in DOMAIN cs |-> A(k) \o B(k)]
           N == Len(cs)
<1>1. N \in Nat /\ DOMAIN cs = 1..N /\ Octetos \in Nat \ {0}
  BY ConstantesComunicaciones
<1>2. ASSUME NEW k \in 1..N
      PROVE  /\ cs[k].n \in Nat \ {0} /\ A(k) \in Seq(Byte) /\ Len(A(k)) = Octetos
             /\ B(k) \in Seq(Byte) /\ Len(B(k)) = cs[k].n
             /\ A(k) \o B(k) \in Seq(Byte) /\ Len(A(k) \o B(k)) = Octetos + cs[k].n
  <2>1. cs[k] \in Entero
    BY <1>1
  <2>2. /\ cs[k].n \in Nat \ {0} /\ A(k) \in Seq(Byte) /\ Len(A(k)) = Octetos
        /\ B(k) \in Seq(Byte) /\ Len(B(k)) = cs[k].n
    BY <2>1, CampoEnBytes
  <2> HIDE DEF A, B
  <2>3. A(k) \o B(k) \in Seq(Byte) /\ Len(A(k) \o B(k)) = Len(A(k)) + Len(B(k))
    BY <2>2, Pegar
  <2> QED BY <2>2, <2>3
<1>3. ss \in Seq(Seq(Byte)) /\ Len(ss) = N /\ \A k \in 1..N : ss[k] = A(k) \o B(k)
  <2> HIDE DEF A, B, N
  <2>1. ss \in [1..N -> Seq(Byte)]
    BY <1>1, <1>2
  <2>2. \A k \in 1..N : ss[k] = A(k) \o B(k)
    BY <1>1
  <2> HIDE DEF ss
  <2> QED BY <1>1, <2>1, <2>2
<1>4. Campos(cs) = FlattenSeq(ss)
  BY Zenon DEF Campos
<1> DEFINE bs == FlattenSeq(ss)
<1> HIDE DEF A, B, N, ss
<1>5. bs \in Seq(Byte) /\ \E off : Partes(bs, ss, off)
  BY <1>3, Aplanar
<1>6. PICK off : Partes(bs, ss, off)
  BY <1>5
<1> HIDE DEF bs
<1>7. /\ off \in [0..N -> Nat] /\ off[0] = 0 /\ off[N] = Len(bs)
      /\ \A k \in 1..N : /\ off[k] = off[k - 1] + Len(ss[k]) /\ off[k] <= Len(bs)
                         /\ \A j \in 1..Len(ss[k]) : bs[off[k - 1] + j] = ss[k][j]
  BY <1>6, <1>3 DEF Partes
<1>8. ASSUME NEW k \in 1..N
      PROVE  LET i == off[k - 1] + 1
                 n == cs[k].n
             IN  /\ off[k] = off[k - 1] + Octetos + n /\ off[k] <= Len(bs)
                 /\ SubSeq(bs, i, i + Octetos - 1) = A(k)
                 /\ SubSeq(bs, i + Octetos, i + Octetos + n - 1) = B(k)
  <2> DEFINE o == off[k - 1]
             n == cs[k].n
             a == A(k)
             b == B(k)
  <2>1. o \in Nat /\ n \in Nat \ {0} /\ Octetos \in Nat \ {0} /\ Len(bs) \in Nat
    <3>1. k - 1 \in 0..N
      BY <1>1
    <3> QED BY <3>1, <1>1, <1>2, <1>5, <1>7
  <2>2. /\ a \in Seq(Byte) /\ b \in Seq(Byte) /\ Len(a) = Octetos /\ Len(b) = n
        /\ ss[k] = a \o b /\ Len(ss[k]) = Octetos + n
    BY <1>2, <1>3
  <2>3. /\ off[k] = o + Octetos + n /\ o + Octetos + n <= Len(bs)
        /\ \A j \in 1..(Octetos + n) : bs[o + j] = (a \o b)[j]
    <3>1. /\ off[k] = o + Len(ss[k]) /\ off[k] <= Len(bs)
          /\ \A j \in 1..Len(ss[k]) : bs[o + j] = ss[k][j]
      BY <1>7
    <3> HIDE DEF o, n, a, b
    <3>2. o + (Octetos + n) = o + Octetos + n
      BY <2>1
    <3> QED BY <3>1, <3>2, <2>2
  <2> HIDE DEF o, n, a, b
  <2>4. /\ \A j \in 1..Octetos : (a \o b)[j] = a[j]
        /\ \A j \in 1..n : (a \o b)[Octetos + j] = b[j]
    <3>1. a \in Seq(Byte) /\ b \in Seq(Byte)
      BY <2>2
    <3>2. /\ \A j \in 1..Len(a) : (a \o b)[j] = a[j]
          /\ \A j \in 1..Len(b) : (a \o b)[Len(a) + j] = b[j]
      BY <3>1, Pegar
    <3> QED BY <3>2, <2>2
  <2>5. SubSeq(bs, o + 1, o + 1 + Octetos - 1) = a
    <3> DEFINE t == SubSeq(bs, o + 1, o + 1 + Octetos - 1)
    <3>1. /\ t \in Seq(Byte) /\ Len(t) = o + 1 + Octetos - 1 + 1 - (o + 1)
          /\ \A j \in 1..(o + 1 + Octetos - 1 + 1 - (o + 1)) : t[j] = bs[o + 1 + j - 1]
      <4>1. /\ o + 1 \in Nat \ {0} /\ o + 1 + Octetos - 1 \in Nat
            /\ o + 1 <= o + 1 + Octetos - 1 + 1 /\ o + 1 + Octetos - 1 <= Len(bs)
        BY <2>1, <2>3
      <4> QED BY <4>1, <1>5, Tramo
    <3> HIDE DEF t
    <3>2. /\ o + 1 + Octetos - 1 + 1 - (o + 1) = Octetos
          /\ \A j \in 1..Octetos : o + 1 + j - 1 = o + j /\ j \in 1..(Octetos + n)
      BY <2>1
    <3>3. Len(t) = Octetos /\ \A j \in 1..Octetos : t[j] = a[j]
      BY <3>1, <3>2, <2>3, <2>4
    <3>4. t = a
      BY <3>1, <3>3, <2>2, SeqEqual
    <3> QED BY <3>4 DEF t
  <2>6. SubSeq(bs, o + 1 + Octetos, o + 1 + Octetos + n - 1) = b
    <3> DEFINE d == o + 1 + Octetos
               t == SubSeq(bs, d, d + n - 1)
    <3>1. /\ t \in Seq(Byte) /\ Len(t) = d + n - 1 + 1 - d
          /\ \A j \in 1..(d + n - 1 + 1 - d) : t[j] = bs[d + j - 1]
      <4>1. d \in Nat \ {0} /\ d + n - 1 \in Nat /\ d <= d + n - 1 + 1 /\ d + n - 1 <= Len(bs)
        BY <2>1, <2>3
      <4> HIDE DEF d
      <4> QED BY <4>1, <1>5, Tramo
    <3>2. /\ d + n - 1 + 1 - d = n
          /\ \A j \in 1..n : d + j - 1 = o + (Octetos + j) /\ Octetos + j \in 1..(Octetos + n)
      BY <2>1
    <3> HIDE DEF t, d
    <3>3. Len(t) = n /\ \A j \in 1..n : t[j] = b[j]
      BY <3>1, <3>2, <2>3, <2>4
    <3>4. t = b
      BY <3>1, <3>3, <2>2, SeqEqual
    <3> QED BY <3>4 DEF t, d
  <2> QED BY <2>3, <2>5, <2>6, <1>7 DEF o, n, a, b
<1>9. CamposEn(bs, cs, off)
  BY <1>7, <1>8 DEF CamposEn, A, B, N
<1> QED BY <1>4, <1>5, <1>9 DEF bs

\* The beginning of the field that follows the one at i.
Sigue(bs, i) == IF Largo(bs, i) = 0 THEN Len(bs) + 1 ELSE i + Octetos + Largo(bs, i)

Listado(f, bs) ==
    f = [i \in 1..(Len(bs) + 1) |->
            IF i > Len(bs) THEN <<>> ELSE <<Quitado(bs, i)>> \o f[Sigue(bs, i)]]

LEMMA SigueAdelante ==
  ASSUME NEW bs \in Seq(Byte), NEW i \in 1..Len(bs)
  PROVE  Sigue(bs, i) \in (i + 1)..(Len(bs) + 1)
<1> DEFINE quedan == Len(bs) + 1 - (i + Octetos)
           largo  == IF quedan > 0 THEN Valor(SubSeq(bs, i, i + Octetos - 1)) ELSE BASURA
<1>1. Octetos \in Nat \ {0} /\ Len(bs) \in Nat /\ quedan \in Int
  BY ConstantesComunicaciones
<1>2. Largo(bs, i) = IF largo \in {Numero(n) : n \in 1..quedan} THEN largo[2] ELSE 0
  BY Zenon DEF Largo
<1> HIDE DEF largo
<1>3. Largo(bs, i) = 0 \/ Largo(bs, i) \in 1..quedan
  <2>1. ASSUME NEW n \in 1..quedan, largo = Numero(n) PROVE largo[2] = n
    BY <2>1 DEF Numero
  <2> HIDE DEF quedan
  <2> QED BY <1>2, <2>1
<1>4. CASE Largo(bs, i) = 0
  BY <1>1, <1>4 DEF Sigue
<1>5. CASE Largo(bs, i) \in 1..quedan
  BY <1>1, <1>5 DEF Sigue
<1> QED BY <1>3, <1>4, <1>5

LEMMA ListadoExiste ==
  ASSUME NEW bs \in Seq(Byte)
  PROVE  \E f : Listado(f, bs) /\ Deserealizado(bs) = f[1]
<1> DEFINE lista[i \in 1..(Len(bs) + 1)] ==
               IF i > Len(bs) THEN <<>>
               ELSE <<Quitado(bs, i)>> \o lista[IF Largo(bs, i) = 0 THEN Len(bs) + 1
                                                ELSE i + Octetos + Largo(bs, i)]
           tope == Len(bs)
           Q == {Quitado(bs, i) : i \in 1..tope}
           g == [p \in Nat \X Seq(Q) |->
                    IF p[1] \in 1..tope THEN <<Quitado(bs, tope + 1 - p[1])>> \o p[2] ELSE p[2]]
           ant == [k \in 1..tope |-> tope + 1 - Sigue(bs, tope + 1 - k)]
<1>1. tope \in Nat
  OBVIOUS
<1>2. g \in [Nat \X Seq(Q) -> Seq(Q)]
  <2>1. ASSUME NEW p \in Nat \X Seq(Q), p[1] \in 1..tope
        PROVE  <<Quitado(bs, tope + 1 - p[1])>> \o p[2] \in Seq(Q)
    <3>1. tope + 1 - p[1] \in 1..tope
      BY <2>1, <1>1
    <3>2. Quitado(bs, tope + 1 - p[1]) \in Q
      BY <3>1, Zenon
    <3>3. p[2] \in Seq(Q)
      OBVIOUS
    <3> HIDE DEF Q
    <3> QED BY <3>2, <3>3
  <2> HIDE DEF Q
  <2> QED BY <2>1
<1>3. ASSUME NEW k \in 1..tope, NEW x \in Seq(Q)
      PROVE  g[<<k, x>>] = <<Quitado(bs, tope + 1 - k)>> \o x
  <2>1. <<k, x>> \in Nat \X Seq(Q) /\ <<k, x>>[1] = k /\ <<k, x>>[2] = x
    BY <1>1
  <2> HIDE DEF tope, Q
  <2> QED BY <2>1, Zenon
<1>4. /\ ant \in [1..tope -> Nat]
      /\ \A k \in 1..tope : ant[k] = tope + 1 - Sigue(bs, tope + 1 - k) /\ ant[k] < k
  <2>1. ASSUME NEW k \in 1..tope
        PROVE  tope + 1 - Sigue(bs, tope + 1 - k) \in Nat /\ tope + 1 - Sigue(bs, tope + 1 - k) < k
    <3>1. tope + 1 - k \in 1..tope
      BY <1>1
    <3>2. Sigue(bs, tope + 1 - k) \in (tope + 1 - k + 1)..(tope + 1)
      BY <3>1, SigueAdelante
    <3> HIDE DEF tope
    <3> QED BY <3>1, <3>2, <1>1
  <2> QED BY <2>1
<1>5. PICK h \in [0..tope -> Seq(Q)] : Listas!RecorrePor(h, tope, <<>>, g, ant)
  <2>1. <<>> \in Seq(Q)
    OBVIOUS
  <2> HIDE DEF g, tope, ant, Q
  <2> QED BY <1>1, <1>2, <1>4, <2>1, Listas!RecursionPor
<1>6. \A k \in 0..tope : h[k] = IF k = 0 THEN <<>> ELSE g[<<k, h[ant[k]]>>]
  BY <1>5 DEF Listas!RecorrePor
<1> DEFINE f == [i \in 1..(tope + 1) |-> h[tope + 1 - i]]
<1>7. ASSUME NEW i \in 1..(tope + 1)
      PROVE  f[i] = IF i > tope THEN <<>> ELSE <<Quitado(bs, i)>> \o f[Sigue(bs, i)]
  <2> DEFINE k == tope + 1 - i
  <2>1. k \in 0..tope /\ tope + 1 - k = i /\ f[i] = h[k]
    BY <1>1
  <2>2. CASE i > tope
    <3>1. k = 0
      BY <2>2, <1>1
    <3> HIDE DEF f, g, ant, tope, k
    <3> QED BY <2>1, <2>2, <3>1, <1>6
  <2>3. CASE ~(i > tope)
    <3>1. k \in 1..tope /\ k # 0 /\ i \in 1..tope
      BY <2>3, <1>1
    <3>2. Sigue(bs, i) \in (i + 1)..(tope + 1)
      BY <3>1, SigueAdelante
    <3>3. ant[k] = tope + 1 - Sigue(bs, i) /\ ant[k] \in 0..tope /\ Sigue(bs, i) \in 1..(tope + 1)
      <4>1. ant[k] = tope + 1 - Sigue(bs, tope + 1 - k)
        BY <1>4, <3>1
      <4> DEFINE s == Sigue(bs, i)
      <4>2. ant[k] = tope + 1 - s
        BY <4>1, <2>1
      <4>3. s \in (i + 1)..(tope + 1) /\ i \in 1..tope /\ tope \in Nat
        BY <3>1, <3>2, <1>1
      <4> HIDE DEF ant, tope, k, s
      <4>4. tope + 1 - s \in 0..tope /\ s \in 1..(tope + 1)
        BY <4>3
      <4> QED BY <4>2, <4>4 DEF s
    <3>4. f[Sigue(bs, i)] = h[ant[k]]
      <4> HIDE DEF tope, ant, g, k
      <4> QED BY <3>3
    <3>5. h[k] = g[<<k, h[ant[k]]>>] /\ h[ant[k]] \in Seq(Q)
      <4> HIDE DEF tope, ant, g, k, Q, f
      <4> QED BY <1>5, <1>6, <2>1, <3>1, <3>3
    <3>6. h[k] = <<Quitado(bs, i)>> \o h[ant[k]]
      <4> HIDE DEF tope, ant, g, k, Q, f
      <4> QED BY <1>3, <2>1, <3>1, <3>5
    <3> HIDE DEF tope, ant, g, k, Q, f
    <3> QED BY <2>1, <2>3, <3>4, <3>6
  <2> QED BY <2>2, <2>3
<1>8. f = [i \in 1..(Len(bs) + 1) |->
             IF i > Len(bs) THEN <<>>
             ELSE <<Quitado(bs, i)>> \o f[IF Largo(bs, i) = 0 THEN Len(bs) + 1
                                          ELSE i + Octetos + Largo(bs, i)]]
  <2>1. f = [i \in 1..(tope + 1) |-> f[i]]
    OBVIOUS
  <2> HIDE DEF f, g, ant, Q
  <2> QED BY <1>7, <2>1 DEF Sigue
<1> HIDE DEF f, g, ant, Q, tope
<1>9. lista = [i \in 1..(Len(bs) + 1) |->
             IF i > Len(bs) THEN <<>>
             ELSE <<Quitado(bs, i)>> \o lista[IF Largo(bs, i) = 0 THEN Len(bs) + 1
                                              ELSE i + Octetos + Largo(bs, i)]]
  BY <1>8, Zenon
<1>10. Deserealizado(bs) = lista[1]
  BY Zenon DEF Deserealizado
<1> HIDE DEF lista
<1>11. Listado(lista, bs)
  BY <1>9, Zenon DEF Listado, Sigue
<1> QED BY <1>10, <1>11, Zenon

(* A list of fields crosses as it is.                                      *)
LEMMA IdaYVuelta ==
  ASSUME SinPartir, NEW cs \in Seq(Entero)
  PROVE  Deserealizado(Campos(cs)) = cs
<1> DEFINE bs == Campos(cs)
           N  == Len(cs)
<1>1. bs \in Seq(Byte) /\ N \in Nat /\ Octetos \in Nat \ {0} /\ Len(bs) \in Nat
  BY CamposBien, ConstantesComunicaciones
<1>2. PICK off : CamposEn(bs, cs, off)
  BY CamposBien
<1>3. PICK f : Listado(f, bs) /\ Deserealizado(bs) = f[1]
  BY <1>1, ListadoExiste
<1> HIDE DEF bs
<1>4. /\ off \in [0..N -> Nat] /\ off[0] = 0 /\ off[N] = Len(bs)
      /\ \A k \in 1..N :
          /\ off[k] = off[k - 1] + Octetos + cs[k].n /\ off[k] <= Len(bs)
          /\ SubSeq(bs, off[k - 1] + 1, off[k - 1] + 1 + Octetos - 1)
                = Bytes(Numero(cs[k].n), Octetos)
          /\ SubSeq(bs, off[k - 1] + 1 + Octetos, off[k - 1] + 1 + Octetos + cs[k].n - 1)
                = Bytes(cs[k].v, cs[k].n)
  BY <1>2 DEF CamposEn
<1>5. \A i \in 1..(Len(bs) + 1) :
         f[i] = IF i > Len(bs) THEN <<>> ELSE <<Quitado(bs, i)>> \o f[Sigue(bs, i)]
  BY <1>3 DEF Listado
\* one step of the loop
<1>6. ASSUME NEW k \in 1..N
      PROVE  /\ off[k - 1] + 1 \in 1..Len(bs)
             /\ Quitado(bs, off[k - 1] + 1) = cs[k] /\ Sigue(bs, off[k - 1] + 1) = off[k] + 1
  <2> DEFINE i == off[k - 1] + 1
             n == cs[k].n
             quedan == Len(bs) + 1 - (i + Octetos)
  <2>1. k - 1 \in 0..N /\ k \in 0..N /\ cs[k] \in Entero
    BY <1>1
  <2>2. /\ n \in Nat \ {0} /\ cs[k] = [v |-> cs[k].v, n |-> n]
        /\ Valor(Bytes(Numero(n), Octetos)) = Numero(n)
        /\ Valor(Bytes(cs[k].v, n)) = cs[k].v
    BY <2>1, CampoEnBytes
  <2>3. /\ SubSeq(bs, i, i + Octetos - 1) = Bytes(Numero(n), Octetos)
        /\ SubSeq(bs, i + Octetos, i + Octetos + n - 1) = Bytes(cs[k].v, n)
        /\ off[k] = off[k - 1] + Octetos + n /\ off[k] <= Len(bs)
    BY <1>4
  <2>4. off[k - 1] \in Nat /\ off[k] \in Nat
    BY <1>4, <2>1
  <2> HIDE DEF n
  <2>5. i \in 1..Len(bs) /\ n \in 1..quedan /\ quedan > 0 /\ i + Octetos + n = off[k] + 1
    <3> DEFINE o == off[k - 1]
               o2 == off[k]
               tope == Len(bs)
    <3>1. /\ n \in Nat \ {0} /\ o \in Nat /\ o2 \in Nat /\ tope \in Nat /\ Octetos \in Nat \ {0}
          /\ o2 = o + Octetos + n /\ o2 <= tope
      BY <2>2, <2>3, <2>4, <1>1
    <3> HIDE DEF o, o2, tope
    <3>2. /\ o + 1 \in 1..tope /\ n \in 1..(tope + 1 - (o + 1 + Octetos))
          /\ tope + 1 - (o + 1 + Octetos) > 0 /\ o + 1 + Octetos + n = o2 + 1
      BY <3>1
    <3> QED BY <3>2 DEF o, o2, tope
  <2> HIDE DEF i, quedan
  <2>6. Largo(bs, i) = n
    <3>1. Valor(SubSeq(bs, i, i + Octetos - 1)) = Numero(n)
      BY <2>2, <2>3
    <3> DEFINE largo == IF quedan > 0 THEN Valor(SubSeq(bs, i, i + Octetos - 1)) ELSE BASURA
    <3>2. largo = Numero(n) /\ largo[2] = n
      BY <3>1, <2>5 DEF Numero
    <3>3. Largo(bs, i) = IF largo \in {Numero(m) : m \in 1..quedan} THEN largo[2] ELSE 0
      BY Zenon DEF Largo, quedan
    <3> HIDE DEF largo
    <3> QED BY <3>2, <3>3, <2>5
  <2>7. n # 0
    BY <2>2
  <2>8. Sigue(bs, i) = off[k] + 1
    BY <2>5, <2>6, <2>7 DEF Sigue
  <2>9. Quitado(bs, i) = [v |-> Valor(SubSeq(bs, i + Octetos, i + Octetos + n - 1)), n |-> n]
    BY <2>6, <2>7, Zenon DEF Quitado
  <2>10. Quitado(bs, i) = cs[k]
    BY <2>9, <2>2, <2>3, Zenon
  <2> QED BY <2>5, <2>8, <2>10 DEF i
\* from each field to the end
<1> DEFINE Bien(j) == f[off[N - j] + 1] = SubSeq(cs, N - j + 1, N)
           Mal == {j \in 0..N : ~Bien(j)}
<1>7. SUFFICES Mal = {}
  <2>1. N \in 0..N /\ N - N = 0 /\ 0 + 1 = 1
    BY <1>1
  <2>2. Bien(N)
    BY <1>7, <2>1
  <2>3. f[1] = SubSeq(cs, 1, N)
    BY <2>1, <2>2, <1>4
  <2>4. SubSeq(cs, 1, N) = cs
    OBVIOUS
  <2> QED BY <2>3, <2>4, <1>3 DEF bs
<1>8. SUFFICES ASSUME Mal # {} PROVE FALSE
  OBVIOUS
<1>9. PICK j \in Mal : \A y \in Mal : j <= y
  <2>1. Mal \in SUBSET Nat
    OBVIOUS
  <2> HIDE DEF Mal
  <2> QED BY <1>8, <2>1, Listas!MinimoExiste
<1>10. CASE j = 0
  <2>1. N - 0 = N /\ Len(bs) + 1 \in 1..(Len(bs) + 1) /\ Len(bs) + 1 > Len(bs)
    BY <1>1
  <2>2. f[off[N] + 1] = <<>>
    BY <2>1, <1>4, <1>5
  <2>3. SubSeq(cs, N + 1, N) = <<>>
    BY <1>1
  <2> QED BY <1>9, <1>10, <2>1, <2>2, <2>3
<1>11. CASE j # 0
  <2> DEFINE k == N - j + 1
  <2>1. /\ j - 1 \in 0..N /\ ~(j <= j - 1) /\ k \in 1..N /\ k - 1 = N - j
        /\ N - (j - 1) = k /\ cs[k] \in Entero
    BY <1>1, <1>9, <1>11
  <2>2. Bien(j - 1)
    BY <1>9, <2>1
  <2> HIDE DEF Mal
  <2>3. f[off[k] + 1] = SubSeq(cs, k + 1, N)
    <3> HIDE DEF k
    <3> QED BY <2>1, <2>2
  <2>4. f[off[k - 1] + 1] = <<cs[k]>> \o f[off[k] + 1]
    <3> HIDE DEF k
    <3>1. /\ off[k - 1] + 1 \in 1..(Len(bs) + 1) /\ ~(off[k - 1] + 1 > Len(bs))
          /\ Quitado(bs, off[k - 1] + 1) = cs[k] /\ Sigue(bs, off[k - 1] + 1) = off[k] + 1
      BY <1>1, <1>6, <2>1
    <3> HIDE DEF N
    <3> QED BY <3>1, <1>5
  <2>5. <<cs[k]>> \o SubSeq(cs, k + 1, N) = SubSeq(cs, k, N)
    <3> HIDE DEF k
    <3> DEFINE a == SubSeq(cs, k + 1, N)
               r == SubSeq(cs, k, N)
               u == <<cs[k]>>
    <3>1. /\ a \in Seq(Entero) /\ Len(a) = N - k /\ \A m \in 1..(N - k) : a[m] = cs[k + m]
      BY <1>1, <2>1
    <3>2. /\ r \in Seq(Entero) /\ Len(r) = N - k + 1
          /\ \A m \in 1..(N - k + 1) : r[m] = cs[k + m - 1]
      BY <1>1, <2>1
    <3>3. u \in Seq(Entero) /\ Len(u) = 1 /\ u[1] = cs[k]
      BY <2>1
    <3> HIDE DEF a, r, u
    <3>4. /\ u \o a \in Seq(Entero) /\ Len(u \o a) = 1 + (N - k) /\ (u \o a)[1] = u[1]
          /\ \A m \in 1..(N - k) : (u \o a)[1 + m] = a[m]
      <4>1. /\ u \o a \in Seq(Entero) /\ Len(u \o a) = Len(u) + Len(a)
            /\ \A m \in 1..Len(u) : (u \o a)[m] = u[m]
            /\ \A m \in 1..Len(a) : (u \o a)[Len(u) + m] = a[m]
        <5>1. a \in Seq(Entero) /\ u \in Seq(Entero)
          BY <3>1, <3>3
        <5> QED BY <5>1, Pegar
      <4>2. 1 \in 1..Len(u)
        BY <3>3
      <4> QED BY <4>1, <4>2, <3>1, <3>3
    <3>5. ASSUME NEW m \in 1..(N - k + 1) PROVE (u \o a)[m] = r[m]
      <4>1. CASE m = 1
        <5>1. r[1] = cs[k]
          <6>1. k + 1 - 1 = k /\ 1 \in 1..(N - k + 1)
            BY <1>1, <2>1
          <6> QED BY <3>2, <6>1
        <5> QED BY <4>1, <3>3, <3>4, <5>1
      <4>2. CASE m # 1
        <5>1. m - 1 \in 1..(N - k) /\ 1 + (m - 1) = m /\ k + (m - 1) = k + m - 1
          BY <4>2, <1>1, <2>1
        <5>2. (u \o a)[m] = a[m - 1] /\ a[m - 1] = cs[k + m - 1]
          BY <5>1, <3>1, <3>4
        <5> QED BY <5>2, <3>2
      <4> QED BY <4>1, <4>2
    <3>6. Len(u \o a) = Len(r) /\ Len(r) = N - k + 1
      BY <3>2, <3>4, <1>1, <2>1
    <3>7. u \o a = r
      BY <3>2, <3>4, <3>5, <3>6, SeqEqual
    <3> QED BY <3>7 DEF u, a, r
  <2>6. f[off[k - 1] + 1] = SubSeq(cs, k, N)
    BY <2>3, <2>4, <2>5
  <2>7. Bien(j)
    BY <2>1, <2>6
  <2> QED BY <1>9, <2>7 DEF Mal
<1> QED BY <1>10, <1>11

-----------------------------------------------------------------------------
(* A packet on the stream: the code, the size, and the fields.             *)

Tamanio(p) == Bytes(Numero(Len(Campos(p.campos))), Octetos)
Cuerpo(p)  == Tamanio(p) \o Campos(p.campos)

LEMMA EsNumero ==
  ASSUME NEW n \in Nat
  PROVE  Numero(n) \in Dato /\ Numero(n) # BASURA /\ Numero(n)[1] = "numero" /\ Numero(n)[2] = n
<1>1. Numero(n) \in Dato
  BY DEF Dato
<1>2. Numero(n) # BASURA
  <2>1. Len(Numero(n)) = 2 /\ Len(BASURA) = 1
    BY DEF Numero, BASURA
  <2> QED BY <2>1
<1> QED BY <1>1, <1>2 DEF Numero

LEMMA PaqueteEnBytes ==
  ASSUME SinPartir, NEW p \in Paquete
  PROVE  /\ p = [op |-> p.op, campos |-> p.campos] /\ p.campos \in Seq(Entero)
         /\ Campos(p.campos) \in Seq(Byte) /\ Cuerpo(p) \in Seq(Byte)
         /\ Serializado(p) \in Seq(Byte)
         \* the code
         /\ Len(Serializado(p)) >= 1 /\ <<"op", p.op>> \in Dato
         /\ Valor(SubSeq(Serializado(p), 1, 1)) = <<"op", p.op>>
         /\ SubSeq(Serializado(p), 1 + 1, Len(Serializado(p))) = Cuerpo(p)
         \* the size
         /\ Len(Cuerpo(p)) >= Octetos
         /\ Valor(SubSeq(Cuerpo(p), 1, Octetos)) = Numero(Len(Campos(p.campos)))
         /\ SubSeq(Cuerpo(p), Octetos + 1, Len(Cuerpo(p))) = Campos(p.campos)
<1> DEFINE d == Campos(p.campos)
           t == Tamanio(p)
           o == Bytes(<<"op", p.op>>, 1)
<1>1. p = [op |-> p.op, campos |-> p.campos] /\ p.campos \in Seq(Entero) /\ p.op \in Codigos
  BY DEF Paquete
<1>2. d \in Seq(Byte) /\ Len(d) \in Nat
  BY <1>1, CamposBien
<1>3. Octetos \in Nat \ {0} /\ Octetos \in Nat /\ 1 \in Nat
  BY ConstantesComunicaciones
<1>4. /\ t \in Seq(Byte) /\ Len(t) = Octetos /\ Valor(t) = Numero(Len(d))
  <2>1. Numero(Len(d)) \in Dato
    BY <1>2, EsNumero
  <2> HIDE DEF d
  <2> QED BY <2>1, <1>3, BytesDeValor DEF Tamanio, d
<1>5. <<"op", p.op>> \in Dato
  BY <1>1 DEF Dato
<1>6. o \in Seq(Byte) /\ Len(o) = 1 /\ Valor(o) = <<"op", p.op>>
  <2> DEFINE v == <<"op", p.op>>
  <2>1. v \in Dato
    BY <1>5
  <2> HIDE DEF v
  <2>2. Bytes(v, 1) \in Seq(Byte) /\ Len(Bytes(v, 1)) = 1 /\ (1 > 0 => Valor(Bytes(v, 1)) = v)
    BY <1>3, <2>1, BytesDeValor
  <2> QED BY <2>2 DEF v
<1>7. Cuerpo(p) = t \o d
  BY DEF Cuerpo
<1>8. Serializado(p) = (o \o t) \o d
  BY Zenon DEF Serializado, Tamanio
<1> HIDE DEF d, t, o
<1>9. (o \o t) \o d = o \o (t \o d)
  BY <1>2, <1>4, <1>6, ConcatAssociative
<1>10. /\ Cuerpo(p) \in Seq(Byte) /\ Len(Cuerpo(p)) = Octetos + Len(d)
       /\ SubSeq(Cuerpo(p), 1, Octetos) = t /\ SubSeq(Cuerpo(p), Octetos + 1, Len(Cuerpo(p))) = d
  <2>1. t \o d \in Seq(Byte) /\ Len(t \o d) = Len(t) + Len(d)
    BY <1>2, <1>4, Pegar
  <2>2. SubSeq(t \o d, 1, Len(t)) = t /\ SubSeq(t \o d, Len(t) + 1, Len(t \o d)) = d
    BY <1>2, <1>4, QuitarDelante
  <2> QED BY <2>1, <2>2, <1>4, <1>7
<1>11. /\ Serializado(p) \in Seq(Byte) /\ Len(Serializado(p)) = 1 + Len(Cuerpo(p))
       /\ SubSeq(Serializado(p), 1, 1) = o
       /\ SubSeq(Serializado(p), 1 + 1, Len(Serializado(p))) = Cuerpo(p)
  <2> DEFINE c == Cuerpo(p)
  <2>1. Serializado(p) = o \o c /\ c \in Seq(Byte)
    BY <1>7, <1>8, <1>9, <1>10
  <2> HIDE DEF c
  <2>2. o \o c \in Seq(Byte) /\ Len(o \o c) = Len(o) + Len(c)
    BY <1>6, <2>1, Pegar
  <2>3. SubSeq(o \o c, 1, Len(o)) = o /\ SubSeq(o \o c, Len(o) + 1, Len(o \o c)) = c
    BY <1>6, <2>1, QuitarDelante
  <2> QED BY <2>1, <2>2, <2>3, <1>6 DEF c
<1>12. Len(Cuerpo(p)) >= Octetos /\ Len(Serializado(p)) >= 1
  BY <1>2, <1>3, <1>10, <1>11
<1> QED BY <1>1, <1>2, <1>4, <1>5, <1>6, <1>10, <1>11, <1>12 DEF d

LEMMA PrimerByte ==
  ASSUME SinPartir, NEW p \in Paquete
  PROVE  Serializado(p)[1].v = <<"op", p.op>> /\ <<"op", p.op>> \in Ops
<1> DEFINE v == <<"op", p.op>>
           o == Bytes(v, 1)
           c == Bytes(Numero(Len(Campos(p.campos))), Octetos) \o Campos(p.campos)
<1>1. p.op \in Codigos /\ v \in Dato /\ v \in Ops
  BY DEF Paquete, Dato, Ops
<1>2. p.campos \in Seq(Entero)
  BY DEF Paquete
<1>3. Campos(p.campos) \in Seq(Byte)
  BY <1>2, CamposBien
<1> DEFINE d == Campos(p.campos)
<1>4. Numero(Len(d)) \in Dato /\ Octetos \in Nat
  BY <1>3, EsNumero, ConstantesComunicaciones
<1> HIDE DEF v
<1>5. o \in Seq(Byte) /\ Len(o) = 1 /\ \A k \in 1..1 : o[k] = [v |-> v, k |-> k]
  BY <1>1, BytesDeValor
<1>6. o[1].v = v
  BY <1>5
<1> DEFINE m == Numero(Len(d))
<1>7. m \in Dato
  BY <1>4
<1> HIDE DEF m, d
<1>8. Bytes(m, Octetos) \in Seq(Byte)
  BY <1>4, <1>7, BytesDeValor
<1>9. d \in Seq(Byte)
  BY <1>3 DEF d
<1>10. c \in Seq(Byte)
  <2>1. Bytes(m, Octetos) \o d \in Seq(Byte)
    BY <1>8, <1>9
  <2> QED BY <2>1 DEF m, d
<1>11. Serializado(p) = o \o c
  <2> DEFINE e == Bytes(m, Octetos)
  <2>1. Serializado(p) = o \o e \o d
    BY Zenon DEF Serializado, v, m, d
  <2>2. c = e \o d
    BY Zenon DEF m, d
  <2>3. e \in Seq(Byte)
    BY <1>8
  <2> HIDE DEF e, o, c
  <2>4. (o \o e) \o d = o \o (e \o d)
    BY <1>5, <1>9, <2>3
  <2> QED BY <2>1, <2>2, <2>4
<1> HIDE DEF o, c
<1>12. (o \o c)[1] = o[1]
  <2>1. \A k \in 1..Len(o) : (o \o c)[k] = o[k]
    BY <1>5, <1>10, Pegar
  <2>2. 1 \in 1..Len(o)
    BY <1>5
  <2> QED BY <2>1, <2>2
<1> QED BY <1>1, <1>6, <1>11, <1>12 DEF v

-----------------------------------------------------------------------------
(* The operations on a connection, a record.                               *)

Lados == {"cli", "srv"}

Registro == [ent : [Lados -> Seq(Byte)], cerro : SUBSET Lados, pc : [Lados -> Etiquetas],
             rx : [Lados -> [op : Dato, tamanio : Dato, datos : Seq(Byte)]],
             quien : Dato, pedidas : Nat,
             resultados : Seq(Paquete), respuestas : Seq(Paquete)]

\* What the script, the answers and the handshake say is the same.
MismaCuenta(q, r) ==
    /\ q.quien = r.quien /\ q.pedidas = r.pedidas
    /\ q.resultados = r.resultados /\ q.respuestas = r.respuestas

LEMMA VaBien ==
  ASSUME NEW r \in Registro, NEW l \in Lados, NEW e \in Etiquetas
  PROVE  /\ Va(r, l, e) \in Registro /\ MismaCuenta(Va(r, l, e), r)
         /\ Va(r, l, e).pc[l] = e /\ Va(r, l, e).pc[Otro(l)] = r.pc[Otro(l)]
         /\ Va(r, l, e).ent = r.ent /\ Va(r, l, e).cerro = r.cerro /\ Va(r, l, e).rx = r.rx
<1> DEFINE q == [r EXCEPT !.pc[l] = e]
<1>1. q = Va(r, l, e)
  BY DEF Va
<1>2. q \in Registro
  BY DEF Registro, Lados
<1>3. q.pc[l] = e
  BY DEF Registro, Lados
<1>4. q.pc[Otro(l)] = r.pc[Otro(l)]
  BY DEF Registro, Lados, Otro
<1>5. q.ent = r.ent /\ q.cerro = r.cerro
  BY DEF Registro, Lados
<1>6. q.rx = r.rx
  BY DEF Registro, Lados
<1>7. MismaCuenta(q, r)
  BY DEF Registro, Lados, MismaCuenta
<1> QED BY <1>1, <1>2, <1>3, <1>4, <1>5, <1>6, <1>7

LEMMA CierraBien ==
  ASSUME NEW r \in Registro, NEW l \in Lados
  PROVE  /\ Cierra(r, l) \in Registro /\ MismaCuenta(Cierra(r, l), r)
         /\ Cierra(r, l).pc[l] = "fin" /\ Cierra(r, l).pc[Otro(l)] = r.pc[Otro(l)]
         /\ Cierra(r, l).ent = r.ent /\ Cierra(r, l).cerro = r.cerro \cup {l}
         /\ Cierra(r, l).rx = r.rx
<1> DEFINE v == Va(r, l, "fin")
           q == [v EXCEPT !.cerro = @ \cup {l}]
<1>1. /\ v \in Registro /\ MismaCuenta(v, r) /\ v.pc[l] = "fin" /\ v.pc[Otro(l)] = r.pc[Otro(l)]
      /\ v.ent = r.ent /\ v.cerro = r.cerro /\ v.rx = r.rx
  <2>1. "fin" \in Etiquetas
    BY DEF Etiquetas
  <2> QED BY <2>1, VaBien
<1>2. q = Cierra(r, l)
  BY Zenon DEF Cierra
<1> HIDE DEF v
<1>3. q \in Registro /\ q.cerro = v.cerro \cup {l} /\ q.pc = v.pc /\ q.ent = v.ent /\ q.rx = v.rx
  BY <1>1 DEF Registro
<1>4. MismaCuenta(q, v)
  BY <1>1 DEF Registro, MismaCuenta
<1>5. MismaCuenta(q, r)
  BY <1>1, <1>4 DEF MismaCuenta
<1> HIDE DEF q
<1> QED BY <1>1, <1>2, <1>3, <1>5

LEMMA QuitaBien ==
  ASSUME NEW r \in Registro, NEW l \in Lados, NEW k \in Nat, k <= Len(r.ent[l])
  PROVE  /\ Quita(r, l, k) \in Registro /\ MismaCuenta(Quita(r, l, k), r)
         /\ Quita(r, l, k).ent[l] = SubSeq(r.ent[l], k + 1, Len(r.ent[l]))
         /\ Quita(r, l, k).ent[Otro(l)] = r.ent[Otro(l)]
         /\ Quita(r, l, k).pc = r.pc /\ Quita(r, l, k).cerro = r.cerro
         /\ Quita(r, l, k).rx = r.rx
<1> DEFINE x == SubSeq(r.ent[l], k + 1, Len(r.ent[l]))
           q == [r EXCEPT !.ent[l] = x]
<1>1. q = Quita(r, l, k)
  BY Zenon DEF Quita
<1>2. x \in Seq(Byte)
  <2>1. r.ent[l] \in Seq(Byte)
    BY DEF Registro
  <2>2. k + 1 \in Nat \ {0} /\ Len(r.ent[l]) \in Nat /\ k + 1 <= Len(r.ent[l]) + 1
    BY <2>1
  <2> QED BY <2>1, <2>2, Tramo
<1> HIDE DEF x
<1>3. q \in Registro
  BY <1>2 DEF Registro, Lados
<1>4. q.ent[l] = x
  BY <1>2 DEF Registro, Lados
<1>5. q.ent[Otro(l)] = r.ent[Otro(l)]
  BY <1>2 DEF Registro, Lados, Otro
<1>6. q.pc = r.pc /\ q.cerro = r.cerro /\ q.rx = r.rx
  BY <1>2 DEF Registro, Lados
<1>7. MismaCuenta(q, r)
  BY <1>2 DEF Registro, Lados, MismaCuenta
<1> HIDE DEF q
<1> QED BY <1>1, <1>3, <1>4, <1>5, <1>6, <1>7 DEF x

LEMMA EnviaBien ==
  ASSUME NEW r \in Registro, NEW l \in Lados, NEW bs \in Seq(Byte), Otro(l) \notin r.cerro
  PROVE  /\ Envia(r, l, bs) \in Registro /\ MismaCuenta(Envia(r, l, bs), r)
         /\ Envia(r, l, bs).ent[Otro(l)] = r.ent[Otro(l)] \o bs
         /\ Envia(r, l, bs).ent[l] = r.ent[l]
         /\ Envia(r, l, bs).pc = r.pc /\ Envia(r, l, bs).cerro = r.cerro
         /\ Envia(r, l, bs).rx = r.rx
<1> DEFINE m == Otro(l)
           x == r.ent[m] \o bs
           q == [r EXCEPT !.ent[m] = x]
<1>1. q = Envia(r, l, bs)
  BY Zenon DEF Envia
<1>2. m \in Lados /\ l # m
  BY DEF Lados, Otro
<1>3. x \in Seq(Byte)
  <2>1. r.ent[m] \in Seq(Byte)
    BY <1>2 DEF Registro
  <2> HIDE DEF m
  <2> QED BY <2>1, Pegar
<1> HIDE DEF x, m
<1>4. q \in Registro
  BY <1>2, <1>3 DEF Registro, Lados
<1>5. q.ent[m] = x
  BY <1>2, <1>3 DEF Registro, Lados
<1>6. q.ent[l] = r.ent[l]
  BY <1>2, <1>3 DEF Registro, Lados
<1>7. q.pc = r.pc /\ q.cerro = r.cerro /\ q.rx = r.rx
  BY <1>2, <1>3 DEF Registro, Lados
<1>8. MismaCuenta(q, r)
  BY <1>2, <1>3 DEF Registro, Lados, MismaCuenta
<1> HIDE DEF q
<1> QED BY <1>1, <1>4, <1>5, <1>6, <1>7, <1>8 DEF x, m

LEMMA ContestaBien ==
  ASSUME SinPartir, NEW r \in Registro, NEW p \in Paquete, "cli" \notin r.cerro
  PROVE  /\ Contesta(r, p) \in Registro
         /\ Contesta(r, p).quien = r.quien /\ Contesta(r, p).pedidas = r.pedidas
         /\ Contesta(r, p).respuestas = r.respuestas
         /\ Contesta(r, p).resultados = Append(r.resultados, p)
         /\ Contesta(r, p).ent["cli"] = r.ent["cli"] \o Serializado(p)
         /\ Contesta(r, p).ent["srv"] = r.ent["srv"]
         /\ Contesta(r, p).pc = r.pc /\ Contesta(r, p).cerro = r.cerro
         /\ Contesta(r, p).rx = r.rx
<1> DEFINE e == EnviaPaquete(r, "srv", p)
           q == [e EXCEPT !.resultados = Append(@, p)]
<1>1. q = Contesta(r, p)
  BY Zenon DEF Contesta
<1>2. "srv" \in Lados /\ Otro("srv") = "cli"
  BY DEF Lados, Otro
<1>3. /\ e \in Registro /\ MismaCuenta(e, r)
      /\ e.ent["cli"] = r.ent["cli"] \o Serializado(p) /\ e.ent["srv"] = r.ent["srv"]
      /\ e.pc = r.pc /\ e.cerro = r.cerro /\ e.rx = r.rx
  <2>1. Serializado(p) \in Seq(Byte)
    BY PaqueteEnBytes
  <2> DEFINE bs == Serializado(p)
  <2>2. e = Envia(r, "srv", bs)
    BY Zenon DEF EnviaPaquete
  <2>3. bs \in Seq(Byte) /\ Otro("srv") \notin r.cerro
    BY <1>2, <2>1
  <2> HIDE DEF bs, e
  <2>4. /\ e \in Registro /\ MismaCuenta(e, r)
        /\ e.ent[Otro("srv")] = r.ent[Otro("srv")] \o bs /\ e.ent["srv"] = r.ent["srv"]
        /\ e.pc = r.pc /\ e.cerro = r.cerro /\ e.rx = r.rx
    BY <1>2, <2>2, <2>3, EnviaBien
  <2> QED BY <1>2, <2>4 DEF bs
<1> HIDE DEF e
<1>4. e.resultados \in Seq(Paquete) /\ e.resultados = r.resultados
  BY <1>3 DEF Registro, MismaCuenta
<1>5. Append(e.resultados, p) \in Seq(Paquete)
  BY <1>4
<1>6. /\ q \in Registro /\ q.resultados = Append(e.resultados, p)
      /\ q.ent = e.ent /\ q.pc = e.pc /\ q.cerro = e.cerro /\ q.rx = e.rx
      /\ q.quien = e.quien /\ q.pedidas = e.pedidas /\ q.respuestas = e.respuestas
  BY <1>3, <1>5 DEF Registro
<1> HIDE DEF q
<1> QED BY <1>1, <1>3, <1>4, <1>6 DEF MismaCuenta

(* What is on the stream together arrives together.                        *)
LEMMA LlegaEntero ==
  ASSUME SinPartir, NEW r \in Registro, NEW l \in Lados, NEW n \in Nat \ {0}, n <= Len(r.ent[l])
  PROVE  Llegan(r, l, n) = {n}
<1>1. r.ent[l] \in Seq(Byte) /\ Len(r.ent[l]) \in Nat
  BY DEF Registro
<1>2. Llegan(r, l, n) = {k \in 1..n : Cortes \/ k = n}
  BY <1>1 DEF Llegan
<1> QED BY <1>2 DEF SinPartir

-----------------------------------------------------------------------------
(* A connection goes through these phases.                                 *)

Recepcion == {"op", "tamanio", "datos", "procesa"}

\* The side l is in the middle of the packet p: what it read and what is left.
Recibiendo(r, l, p) ==
    /\ p \in Paquete
    /\ r.pc[l] = "op"      => r.ent[l] = Serializado(p)
    /\ r.pc[l] = "tamanio" => r.ent[l] = Cuerpo(p)
    /\ r.pc[l] = "datos"   => /\ r.ent[l] = Campos(p.campos)
                              /\ r.rx[l].tamanio = Numero(Len(Campos(p.campos)))
    /\ r.pc[l] = "procesa" => r.ent[l] = <<>> /\ r.rx[l].datos = Campos(p.campos)
    /\ r.pc[l] # "op"      => r.rx[l].op = <<"op", p.op>>

Hs(x) == Bytes(<<"hs", x>>, Octetos)
Callada(r) == r.ent.cli = <<>> /\ r.ent.srv = <<>>

PorAbrir(r) ==
    /\ r.pc.cli = "no" /\ r.pc.srv = "no" /\ Callada(r)
    /\ r.pedidas = 0 /\ r.resultados = <<>> /\ r.respuestas = <<>>

\* The request may already follow the handshake.
Saludandose(c, r) ==
    /\ r.resultados = <<>> /\ r.respuestas = <<>>
    /\ \/ /\ r.pc.cli = "valida" /\ r.pc.srv \in {"cola", "saluda"} /\ r.pedidas = 0
          /\ r.ent.srv = Hs(Origen(c)) /\ r.ent.cli = <<>>
       \/ /\ r.pc.srv = "confirma" /\ r.quien = <<"hs", Origen(c)>>
          /\ \/ /\ r.pc.cli = "valida" /\ r.pedidas = 0
                /\ r.ent.srv = <<>> /\ r.ent.cli = Hs(Servidor(c))
             \/ /\ r.pc.cli = "pide" /\ r.pedidas = 0
                /\ r.ent.srv = Hs("HSOK") /\ r.ent.cli = <<>>
             \/ /\ r.pc.cli = "op" /\ r.pedidas = 1 /\ 1 \in DOMAIN Guion[c]
                /\ r.ent.srv = Hs("HSOK") \o Serializado(Guion[c][1]) /\ r.ent.cli = <<>>

Libre(c, r) ==
    /\ r.pc.cli = "pide" /\ r.pc.srv = "op" /\ Callada(r)
    /\ r.pedidas \in 0..Len(Guion[c])
    /\ Len(r.resultados) = r.pedidas /\ Len(r.respuestas) = r.pedidas

Pidiendo(c, r) ==
    /\ r.pc.cli = "op" /\ r.pc.srv \in Recepcion /\ r.ent.cli = <<>>
    /\ r.pedidas \in 1..Len(Guion[c])
    /\ Len(r.resultados) = r.pedidas - 1 /\ Len(r.respuestas) = r.pedidas - 1
    /\ Recibiendo(r, "srv", Guion[c][r.pedidas])

Delegando(c, r) ==
    /\ c \in DOMAIN DumpDe
    /\ r.pc.cli = "op" /\ r.pc.srv = "espera" /\ Callada(r)
    /\ r.pedidas = 1 /\ r.resultados = <<>> /\ r.respuestas = <<>>

Respondiendo(c, r) ==
    /\ r.pc.cli \in Recepcion /\ r.pc.srv = (IF c \in DeCpu THEN "op" ELSE "fin")
    /\ r.ent.srv = <<>> /\ r.pedidas \in 1..Len(Guion[c])
    /\ Len(r.resultados) = r.pedidas /\ Len(r.respuestas) = r.pedidas - 1
    /\ Recibiendo(r, "cli", Last(r.resultados))

Terminada(c, r) ==
    /\ c \notin DeCpu /\ r.pc.cli = "fin" /\ r.pc.srv = "fin" /\ Callada(r)
    /\ r.pedidas = 1 /\ Len(r.resultados) = 1 /\ Len(r.respuestas) = 1

Fase(c, r) ==
    /\ r.cerro = {l \in Lados : r.pc[l] = "fin"}
    /\ c \in DeDump => \A i \in DOMAIN r.resultados : r.resultados[i].campos = <<>>
    /\ \/ PorAbrir(r) \/ Saludandose(c, r) \/ Libre(c, r) \/ Pidiendo(c, r)
       \/ Delegando(c, r) \/ Respondiendo(c, r) \/ Terminada(c, r)

(* A dump is under way only while a request waits for it, and what came of *)
(* one is what came of the other.                                          *)
Enlace ==
    /\ \A d \in DeDump :
          \/ PorAbrir(con[d])
          \/ \E c \in DOMAIN DumpDe : DumpDe[c] = d /\ con[c].pc.srv \in {"espera", "fin"}
    /\ \A c \in DOMAIN DumpDe : con[c].pc.srv = "fin" =>
          /\ con[DumpDe[c]].pc.srv = "fin"
          /\ con[c].resultados = con[DumpDe[c]].resultados

Atiende ==
    /\ acepta \in [Servidores -> Conexiones \cup {NULO}]
    /\ \A s \in Servidores : acepta[s] # NULO =>
          Servidor(acepta[s]) = s /\ con[acepta[s]].pc.srv \in {"saluda", "confirma"}

Sesiones ==
    /\ con \in [Conexiones -> Registro]
    /\ \A c \in Conexiones : Fase(c, con[c])

-----------------------------------------------------------------------------
(* recibir_paquete: each recv returns the part it asks for.                *)

\* q is r after the side l goes to e: nothing of the other side changes.
Avanza(q, r, l, e) ==
    /\ q \in Registro /\ MismaCuenta(q, r) /\ q.cerro = r.cerro
    /\ q.pc[l] = e /\ q.pc[Otro(l)] = r.pc[Otro(l)] /\ q.ent[Otro(l)] = r.ent[Otro(l)]

LEMMA LadosDos == \A l \in Lados : Otro(l) \in Lados /\ Otro(l) # l
BY DEF Lados, Otro

LEMMA NadaLlega ==
  ASSUME NEW r, NEW l, NEW n \in Nat, r.ent[l] = <<>>, Otro(l) \notin r.cerro
  PROVE  Llegan(r, l, n) = {}
<1>1. Len(r.ent[l]) = 0
  OBVIOUS
<1> QED BY <1>1 DEF Llegan

\* The common part: k bytes leave the stream of l, and l goes to e.
LEMMA QuitaYVa ==
  ASSUME NEW r \in Registro, NEW l \in Lados, NEW k \in Nat, k <= Len(r.ent[l]),
         NEW e \in Etiquetas
  PROVE  /\ Avanza(Va(Quita(r, l, k), l, e), r, l, e)
         /\ Va(Quita(r, l, k), l, e).ent[l] = SubSeq(r.ent[l], k + 1, Len(r.ent[l]))
         /\ Va(Quita(r, l, k), l, e).rx = r.rx
<1> DEFINE t == Quita(r, l, k)
           q == Va(t, l, e)
<1>1. /\ t \in Registro /\ MismaCuenta(t, r)
      /\ t.ent[l] = SubSeq(r.ent[l], k + 1, Len(r.ent[l])) /\ t.ent[Otro(l)] = r.ent[Otro(l)]
      /\ t.pc = r.pc /\ t.cerro = r.cerro /\ t.rx = r.rx
  BY QuitaBien
<1> HIDE DEF t
<1>2. /\ q \in Registro /\ MismaCuenta(q, t) /\ q.pc[l] = e /\ q.pc[Otro(l)] = t.pc[Otro(l)]
      /\ q.ent = t.ent /\ q.cerro = t.cerro /\ q.rx = t.rx
  BY <1>1, VaBien
<1> HIDE DEF q
<1>3. Avanza(q, r, l, e) /\ q.ent[l] = SubSeq(r.ent[l], k + 1, Len(r.ent[l])) /\ q.rx = r.rx
  BY <1>1, <1>2 DEF Avanza, MismaCuenta
<1> QED BY <1>3 DEF q, t

Anotado(r, l, x) == [r EXCEPT !.rx = [r.rx EXCEPT ![l] = x]]

LEMMA AnotaRx ==
  ASSUME NEW r \in Registro, NEW l \in Lados, NEW x \in [op : Dato, tamanio : Dato, datos : Seq(Byte)]
  PROVE  LET q == Anotado(r, l, x)
         IN  /\ q \in Registro /\ MismaCuenta(q, r) /\ q.cerro = r.cerro
             /\ q.pc = r.pc /\ q.ent = r.ent /\ q.rx[l] = x
<1> DEFINE R == [op : Dato, tamanio : Dato, datos : Seq(Byte)]
           y == [r.rx EXCEPT ![l] = x]
           q == [r EXCEPT !.rx = y]
<1>1. r.rx \in [Lados -> R]
  BY DEF Registro
<1> HIDE DEF R
<1>2. y \in [Lados -> R] /\ y[l] = x
  BY <1>1 DEF R
<1> HIDE DEF y
<1>3. q \in Registro
  BY <1>2 DEF Registro, R
<1>4. q.rx = y /\ q.cerro = r.cerro /\ q.pc = r.pc /\ q.ent = r.ent
  BY DEF Registro
<1>5. MismaCuenta(q, r)
  BY DEF Registro, MismaCuenta
<1> HIDE DEF q
<1>6. /\ q \in Registro /\ MismaCuenta(q, r) /\ q.cerro = r.cerro
      /\ q.pc = r.pc /\ q.ent = r.ent /\ q.rx[l] = x
  BY <1>2, <1>3, <1>4, <1>5
<1> QED BY <1>6 DEF q, y, Anotado

LEMMA AnotaAvanza ==
  ASSUME NEW r \in Registro, NEW l \in Lados, NEW k \in Nat, k <= Len(r.ent[l]),
         NEW e \in Etiquetas, NEW x \in [op : Dato, tamanio : Dato, datos : Seq(Byte)],
         NEW t, t = Va(Quita(r, l, k), l, e), NEW q, q = Anotado(t, l, x)
  PROVE  /\ Avanza(q, r, l, e) /\ q.rx[l] = x
         /\ q.ent[l] = SubSeq(r.ent[l], k + 1, Len(r.ent[l]))
<1>1. /\ Avanza(t, r, l, e) /\ t.ent[l] = SubSeq(r.ent[l], k + 1, Len(r.ent[l])) /\ t.rx = r.rx
  BY QuitaYVa
<1>2. t \in Registro
  BY <1>1 DEF Avanza
<1>3. /\ q \in Registro /\ MismaCuenta(q, t) /\ q.cerro = t.cerro
      /\ q.pc = t.pc /\ q.ent = t.ent /\ q.rx[l] = x
  BY <1>2, AnotaRx
<1> QED BY <1>1, <1>3 DEF Avanza, MismaCuenta

LEMMA RxDe ==
  ASSUME NEW r \in Registro, NEW l \in Lados
  PROVE  /\ r.rx[l] \in [op : Dato, tamanio : Dato, datos : Seq(Byte)]
         /\ r.ent[l] \in Seq(Byte) /\ Len(r.ent[l]) \in Nat /\ r.pc[l] \in Etiquetas
BY DEF Registro

LEMMA RecibeOp ==
  ASSUME SinPartir, NEW r \in Registro, NEW l \in Lados, NEW p, Recibiendo(r, l, p), r.pc[l] = "op",
         NEW k \in Llegan(r, l, 1),
         NEW op \in IF k = 1 /\ r.ent[l][1].v \in Ops THEN {r.ent[l][1].v} ELSE Ops
  PROVE  LET q == [Va(Quita(r, l, k), l, "tamanio") EXCEPT !.rx[l].op = op]
         IN  Avanza(q, r, l, "tamanio") /\ Recibiendo(q, l, p)
<1> DEFINE t == Va(Quita(r, l, k), l, "tamanio")
           x == [t.rx[l] EXCEPT !.op = op]
           q == [t EXCEPT !.rx = [t.rx EXCEPT ![l] = x]]
<1>1. p \in Paquete /\ r.ent[l] = Serializado(p) /\ Len(Serializado(p)) >= 1
  BY PaqueteEnBytes DEF Recibiendo
<1>2. k = 1
  <2>1. Llegan(r, l, 1) = {1}
    <3>1. Len(r.ent[l]) \in Nat /\ 1 <= Len(r.ent[l])
      BY <1>1, RxDe
    <3> QED BY <3>1, LlegaEntero
  <2> QED BY <2>1
<1>3. op = <<"op", p.op>> /\ op \in Dato
  <2>1. r.ent[l][1].v = <<"op", p.op>> /\ <<"op", p.op>> \in Ops
    BY <1>1, PrimerByte
  <2> QED BY <1>1, <1>2, <2>1, PaqueteEnBytes
<1>4. "tamanio" \in Etiquetas
  BY DEF Etiquetas
<1>5. Avanza(t, r, l, "tamanio") /\ t.rx = r.rx
  BY <1>1, <1>2, <1>4, QuitaYVa
<1>6. x \in [op : Dato, tamanio : Dato, datos : Seq(Byte)] /\ x.op = op
  <2>1. t.rx[l] \in [op : Dato, tamanio : Dato, datos : Seq(Byte)]
    BY <1>5, RxDe
  <2> HIDE DEF t
  <2> QED BY <2>1, <1>3
<1> HIDE DEF x
<1>7. /\ Avanza(q, r, l, "tamanio") /\ q.rx[l] = x
      /\ q.ent[l] = SubSeq(r.ent[l], k + 1, Len(r.ent[l]))
  <2>1. k \in Nat /\ k <= Len(r.ent[l])
    BY <1>1, <1>2
  <2>2. q = Anotado(t, l, x)
    BY Zenon DEF Anotado
  <2>3. t = Va(Quita(r, l, k), l, "tamanio")
    OBVIOUS
  <2> HIDE DEF q, t
  <2> QED BY <1>4, <1>6, <2>1, <2>2, <2>3, AnotaAvanza
<1> HIDE DEF q, t
<1>8. q.ent[l] = Cuerpo(p)
  BY <1>1, <1>2, <1>7, PaqueteEnBytes
<1>9. Recibiendo(q, l, p)
  BY <1>1, <1>3, <1>6, <1>7, <1>8 DEF Recibiendo, Avanza
<1>10. q = [Va(Quita(r, l, k), l, "tamanio") EXCEPT !.rx[l].op = op]
  BY Zenon DEF q, t, x
<1> QED BY <1>7, <1>9, <1>10

LEMMA RecibeTamanio ==
  ASSUME SinPartir, NEW r \in Registro, NEW l \in Lados, NEW p, Recibiendo(r, l, p),
         r.pc[l] = "tamanio", NEW k \in Llegan(r, l, Octetos)
  PROVE  LET q == [Va(Quita(r, l, k), l, "datos") EXCEPT !.rx[l].tamanio =
                      IF k = Octetos THEN Valor(SubSeq(r.ent[l], 1, Octetos)) ELSE BASURA]
         IN  Avanza(q, r, l, "datos") /\ Recibiendo(q, l, p)
<1> DEFINE v == IF k = Octetos THEN Valor(SubSeq(r.ent[l], 1, Octetos)) ELSE BASURA
           t == Va(Quita(r, l, k), l, "datos")
           x == [t.rx[l] EXCEPT !.tamanio = v]
           q == [t EXCEPT !.rx = [t.rx EXCEPT ![l] = x]]
<1>1. /\ p \in Paquete /\ r.ent[l] = Cuerpo(p) /\ Len(Cuerpo(p)) >= Octetos
      /\ r.rx[l].op = <<"op", p.op>>
  BY PaqueteEnBytes DEF Recibiendo
<1>2. k = Octetos /\ Octetos \in Nat
  <2>1. Octetos \in Nat \ {0}
    BY ConstantesComunicaciones
  <2>2. Llegan(r, l, Octetos) = {Octetos}
    <3>1. Len(r.ent[l]) \in Nat /\ Octetos <= Len(r.ent[l])
      BY <1>1, <2>1, RxDe
    <3> QED BY <2>1, <3>1, LlegaEntero
  <2> QED BY <2>1, <2>2
<1>3. v = Numero(Len(Campos(p.campos))) /\ v \in Dato
  <2>1. Len(Campos(p.campos)) \in Nat
    BY <1>1, PaqueteEnBytes
  <2>2. Numero(Len(Campos(p.campos))) \in Dato
    BY <2>1, EsNumero
  <2> QED BY <1>1, <1>2, <2>2, PaqueteEnBytes
<1> HIDE DEF v
<1>4. "datos" \in Etiquetas
  BY DEF Etiquetas
<1>5. Avanza(t, r, l, "datos") /\ t.rx = r.rx
  BY <1>1, <1>2, <1>4, QuitaYVa
<1>6. /\ x \in [op : Dato, tamanio : Dato, datos : Seq(Byte)]
      /\ x.tamanio = v /\ x.op = r.rx[l].op
  <2>1. t.rx[l] \in [op : Dato, tamanio : Dato, datos : Seq(Byte)] /\ t.rx[l] = r.rx[l]
    BY <1>5, RxDe
  <2> HIDE DEF t
  <2> QED BY <2>1, <1>3
<1> HIDE DEF x
<1>7. /\ Avanza(q, r, l, "datos") /\ q.rx[l] = x
      /\ q.ent[l] = SubSeq(r.ent[l], k + 1, Len(r.ent[l]))
  <2>1. k \in Nat /\ k <= Len(r.ent[l])
    BY <1>1, <1>2
  <2>2. q = Anotado(t, l, x)
    BY Zenon DEF Anotado
  <2>3. t = Va(Quita(r, l, k), l, "datos")
    OBVIOUS
  <2> HIDE DEF q, t
  <2> QED BY <1>4, <1>6, <2>1, <2>2, <2>3, AnotaAvanza
<1> HIDE DEF q, t
<1>8. q.ent[l] = Campos(p.campos)
  BY <1>1, <1>2, <1>7, PaqueteEnBytes
<1>9. Recibiendo(q, l, p)
  BY <1>1, <1>3, <1>6, <1>7, <1>8 DEF Recibiendo, Avanza
<1>10. q = [Va(Quita(r, l, k), l, "datos") EXCEPT !.rx[l].tamanio =
               IF k = Octetos THEN Valor(SubSeq(r.ent[l], 1, Octetos)) ELSE BASURA]
  BY Zenon DEF q, t, x, v
<1> QED BY <1>7, <1>9, <1>10

\* How many bytes the third recv asks for
Pedidos(r, l) ==
    LET t == r.rx[l].tamanio
    IN  IF t # BASURA /\ t[1] = "numero" THEN t[2] ELSE Len(r.ent[l])

LEMMA RecibeDatos ==
  ASSUME SinPartir, NEW r \in Registro, NEW l \in Lados, NEW p, Recibiendo(r, l, p),
         r.pc[l] = "datos",
         NEW k \in IF Pedidos(r, l) = 0 THEN {0} ELSE Llegan(r, l, Pedidos(r, l))
  PROVE  LET q == [Va(Quita(r, l, k), l, "procesa") EXCEPT !.rx[l].datos =
                      SubSeq(r.ent[l], 1, k) \o Bytes(BASURA, Pedidos(r, l) - k)]
         IN  Avanza(q, r, l, "procesa") /\ Recibiendo(q, l, p)
<1> DEFINE d == Campos(p.campos)
           n == Len(d)
           v == SubSeq(r.ent[l], 1, k) \o Bytes(BASURA, Pedidos(r, l) - k)
           t == Va(Quita(r, l, k), l, "procesa")
           x == [t.rx[l] EXCEPT !.datos = v]
           q == [t EXCEPT !.rx = [t.rx EXCEPT ![l] = x]]
<1>1. /\ p \in Paquete /\ r.ent[l] = d /\ r.rx[l].tamanio = Numero(n)
      /\ r.rx[l].op = <<"op", p.op>> /\ d \in Seq(Byte) /\ n \in Nat
  <2>1. p \in Paquete
    BY DEF Recibiendo
  <2>2. d \in Seq(Byte)
    BY <2>1, PaqueteEnBytes
  <2>3. r.ent[l] = d /\ r.rx[l].tamanio = Numero(n) /\ r.rx[l].op = <<"op", p.op>>
    BY DEF Recibiendo
  <2> HIDE DEF d
  <2> QED BY <2>1, <2>2, <2>3
<1>2. Pedidos(r, l) = n
  <2> HIDE DEF n
  <2>1. Numero(n) # BASURA /\ Numero(n)[1] = "numero" /\ Numero(n)[2] = n
    BY <1>1, EsNumero
  <2> QED BY <1>1, <2>1 DEF Pedidos
<1> HIDE DEF d
<1>3. k = n
  <2>1. CASE n = 0
    BY <1>2, <2>1
  <2>2. CASE n # 0
    <3>1. n \in Nat \ {0} /\ n <= Len(r.ent[l])
      BY <1>1, <2>2
    <3> HIDE DEF n
    <3>2. Llegan(r, l, n) = {n}
      BY <3>1, LlegaEntero
    <3> QED BY <1>2, <2>2, <3>2
  <2> QED BY <2>1, <2>2
<1>4. v = d
  <2>1. SubSeq(d, 1, n) = d
    BY <1>1
  <2>2. Bytes(BASURA, n - n) = <<>>
    BY <1>1 DEF Bytes
  <2>3. d \o <<>> = d
    BY <1>1
  <2>4. v = SubSeq(d, 1, n) \o Bytes(BASURA, n - n)
    BY <1>1, <1>2, <1>3, Zenon
  <2> QED BY <2>1, <2>2, <2>3, <2>4
<1> HIDE DEF v
<1>5. "procesa" \in Etiquetas /\ k \in Nat /\ k <= Len(r.ent[l])
  BY <1>1, <1>3 DEF Etiquetas
<1>6. Avanza(t, r, l, "procesa") /\ t.rx = r.rx
  BY <1>5, QuitaYVa
<1>7. /\ x \in [op : Dato, tamanio : Dato, datos : Seq(Byte)]
      /\ x.datos = d /\ x.op = r.rx[l].op
  <2>1. t.rx[l] \in [op : Dato, tamanio : Dato, datos : Seq(Byte)] /\ t.rx[l] = r.rx[l]
    BY <1>6, RxDe
  <2> HIDE DEF t
  <2> QED BY <2>1, <1>1, <1>4
<1> HIDE DEF x
<1>8. /\ Avanza(q, r, l, "procesa") /\ q.rx[l] = x
      /\ q.ent[l] = SubSeq(r.ent[l], k + 1, Len(r.ent[l]))
  <2>1. q = Anotado(t, l, x)
    BY Zenon DEF Anotado
  <2>2. t = Va(Quita(r, l, k), l, "procesa")
    OBVIOUS
  <2> HIDE DEF q, t
  <2> QED BY <1>5, <1>7, <2>1, <2>2, AnotaAvanza
<1> HIDE DEF q, t
<1>9. q.ent[l] = <<>>
  <2>1. SubSeq(d, n + 1, n) = <<>>
    BY <1>1
  <2> QED BY <1>1, <1>3, <1>8, <2>1
<1>10. Recibiendo(q, l, p)
  BY <1>1, <1>7, <1>8, <1>9 DEF Recibiendo, Avanza, d
<1>11. q = [Va(Quita(r, l, k), l, "procesa") EXCEPT !.rx[l].datos =
               SubSeq(r.ent[l], 1, k) \o Bytes(BASURA, Pedidos(r, l) - k)]
  BY Zenon DEF q, t, x, v
<1> QED BY <1>8, <1>10, <1>11

-----------------------------------------------------------------------------
(* The phases: reading a packet.                                           *)

\* What the side l is reading
Que(c, r, l) == IF l = "srv" THEN Guion[c][r.pedidas] ELSE Last(r.resultados)

EnCurso(c, r, l) ==
    \/ l = "srv" /\ Pidiendo(c, r)
    \/ l = "cli" /\ Respondiendo(c, r)

LEMMA FinDe ==
  ASSUME NEW r \in Registro, r.cerro = {l \in Lados : r.pc[l] = "fin"}, NEW l \in Lados
  PROVE  l \in r.cerro <=> r.pc[l] = "fin"
OBVIOUS

\* A side that reads is in a packet, or there is nothing to read.
LEMMA QueRecibe ==
  ASSUME NEW c, NEW r \in Registro, Fase(c, r), NEW l \in Lados, r.pc[l] \in Recepcion
  PROVE  \/ EnCurso(c, r, l)
         \/ r.pc[l] = "op" /\ r.ent[l] = <<>> /\ Otro(l) \notin r.cerro
<1>1. r.cerro = {m \in Lados : r.pc[m] = "fin"}
  BY DEF Fase
<1>2. Otro(l) \notin r.cerro <=> r.pc[Otro(l)] # "fin"
  BY <1>1, LadosDos
<1>3. CASE l = "cli"
  <2>1. Otro(l) = "srv"
    BY <1>3 DEF Otro
  <2>2. r.pc.cli \in Recepcion
    BY <1>3
  <2>3. CASE Saludandose(c, r)
    BY <1>2, <1>3, <2>1, <2>2, <2>3 DEF Saludandose, Recepcion
  <2>4. CASE Pidiendo(c, r)
    BY <1>2, <1>3, <2>1, <2>2, <2>4 DEF Pidiendo, Recepcion
  <2>5. CASE Delegando(c, r)
    BY <1>2, <1>3, <2>1, <2>2, <2>5 DEF Delegando, Callada
  <2>6. CASE Respondiendo(c, r)
    BY <1>3, <2>6 DEF EnCurso
  <2>7. ~PorAbrir(r) /\ ~Libre(c, r) /\ ~Terminada(c, r)
    BY <2>2 DEF PorAbrir, Libre, Terminada, Recepcion
  <2> QED BY <2>3, <2>4, <2>5, <2>6, <2>7 DEF Fase
<1>4. CASE l = "srv"
  <2>1. Otro(l) = "cli"
    BY <1>4 DEF Otro
  <2>2. r.pc.srv \in Recepcion
    BY <1>4
  <2>3. CASE Libre(c, r)
    BY <1>2, <1>4, <2>1, <2>2, <2>3 DEF Libre, Callada
  <2>4. CASE Pidiendo(c, r)
    <3>1. EnCurso(c, r, l)
      BY <1>4, <2>4, Zenon DEF EnCurso
    <3> QED BY <3>1
  <2>5. CASE Respondiendo(c, r)
    BY <1>2, <1>4, <2>1, <2>2, <2>5 DEF Respondiendo, Recepcion
  <2>6. ~PorAbrir(r) /\ ~Saludandose(c, r) /\ ~Delegando(c, r) /\ ~Terminada(c, r)
    BY <2>2 DEF PorAbrir, Saludandose, Delegando, Terminada, Recepcion
  <2> QED BY <2>3, <2>4, <2>5, <2>6 DEF Fase
<1> QED BY <1>3, <1>4 DEF Lados

LEMMA FaseRecibe ==
  ASSUME NEW c, NEW r \in Registro, Fase(c, r), NEW l \in Lados, r.pc[l] \in Recepcion,
         EnCurso(c, r, l), NEW e \in Recepcion, NEW q, Avanza(q, r, l, e),
         Recibiendo(q, l, Que(c, r, l))
  PROVE  Fase(c, q)
<1>1. /\ q \in Registro /\ q.cerro = r.cerro /\ q.pc[l] = e
      /\ q.pc[Otro(l)] = r.pc[Otro(l)] /\ q.ent[Otro(l)] = r.ent[Otro(l)]
      /\ q.pedidas = r.pedidas /\ q.resultados = r.resultados /\ q.respuestas = r.respuestas
  BY DEF Avanza, MismaCuenta
<1>2. e # "fin" /\ r.pc[l] # "fin"
  BY DEF Recepcion
<1>3. q.cerro = {m \in Lados : q.pc[m] = "fin"}
  <2>1. \A m \in Lados : m = l \/ m = Otro(l)
    BY DEF Lados, Otro
  <2>2. \A m \in Lados : q.pc[m] = "fin" <=> r.pc[m] = "fin"
    BY <1>1, <1>2, <2>1
  <2>3. r.cerro = {m \in Lados : r.pc[m] = "fin"}
    BY DEF Fase
  <2> QED BY <1>1, <2>2, <2>3
<1>4. c \in DeDump => \A i \in DOMAIN q.resultados : q.resultados[i].campos = <<>>
  BY <1>1 DEF Fase
<1>5. CASE l = "srv"
  <2>1. Pidiendo(c, r) /\ Otro(l) = "cli"
    BY <1>5 DEF EnCurso, Otro
  <2>2. Recibiendo(q, "srv", Guion[c][q.pedidas])
    BY <1>1, <1>5 DEF Que
  <2>3. Pidiendo(c, q)
    BY <1>1, <1>5, <2>1, <2>2 DEF Pidiendo
  <2> QED BY <1>3, <1>4, <2>3 DEF Fase
<1>6. CASE l = "cli"
  <2>1. Respondiendo(c, r) /\ Otro(l) = "srv"
    BY <1>6 DEF EnCurso, Otro
  <2>2. Recibiendo(q, "cli", Last(q.resultados))
    BY <1>1, <1>6 DEF Que
  <2>3. Respondiendo(c, q)
    BY <1>1, <1>6, <2>1, <2>2 DEF Respondiendo
  <2> QED BY <1>3, <1>4, <2>3 DEF Fase
<1> QED BY <1>5, <1>6 DEF Lados

LEMMA RecibiendoQue ==
  ASSUME NEW c, NEW r, NEW l, EnCurso(c, r, l)
  PROVE  Recibiendo(r, l, Que(c, r, l))
BY DEF EnCurso, Pidiendo, Respondiendo, Que

\* What a reading step gives
Leido(c, q, r, l) ==
    \E e \in Recepcion : Avanza(q, r, l, e) /\ Fase(c, q) /\ EnCurso(c, r, l)

LEMMA PasoRecibirOp ==
  ASSUME SinPartir, NEW c, con[c] \in Registro, Fase(c, con[c]), NEW l \in Lados, RecibirOp(c, l)
  PROVE  /\ \E q : con' = [con EXCEPT ![c] = q] /\ Leido(c, q, con[c], l)
         /\ UNCHANGED <<acepta, guardado, fallo>>
<1> DEFINE r == con[c]
           q(k, op) == [Va(Quita(r, l, k), l, "tamanio") EXCEPT !.rx[l].op = op]
<1>1. r.pc[l] = "op" /\ UNCHANGED <<acepta, guardado, fallo>>
  BY DEF RecibirOp, En
<1>2. PICK k \in Llegan(r, l, 1) :
      \E op \in IF k = 1 /\ r.ent[l][1].v \in Ops THEN {r.ent[l][1].v} ELSE Ops :
         con' = [con EXCEPT ![c] = q(k, op)]
  BY Zenon DEF RecibirOp
<1>3. PICK op \in IF k = 1 /\ r.ent[l][1].v \in Ops THEN {r.ent[l][1].v} ELSE Ops :
         con' = [con EXCEPT ![c] = q(k, op)]
  BY <1>2, Zenon
<1> HIDE DEF q
<1>4. EnCurso(c, r, l)
  <2>1. r.pc[l] \in Recepcion
    BY <1>1 DEF Recepcion
  <2>2. ~(r.ent[l] = <<>> /\ Otro(l) \notin r.cerro)
    BY NadaLlega
  <2> HIDE DEF r
  <2> QED BY <2>1, <2>2, QueRecibe DEF r
<1>5. Avanza(q(k, op), r, l, "tamanio") /\ Recibiendo(q(k, op), l, Que(c, r, l))
  <2>1. Recibiendo(r, l, Que(c, r, l))
    BY <1>4, RecibiendoQue
  <2> QED BY <1>1, <1>3, <2>1, RecibeOp DEF q
<1>6. Fase(c, q(k, op)) /\ "tamanio" \in Recepcion
  <2>1. "tamanio" \in Recepcion /\ r.pc[l] \in Recepcion
    BY <1>1 DEF Recepcion
  <2> QED BY <1>4, <1>5, <2>1, FaseRecibe
<1>7. Leido(c, q(k, op), r, l)
  BY <1>4, <1>5, <1>6 DEF Leido
<1> QED BY <1>1, <1>3, <1>7

LEMMA PasoRecibirTamanio ==
  ASSUME SinPartir, NEW c, con[c] \in Registro, Fase(c, con[c]), NEW l \in Lados, RecibirTamanio(c, l)
  PROVE  /\ \E q : con' = [con EXCEPT ![c] = q] /\ Leido(c, q, con[c], l)
         /\ UNCHANGED <<acepta, guardado, fallo>>
<1> DEFINE r == con[c]
           q(k) == [Va(Quita(r, l, k), l, "datos") EXCEPT !.rx[l].tamanio =
                       IF k = Octetos THEN Valor(SubSeq(r.ent[l], 1, Octetos)) ELSE BASURA]
<1>1. r.pc[l] = "tamanio" /\ UNCHANGED <<acepta, guardado, fallo>>
  BY DEF RecibirTamanio, En
<1>2. PICK k \in Llegan(r, l, Octetos) : con' = [con EXCEPT ![c] = q(k)]
  BY Zenon DEF RecibirTamanio
<1> HIDE DEF q
<1>3. r.pc[l] \in Recepcion /\ "datos" \in Recepcion
  BY <1>1 DEF Recepcion
<1>4. EnCurso(c, r, l)
  <2> HIDE DEF r
  <2> QED BY <1>1, <1>3, QueRecibe DEF r
<1>5. Avanza(q(k), r, l, "datos") /\ Recibiendo(q(k), l, Que(c, r, l))
  <2>1. Recibiendo(r, l, Que(c, r, l))
    BY <1>4, RecibiendoQue
  <2> QED BY <1>1, <1>2, <2>1, RecibeTamanio DEF q
<1>6. Fase(c, q(k))
  BY <1>3, <1>4, <1>5, FaseRecibe
<1>7. Leido(c, q(k), r, l)
  BY <1>3, <1>4, <1>5, <1>6 DEF Leido
<1> QED BY <1>1, <1>2, <1>7

LEMMA PasoRecibirDatos ==
  ASSUME SinPartir, NEW c, con[c] \in Registro, Fase(c, con[c]), NEW l \in Lados, RecibirDatos(c, l)
  PROVE  /\ \E q : con' = [con EXCEPT ![c] = q] /\ Leido(c, q, con[c], l)
         /\ UNCHANGED <<acepta, guardado, fallo>>
<1> DEFINE r == con[c]
           n == Pedidos(r, l)
           q(k) == [Va(Quita(r, l, k), l, "procesa") EXCEPT !.rx[l].datos =
                       SubSeq(r.ent[l], 1, k) \o Bytes(BASURA, n - k)]
<1>1. r.pc[l] = "datos" /\ UNCHANGED <<acepta, guardado, fallo>>
  BY DEF RecibirDatos, En
<1>2. PICK k \in IF n = 0 THEN {0} ELSE Llegan(r, l, n) : con' = [con EXCEPT ![c] = q(k)]
  BY Zenon DEF RecibirDatos, Pedidos
<1> HIDE DEF q
<1>3. r.pc[l] \in Recepcion /\ "procesa" \in Recepcion
  BY <1>1 DEF Recepcion
<1>4. EnCurso(c, r, l)
  <2> HIDE DEF r
  <2> QED BY <1>1, <1>3, QueRecibe DEF r
<1>5. Avanza(q(k), r, l, "procesa") /\ Recibiendo(q(k), l, Que(c, r, l))
  <2>1. Recibiendo(r, l, Que(c, r, l))
    BY <1>4, RecibiendoQue
  <2> QED BY <1>1, <1>2, <2>1, RecibeDatos DEF q
<1>6. Fase(c, q(k))
  BY <1>3, <1>4, <1>5, FaseRecibe
<1>7. Leido(c, q(k), r, l)
  BY <1>3, <1>4, <1>5, <1>6 DEF Leido
<1> QED BY <1>1, <1>2, <1>7

-----------------------------------------------------------------------------
(* The phases: the handshake and the request.                              *)

LEMMA GuionDe ==
  ASSUME SinPartir, NEW c \in Conexiones, NEW i \in 1..Len(Guion[c])
  PROVE  /\ Guion[c][i] \in Paquete /\ Len(Guion[c]) \in Nat
         /\ c \notin DeCpu => i = 1
<1>1. Guion[c] \in Seq(Paquete)
  BY DEF SinPartir
<1>2. Guion[c][i] \in Paquete /\ Len(Guion[c]) \in Nat
  <2> HIDE DEF Paquete
  <2> QED BY <1>1
<1>3. c \notin DeCpu => Len(Guion[c]) = 1
  BY GuionesComunicaciones DEF Conexiones
<1> QED BY <1>2, <1>3

LEMMA HsEnBytes ==
  ASSUME SinPartir, NEW x \in HsCodigos
  PROVE  /\ Hs(x) \in Seq(Byte) /\ Len(Hs(x)) = Octetos /\ Valor(Hs(x)) = <<"hs", x>>
         /\ <<"hs", x>> \in Dato
<1> DEFINE v == <<"hs", x>>
<1>1. v \in Dato
  BY DEF Dato
<1>2. Octetos \in Nat /\ Octetos > 0
  BY ConstantesComunicaciones
<1> HIDE DEF v
<1>3. /\ Bytes(v, Octetos) \in Seq(Byte) /\ Len(Bytes(v, Octetos)) = Octetos
      /\ Valor(Bytes(v, Octetos)) = v
  BY <1>1, <1>2, BytesDeValor
<1> QED BY <1>1, <1>3 DEF Hs, v

LEMMA SaludoEnBytes ==
  ASSUME SinPartir, NEW r \in Registro, NEW l \in Lados, NEW x \in HsCodigos, NEW b \in Seq(Byte),
         r.ent[l] = Hs(x) \o b
  PROVE  /\ Saludo(r, l) = <<"hs", x>> /\ Octetos \in Nat /\ Octetos <= Len(r.ent[l])
         /\ SubSeq(r.ent[l], Octetos + 1, Len(r.ent[l])) = b
<1>1. /\ Hs(x) \in Seq(Byte) /\ Len(Hs(x)) = Octetos /\ Valor(Hs(x)) = <<"hs", x>>
      /\ Octetos \in Nat
  BY HsEnBytes, ConstantesComunicaciones
<1> DEFINE h == Hs(x)
<1>2. h \o b \in Seq(Byte) /\ Len(h \o b) = Len(h) + Len(b) /\ Len(b) \in Nat
  BY <1>1, Pegar
<1>3. SubSeq(h \o b, 1, Len(h)) = h /\ SubSeq(h \o b, Len(h) + 1, Len(h \o b)) = b
  BY <1>1, QuitarDelante
<1>4. Len(r.ent[l]) >= Octetos
  BY <1>1, <1>2
<1>5. Saludo(r, l) = Valor(SubSeq(r.ent[l], 1, Octetos))
  BY <1>1, <1>4 DEF Saludo
<1> QED BY <1>1, <1>3, <1>4, <1>5

LEMMA SaludoSolo ==
  ASSUME SinPartir, NEW r \in Registro, NEW l \in Lados, NEW x \in HsCodigos, r.ent[l] = Hs(x)
  PROVE  /\ Saludo(r, l) = <<"hs", x>> /\ Octetos \in Nat /\ Octetos <= Len(r.ent[l])
         /\ SubSeq(r.ent[l], Octetos + 1, Len(r.ent[l])) = <<>>
<1>1. Hs(x) \in Seq(Byte)
  BY HsEnBytes
<1>2. Hs(x) \o <<>> = Hs(x) /\ <<>> \in Seq(Byte)
  BY <1>1
<1> QED BY <1>1, <1>2, SaludoEnBytes

LEMMA Nombres ==
  ASSUME NEW c
  PROVE  /\ Origen(c) \in HsCodigos /\ Servidor(c) \in HsCodigos /\ "HSOK" \in HsCodigos
         /\ Servidor(c) \in Servidores
BY DEF Origen, Servidor, Servidores, HsCodigos

\* The connection is still open for both.
LEMMA FinNinguno ==
  ASSUME NEW q \in Registro, q.pc["cli"] # "fin", q.pc["srv"] # "fin"
  PROVE  {l \in Lados : q.pc[l] = "fin"} = {}
BY DEF Lados

LEMMA PasoAbrir ==
  ASSUME SinPartir, NEW c \in Conexiones, NEW r \in Registro, Fase(c, r), PorAbrir(r)
  PROVE  /\ Abierta(r, c) \in Registro /\ Fase(c, Abierta(r, c))
         /\ Abierta(r, c).pc.srv = "cola" /\ Abierta(r, c).resultados = r.resultados
         /\ Abierta(r, c).pedidas = r.pedidas /\ Abierta(r, c).respuestas = r.respuestas
<1> DEFINE b == Hs(Origen(c))
           t == Envia(r, "cli", b)
           p == [cli |-> "valida", srv |-> "cola"]
           q == [t EXCEPT !.pc = p]
<1>1. q = Abierta(r, c)
  BY Zenon DEF Abierta, Hs
<1>2. b \in Seq(Byte)
  BY Nombres, HsEnBytes
<1>3. r.cerro = {} /\ "cli" \in Lados /\ Otro("cli") = "srv"
  <2>1. r.pc["cli"] # "fin" /\ r.pc["srv"] # "fin"
    BY DEF PorAbrir
  <2>2. r.cerro = {}
    BY <2>1, FinNinguno DEF Fase
  <2> QED BY <2>2 DEF Lados, Otro
<1> HIDE DEF b
<1>4. /\ t \in Registro /\ MismaCuenta(t, r) /\ t.ent["srv"] = r.ent["srv"] \o b
      /\ t.ent["cli"] = r.ent["cli"] /\ t.cerro = r.cerro
  <2>1. /\ t \in Registro /\ MismaCuenta(t, r) /\ t.ent[Otro("cli")] = r.ent[Otro("cli")] \o b
        /\ t.ent["cli"] = r.ent["cli"] /\ t.cerro = r.cerro
    <3>1. Otro("cli") \notin r.cerro
      BY <1>3
    <3> QED BY <1>2, <1>3, <3>1, EnviaBien
  <2> HIDE DEF t
  <2> QED BY <1>3, <2>1
<1> HIDE DEF t
<1>5. /\ p \in [Lados -> Etiquetas] /\ p["cli"] = "valida" /\ p["srv"] = "cola"
  BY DEF Lados, Etiquetas
<1> HIDE DEF p
<1>6. /\ q \in Registro /\ q.pc = p /\ q.ent = t.ent /\ q.cerro = t.cerro
      /\ q.resultados = t.resultados /\ q.pedidas = t.pedidas /\ q.respuestas = t.respuestas
  BY <1>4, <1>5 DEF Registro
<1> HIDE DEF q
<1>7. q.ent.srv = Hs(Origen(c)) /\ q.ent.cli = <<>>
  <2>1. <<>> \o b = b
    BY <1>2
  <2> QED BY <1>4, <1>6, <2>1 DEF PorAbrir, Callada, b
<1>8. Saludandose(c, q)
  BY <1>4, <1>5, <1>6, <1>7 DEF Saludandose, PorAbrir, MismaCuenta
<1>9. q.cerro = {l \in Lados : q.pc[l] = "fin"}
  <2>1. q.pc["cli"] # "fin" /\ q.pc["srv"] # "fin"
    BY <1>5, <1>6
  <2> QED BY <1>3, <1>4, <1>6, <2>1, FinNinguno
<1>10. q.resultados = <<>>
  BY <1>4, <1>6 DEF PorAbrir, MismaCuenta
<1>11. Fase(c, q)
  BY <1>8, <1>9, <1>10 DEF Fase
<1> QED BY <1>1, <1>4, <1>5, <1>6, <1>11 DEF MismaCuenta

LEMMA PasoValidar ==
  ASSUME SinPartir, NEW c \in Conexiones, con[c] \in Registro, Fase(c, con[c]), Validar(c)
  PROVE  \E q : /\ con' = [con EXCEPT ![c] = q] /\ q \in Registro /\ Fase(c, q)
                /\ MismaCuenta(q, con[c]) /\ q.pc.srv = con[c].pc.srv /\ ~PorAbrir(con[c])
<1> DEFINE r == con[c]
           s == IF Saludo(r, "cli") = <<"hs", Servidor(c)>> THEN "HSOK" ELSE "HSFAIL"
           t == Quita(r, "cli", Octetos)
           e == Envia(t, "cli", Bytes(<<"hs", s>>, Octetos))
           q == Va(e, "cli", "pide")
<1>1. /\ r.pc.cli = "valida" /\ Completo(r, "cli", Octetos) /\ con' = [con EXCEPT ![c] = q]
  BY Zenon DEF Validar, En
<1>2. r \in Registro /\ Fase(c, r) /\ "cli" \in Lados /\ Otro("cli") = "srv"
  BY DEF Lados, Otro
<1> HIDE DEF r, q
<1>3. r.cerro = {l \in Lados : r.pc[l] = "fin"} /\ Saludandose(c, r)
  BY <1>1, <1>2 DEF Fase, PorAbrir, Libre, Pidiendo, Delegando, Respondiendo, Terminada, Recepcion
<1>4. r.cerro = {} /\ ~PorAbrir(r)
  <2>1. r.pc["cli"] # "fin" /\ r.pc["srv"] # "fin"
    BY <1>1, <1>3 DEF Saludandose
  <2> QED BY <1>1, <1>2, <1>3, <2>1, FinNinguno DEF PorAbrir
<1>5. r.ent["cli"] # <<>>
  <2>1. Octetos \in Nat \ {0} /\ Len(r.ent["cli"]) >= Octetos
    BY <1>1, <1>2, <1>4, ConstantesComunicaciones DEF Completo
  <2>2. Len(<<>>) = 0
    OBVIOUS
  <2> QED BY <2>1, <2>2
<1>6. /\ r.pc.srv = "confirma" /\ r.quien = <<"hs", Origen(c)>> /\ r.pedidas = 0
      /\ r.ent["srv"] = <<>> /\ r.ent["cli"] = Hs(Servidor(c))
      /\ r.resultados = <<>> /\ r.respuestas = <<>>
  BY <1>1, <1>3, <1>5 DEF Saludandose
<1>7. /\ s = "HSOK" /\ Octetos \in Nat /\ Octetos <= Len(r.ent["cli"])
      /\ SubSeq(r.ent["cli"], Octetos + 1, Len(r.ent["cli"])) = <<>>
  BY <1>2, <1>6, Nombres, SaludoSolo
<1> HIDE DEF s
<1>8. /\ t \in Registro /\ MismaCuenta(t, r) /\ t.ent["cli"] = <<>> /\ t.ent["srv"] = <<>>
      /\ t.pc = r.pc /\ t.cerro = {}
  <2>1. /\ t \in Registro /\ MismaCuenta(t, r)
        /\ t.ent["cli"] = SubSeq(r.ent["cli"], Octetos + 1, Len(r.ent["cli"]))
        /\ t.ent[Otro("cli")] = r.ent[Otro("cli")] /\ t.pc = r.pc /\ t.cerro = r.cerro
    BY <1>2, <1>7, QuitaBien
  <2> HIDE DEF t
  <2> QED BY <1>2, <1>4, <1>6, <1>7, <2>1
<1> HIDE DEF t
<1>9. /\ e \in Registro /\ MismaCuenta(e, t) /\ e.ent["srv"] = Hs("HSOK") /\ e.ent["cli"] = <<>>
      /\ e.pc = t.pc /\ e.cerro = {}
  <2> DEFINE b == Bytes(<<"hs", s>>, Octetos)
  <2>0. b = Hs("HSOK")
    BY <1>7 DEF Hs
  <2> HIDE DEF b
  <2>1. b \in Seq(Byte) /\ <<>> \o b = b /\ Otro("cli") \notin t.cerro
    <3>1. b \in Seq(Byte)
      BY <2>0, Nombres, HsEnBytes
    <3> QED BY <3>1, <1>8
  <2>2. /\ e \in Registro /\ MismaCuenta(e, t) /\ e.ent[Otro("cli")] = t.ent[Otro("cli")] \o b
        /\ e.ent["cli"] = t.ent["cli"] /\ e.pc = t.pc /\ e.cerro = t.cerro
    <3>1. e = Envia(t, "cli", b)
      BY DEF b
    <3> HIDE DEF e
    <3> QED BY <1>2, <1>8, <2>1, <3>1, EnviaBien
  <2> HIDE DEF e
  <2> QED BY <1>2, <1>8, <2>0, <2>1, <2>2
<1> HIDE DEF e
<1>10. /\ q \in Registro /\ MismaCuenta(q, e) /\ q.pc["cli"] = "pide" /\ q.pc["srv"] = e.pc["srv"]
       /\ q.ent = e.ent /\ q.cerro = e.cerro
  <2>1. "pide" \in Etiquetas
    BY DEF Etiquetas
  <2> QED BY <1>2, <1>9, <2>1, VaBien DEF q
<1>11. MismaCuenta(q, r)
  BY <1>8, <1>9, <1>10 DEF MismaCuenta
<1>12. Saludandose(c, q)
  BY <1>6, <1>8, <1>9, <1>10, <1>11 DEF Saludandose, MismaCuenta
<1>13. q.cerro = {l \in Lados : q.pc[l] = "fin"}
  BY <1>6, <1>8, <1>9, <1>10, FinNinguno
<1>14. Fase(c, q)
  BY <1>6, <1>11, <1>12, <1>13 DEF Fase, MismaCuenta
<1> QED BY <1>1, <1>4, <1>6, <1>8, <1>9, <1>10, <1>11, <1>14 DEF r

LEMMA PasoPedir ==
  ASSUME SinPartir, NEW c \in Conexiones, con[c] \in Registro, Fase(c, con[c]), Pedir(c)
  PROVE  \E q : /\ con' = [con EXCEPT ![c] = q] /\ q \in Registro /\ Fase(c, q)
                /\ q.pedidas = con[c].pedidas + 1 /\ q.resultados = con[c].resultados
                /\ q.respuestas = con[c].respuestas /\ q.pc.srv = con[c].pc.srv
                /\ ~PorAbrir(con[c]) /\ con[c].pedidas = Len(con[c].respuestas)
<1> DEFINE r == con[c]
           p == Guion[c][r.pedidas + 1]
           e == EnviaPaquete(r, "cli", p)
           t == Va(e, "cli", "op")
           q == [t EXCEPT !.pedidas = @ + 1]
<1>1. /\ r.pc.cli = "pide" /\ r.pedidas < Len(Guion[c]) /\ con' = [con EXCEPT ![c] = q]
  BY Zenon DEF Pedir, En
<1>2. r \in Registro /\ Fase(c, r) /\ "cli" \in Lados /\ Otro("cli") = "srv"
  BY DEF Lados, Otro
<1> HIDE DEF r, q
<1>3. r.cerro = {l \in Lados : r.pc[l] = "fin"} /\ (Saludandose(c, r) \/ Libre(c, r))
  BY <1>1, <1>2 DEF Fase, PorAbrir, Pidiendo, Delegando, Respondiendo, Terminada, Recepcion
<1>4. r.cerro = {} /\ ~PorAbrir(r) /\ r.pc["srv"] \in {"confirma", "op"}
  <2>1. r.pc["cli"] # "fin" /\ r.pc["srv"] \in {"confirma", "op"}
    BY <1>1, <1>3 DEF Saludandose, Libre
  <2> QED BY <1>1, <1>2, <1>3, <2>1, FinNinguno DEF PorAbrir
<1>5. /\ p \in Paquete /\ r.pedidas \in Nat /\ Serializado(p) \in Seq(Byte)
      /\ r.pedidas + 1 \in 1..Len(Guion[c]) /\ Len(Guion[c]) \in Nat
  <2>1. r.pedidas \in Nat
    BY <1>2 DEF Registro
  <2>2. Len(Guion[c]) \in Nat
    BY DEF SinPartir
  <2>3. r.pedidas + 1 \in 1..Len(Guion[c])
    BY <1>1, <2>1, <2>2
  <2>4. p \in Paquete
    BY <2>3, GuionDe
  <2>5. Serializado(p) \in Seq(Byte)
    BY <2>4, PaqueteEnBytes
  <2> QED BY <2>1, <2>2, <2>3, <2>4, <2>5
<1> DEFINE b == Serializado(p)
<1>6. /\ e \in Registro /\ MismaCuenta(e, r) /\ e.ent["srv"] = r.ent["srv"] \o b
      /\ e.ent["cli"] = r.ent["cli"] /\ e.pc = r.pc /\ e.cerro = {}
  <2>1. e = Envia(r, "cli", b) /\ b \in Seq(Byte) /\ Otro("cli") \notin r.cerro
    BY <1>4, <1>5 DEF EnviaPaquete
  <2> HIDE DEF e, b
  <2>2. /\ e \in Registro /\ MismaCuenta(e, r) /\ e.ent[Otro("cli")] = r.ent[Otro("cli")] \o b
        /\ e.ent["cli"] = r.ent["cli"] /\ e.pc = r.pc /\ e.cerro = r.cerro
    BY <1>2, <2>1, EnviaBien
  <2> QED BY <1>2, <1>4, <2>2
<1> HIDE DEF e, b
<1>7. /\ t \in Registro /\ MismaCuenta(t, e) /\ t.pc["cli"] = "op" /\ t.pc["srv"] = e.pc["srv"]
      /\ t.ent = e.ent /\ t.cerro = e.cerro
  <2>1. "op" \in Etiquetas
    BY DEF Etiquetas
  <2> QED BY <1>2, <1>6, <2>1, VaBien
<1> HIDE DEF t
<1>8. /\ q \in Registro /\ q.pedidas = t.pedidas + 1 /\ q.pc = t.pc /\ q.ent = t.ent
      /\ q.cerro = t.cerro /\ q.quien = t.quien
      /\ q.resultados = t.resultados /\ q.respuestas = t.respuestas
  <2> DEFINE n == t.pedidas + 1
  <2>1. n \in Nat
    BY <1>7 DEF Registro
  <2>2. q = [t EXCEPT !.pedidas = n]
    BY DEF q
  <2> HIDE DEF n
  <2>3. q \in Registro
    BY <1>7, <2>1, <2>2 DEF Registro
  <2>4. q.pedidas = n /\ q.pc = t.pc /\ q.ent = t.ent /\ q.cerro = t.cerro
    BY <1>7, <2>2 DEF Registro
  <2>5. q.quien = t.quien /\ q.resultados = t.resultados /\ q.respuestas = t.respuestas
    BY <1>7, <2>2 DEF Registro
  <2> QED BY <2>3, <2>4, <2>5 DEF n
<1>9. /\ q.pedidas = r.pedidas + 1 /\ q.quien = r.quien /\ q.resultados = r.resultados
      /\ q.respuestas = r.respuestas /\ q.pc["cli"] = "op" /\ q.pc["srv"] = r.pc["srv"]
      /\ q.ent["srv"] = r.ent["srv"] \o b /\ q.ent["cli"] = r.ent["cli"] /\ q.cerro = {}
  BY <1>6, <1>7, <1>8 DEF MismaCuenta
<1>10. q.cerro = {l \in Lados : q.pc[l] = "fin"}
  BY <1>4, <1>8, <1>9, FinNinguno
<1>11. c \in DeDump => \A i \in DOMAIN q.resultados : q.resultados[i].campos = <<>>
  BY <1>2, <1>9 DEF Fase
<1>12. CASE Saludandose(c, r)
  <2>1. /\ r.pedidas = 0 /\ r.pc.srv = "confirma" /\ r.quien = <<"hs", Origen(c)>>
        /\ r.ent.srv = Hs("HSOK") /\ r.ent.cli = <<>>
        /\ r.resultados = <<>> /\ r.respuestas = <<>>
    BY <1>1, <1>12 DEF Saludandose
  <2>2. q.pedidas = 1 /\ 1 \in DOMAIN Guion[c] /\ b = Serializado(Guion[c][1])
    <3>1. 0 + 1 = 1
      OBVIOUS
    <3>2. DOMAIN Guion[c] = 1..Len(Guion[c])
      BY DEF SinPartir
    <3> QED BY <1>5, <1>9, <2>1, <3>1, <3>2 DEF b
  <2>3. Saludandose(c, q)
    BY <1>9, <2>1, <2>2 DEF Saludandose
  <2>4. Len(r.respuestas) = r.pedidas
    BY <2>1
  <2> QED BY <1>1, <1>4, <1>8, <1>9, <1>10, <1>11, <2>3, <2>4 DEF Fase, r
<1>13. CASE Libre(c, r)
  <2>1. /\ r.pc.srv = "op" /\ r.ent.srv = <<>> /\ r.ent.cli = <<>>
        /\ Len(r.resultados) = r.pedidas /\ Len(r.respuestas) = r.pedidas
    BY <1>13 DEF Libre, Callada
  <2>2. q.ent.srv = Serializado(p)
    <3>1. <<>> \o b = b
      BY <1>5 DEF b
    <3> QED BY <1>9, <2>1, <3>1 DEF b
  <2>3. Recibiendo(q, "srv", Guion[c][q.pedidas])
    <3>1. p = Guion[c][q.pedidas] /\ q.pc["srv"] = "op"
      BY <1>9, <2>1
    <3> HIDE DEF p
    <3> QED BY <1>5, <2>2, <3>1 DEF Recibiendo
  <2>4. Pidiendo(c, q)
    <3>1. /\ q.pedidas \in 1..Len(Guion[c])
          /\ Len(q.resultados) = q.pedidas - 1 /\ Len(q.respuestas) = q.pedidas - 1
      BY <1>5, <1>9, <2>1
    <3> QED BY <1>9, <2>1, <2>3, <3>1 DEF Pidiendo, Recepcion
  <2> QED BY <1>1, <1>4, <1>8, <1>9, <1>10, <1>11, <2>1, <2>4 DEF Fase, r
<1> QED BY <1>3, <1>12, <1>13

LEMMA PasoAceptar ==
  ASSUME SinPartir, NEW c \in Conexiones, con[c] \in Registro, Fase(c, con[c]), Aceptar(c)
  PROVE  \E q : /\ con' = [con EXCEPT ![c] = q] /\ q \in Registro /\ Fase(c, q)
                /\ MismaCuenta(q, con[c]) /\ q.pc.srv = "saluda" /\ con[c].pc.srv = "cola"
                /\ ~PorAbrir(con[c])
<1> DEFINE r == con[c]
           q == Va(r, "srv", "saluda")
<1>1. r.pc.srv = "cola" /\ con' = [con EXCEPT ![c] = q]
  BY Zenon DEF Aceptar, En
<1>2. r \in Registro /\ Fase(c, r) /\ "srv" \in Lados /\ Otro("srv") = "cli"
  BY DEF Lados, Otro
<1> HIDE DEF r, q
<1>3. r.cerro = {l \in Lados : r.pc[l] = "fin"} /\ Saludandose(c, r) /\ ~PorAbrir(r)
  BY <1>1, <1>2
     DEF Fase, PorAbrir, Libre, Pidiendo, Delegando, Respondiendo, Terminada, Recepcion
<1>4. /\ q \in Registro /\ MismaCuenta(q, r) /\ q.pc["srv"] = "saluda"
      /\ q.pc["cli"] = r.pc["cli"] /\ q.ent = r.ent /\ q.cerro = r.cerro
  <2>1. "saluda" \in Etiquetas
    BY DEF Etiquetas
  <2> QED BY <1>2, <2>1, VaBien DEF q
<1>5. Saludandose(c, q)
  BY <1>1, <1>3, <1>4 DEF Saludandose, MismaCuenta
<1>6. q.cerro = {l \in Lados : q.pc[l] = "fin"}
  <2>1. r.pc["cli"] # "fin" /\ r.pc["srv"] # "fin"
    BY <1>1, <1>3 DEF Saludandose
  <2>2. r.cerro = {}
    BY <1>2, <1>3, <2>1, FinNinguno
  <2> QED BY <1>4, <2>1, <2>2, FinNinguno
<1>7. Fase(c, q)
  BY <1>2, <1>4, <1>5, <1>6 DEF Fase, MismaCuenta
<1> QED BY <1>1, <1>3, <1>4, <1>7 DEF r

LEMMA PasoSaludar ==
  ASSUME SinPartir, NEW c \in Conexiones, con[c] \in Registro, Fase(c, con[c]), Saludar(c)
  PROVE  \E q : /\ con' = [con EXCEPT ![c] = q] /\ q \in Registro /\ Fase(c, q)
                /\ q.pedidas = con[c].pedidas /\ q.resultados = con[c].resultados
                /\ q.respuestas = con[c].respuestas
                /\ q.pc.srv = "confirma" /\ con[c].pc.srv = "saluda" /\ ~PorAbrir(con[c])
<1> DEFINE r == con[c]
           t == Quita(r, "srv", Octetos)
           b == Bytes(<<"hs", Servidor(c)>>, Octetos)
           e == Envia(t, "srv", b)
           v == Va(e, "srv", "confirma")
           h == Saludo(r, "srv")
           q == [v EXCEPT !.quien = h]
<1>1. r.pc.srv = "saluda" /\ con' = [con EXCEPT ![c] = q]
  BY Zenon DEF Saludar, En
<1>2. r \in Registro /\ Fase(c, r) /\ "srv" \in Lados /\ Otro("srv") = "cli"
  BY DEF Lados, Otro
<1> HIDE DEF r, q, h
<1>3. r.cerro = {l \in Lados : r.pc[l] = "fin"} /\ Saludandose(c, r) /\ ~PorAbrir(r)
  BY <1>1, <1>2
     DEF Fase, PorAbrir, Libre, Pidiendo, Delegando, Respondiendo, Terminada, Recepcion
<1>4. /\ r.pc["cli"] = "valida" /\ r.pedidas = 0 /\ r.resultados = <<>> /\ r.respuestas = <<>>
      /\ r.ent["srv"] = Hs(Origen(c)) /\ r.ent["cli"] = <<>>
  BY <1>1, <1>3 DEF Saludandose
<1>5. r.cerro = {}
  BY <1>1, <1>2, <1>3, <1>4, FinNinguno
<1>6. /\ h = <<"hs", Origen(c)>> /\ h \in Dato /\ Octetos \in Nat /\ Octetos <= Len(r.ent["srv"])
      /\ SubSeq(r.ent["srv"], Octetos + 1, Len(r.ent["srv"])) = <<>>
  <2>1. Origen(c) \in HsCodigos
    BY Nombres
  <2>2. <<"hs", Origen(c)>> \in Dato
    BY <2>1, HsEnBytes
  <2> QED BY <1>2, <1>4, <2>1, <2>2, SaludoSolo DEF h
<1>7. /\ t \in Registro /\ MismaCuenta(t, r) /\ t.ent["srv"] = <<>> /\ t.ent["cli"] = <<>>
      /\ t.pc = r.pc /\ t.cerro = {}
  <2>1. /\ t \in Registro /\ MismaCuenta(t, r)
        /\ t.ent["srv"] = SubSeq(r.ent["srv"], Octetos + 1, Len(r.ent["srv"]))
        /\ t.ent[Otro("srv")] = r.ent[Otro("srv")] /\ t.pc = r.pc /\ t.cerro = r.cerro
    BY <1>2, <1>6, QuitaBien
  <2> HIDE DEF t
  <2> QED BY <1>2, <1>4, <1>5, <1>6, <2>1
<1> HIDE DEF t
<1>8. b \in Seq(Byte) /\ b = Hs(Servidor(c)) /\ <<>> \o b = b
  <2>1. b = Hs(Servidor(c))
    BY DEF Hs
  <2>2. Hs(Servidor(c)) \in Seq(Byte)
    BY Nombres, HsEnBytes
  <2> HIDE DEF b
  <2> QED BY <2>1, <2>2
<1> HIDE DEF b
<1>9. /\ e \in Registro /\ MismaCuenta(e, t) /\ e.ent["cli"] = Hs(Servidor(c))
      /\ e.ent["srv"] = <<>> /\ e.pc = t.pc /\ e.cerro = {}
  <2>1. /\ e \in Registro /\ MismaCuenta(e, t) /\ e.ent[Otro("srv")] = t.ent[Otro("srv")] \o b
        /\ e.ent["srv"] = t.ent["srv"] /\ e.pc = t.pc /\ e.cerro = t.cerro
    <3>1. Otro("srv") \notin t.cerro
      BY <1>7
    <3> QED BY <1>2, <1>7, <1>8, <3>1, EnviaBien
  <2> HIDE DEF e
  <2> QED BY <1>2, <1>7, <1>8, <2>1
<1> HIDE DEF e
<1>10. /\ v \in Registro /\ MismaCuenta(v, e) /\ v.pc["srv"] = "confirma"
       /\ v.pc["cli"] = e.pc["cli"] /\ v.ent = e.ent /\ v.cerro = e.cerro
  <2>1. "confirma" \in Etiquetas
    BY DEF Etiquetas
  <2> QED BY <1>2, <1>9, <2>1, VaBien
<1> HIDE DEF v
<1>11. /\ q \in Registro /\ q.quien = h /\ q.pc = v.pc /\ q.ent = v.ent /\ q.cerro = v.cerro
       /\ q.pedidas = v.pedidas /\ q.resultados = v.resultados /\ q.respuestas = v.respuestas
  BY <1>6, <1>10 DEF q, Registro
<1>12. /\ q.pedidas = r.pedidas /\ q.resultados = r.resultados /\ q.respuestas = r.respuestas
       /\ q.pc["srv"] = "confirma" /\ q.pc["cli"] = "valida" /\ q.cerro = {}
       /\ q.ent["cli"] = Hs(Servidor(c)) /\ q.ent["srv"] = <<>> /\ q.quien = <<"hs", Origen(c)>>
  BY <1>4, <1>6, <1>7, <1>9, <1>10, <1>11 DEF MismaCuenta
<1>13. Saludandose(c, q)
  BY <1>4, <1>12 DEF Saludandose
<1>14. q.cerro = {l \in Lados : q.pc[l] = "fin"}
  BY <1>11, <1>12, FinNinguno
<1>15. Fase(c, q)
  BY <1>4, <1>12, <1>13, <1>14 DEF Fase
<1> QED BY <1>1, <1>3, <1>11, <1>12, <1>15 DEF r

LEMMA PasoConfirmar ==
  ASSUME SinPartir, NEW c \in Conexiones, con[c] \in Registro, Fase(c, con[c]), Confirmar(c)
  PROVE  \E q : /\ con' = [con EXCEPT ![c] = q] /\ q \in Registro /\ Fase(c, q)
                /\ MismaCuenta(q, con[c])
                /\ q.pc.srv = "op" /\ con[c].pc.srv = "confirma" /\ ~PorAbrir(con[c])
<1> DEFINE r  == con[c]
           ok == Saludo(r, "srv") = <<"hs", "HSOK">>
           t  == Quita(r, "srv", Octetos)
           q  == Va(t, "srv", "op")
           bien == c \in DeDump \/ (ok /\ r.quien \in {<<"hs", "HSKERNEL">>, <<"hs", "HSCPU">>})
<1>1. /\ r.pc.srv = "confirma" /\ Completo(r, "srv", Octetos)
      /\ con' = [con EXCEPT ![c] = IF bien THEN q ELSE Cierra(t, "srv")]
  BY Zenon DEF Confirmar, En
<1>2. r \in Registro /\ Fase(c, r) /\ "srv" \in Lados /\ Otro("srv") = "cli"
  BY DEF Lados, Otro
<1> HIDE DEF r, q, ok
<1>3. r.cerro = {l \in Lados : r.pc[l] = "fin"} /\ Saludandose(c, r) /\ ~PorAbrir(r)
  BY <1>1, <1>2
     DEF Fase, PorAbrir, Libre, Pidiendo, Delegando, Respondiendo, Terminada, Recepcion
<1>4. r.cerro = {}
  <2>1. r.pc["cli"] # "fin" /\ r.pc["srv"] # "fin"
    BY <1>1, <1>3 DEF Saludandose
  <2> QED BY <1>2, <1>3, <2>1, FinNinguno
<1>5. r.ent["srv"] # <<>>
  <2>1. Octetos \in Nat \ {0} /\ Len(r.ent["srv"]) >= Octetos
    BY <1>1, <1>2, <1>4, ConstantesComunicaciones DEF Completo
  <2>2. Len(<<>>) = 0
    OBVIOUS
  <2> QED BY <2>1, <2>2
\* what follows the handshake
<1> DEFINE b == IF r.pc.cli = "pide" THEN <<>> ELSE Serializado(Guion[c][1])
<1>6. /\ r.quien = <<"hs", Origen(c)>> /\ r.ent["cli"] = <<>>
      /\ r.resultados = <<>> /\ r.respuestas = <<>>
      /\ \/ r.pc.cli = "pide" /\ r.pedidas = 0 /\ r.ent["srv"] = Hs("HSOK")
         \/ /\ r.pc.cli = "op" /\ r.pedidas = 1 /\ 1 \in DOMAIN Guion[c]
            /\ r.ent["srv"] = Hs("HSOK") \o Serializado(Guion[c][1])
  BY <1>1, <1>3, <1>5 DEF Saludandose
<1>7. /\ b \in Seq(Byte) /\ r.ent["srv"] = Hs("HSOK") \o b
      /\ r.pc.cli = "op" => Guion[c][1] \in Paquete /\ 1 \in 1..Len(Guion[c])
  <2>1. CASE r.pc.cli = "pide"
    <3>1. Hs("HSOK") \in Seq(Byte)
      BY Nombres, HsEnBytes
    <3>2. Hs("HSOK") \o <<>> = Hs("HSOK") /\ <<>> \in Seq(Byte) /\ b = <<>>
      BY <2>1, <3>1
    <3> QED BY <1>6, <2>1, <3>2
  <2>2. CASE r.pc.cli = "op"
    <3>1. 1 \in 1..Len(Guion[c])
      BY <1>6, <2>2 DEF SinPartir
    <3>2. Guion[c][1] \in Paquete
      BY <3>1, GuionDe
    <3> QED BY <1>6, <2>2, <3>1, <3>2, PaqueteEnBytes
  <2> QED BY <1>6, <2>1, <2>2
<1> HIDE DEF b
<1>8. /\ Saludo(r, "srv") = <<"hs", "HSOK">> /\ Octetos \in Nat /\ Octetos <= Len(r.ent["srv"])
      /\ SubSeq(r.ent["srv"], Octetos + 1, Len(r.ent["srv"])) = b
  BY <1>2, <1>7, Nombres, SaludoEnBytes
<1>9. bien
  BY <1>6, <1>8 DEF ok, Origen, Conexiones
<1>10. con' = [con EXCEPT ![c] = q]
  BY <1>1, <1>9
<1>11. /\ t \in Registro /\ MismaCuenta(t, r) /\ t.ent["srv"] = b /\ t.ent["cli"] = <<>>
       /\ t.pc = r.pc /\ t.cerro = {}
  <2>1. /\ t \in Registro /\ MismaCuenta(t, r)
        /\ t.ent["srv"] = SubSeq(r.ent["srv"], Octetos + 1, Len(r.ent["srv"]))
        /\ t.ent[Otro("srv")] = r.ent[Otro("srv")] /\ t.pc = r.pc /\ t.cerro = r.cerro
    BY <1>2, <1>8, QuitaBien
  <2> HIDE DEF t
  <2> QED BY <1>2, <1>4, <1>6, <1>8, <2>1
<1> HIDE DEF t
<1>12. /\ q \in Registro /\ MismaCuenta(q, t) /\ q.pc["srv"] = "op" /\ q.pc["cli"] = t.pc["cli"]
       /\ q.ent = t.ent /\ q.cerro = t.cerro
  <2>1. "op" \in Etiquetas
    BY DEF Etiquetas
  <2> QED BY <1>2, <1>11, <2>1, VaBien DEF q
<1>13. /\ MismaCuenta(q, r) /\ q.pc["cli"] = r.pc["cli"] /\ q.ent["srv"] = b
       /\ q.ent["cli"] = <<>> /\ q.cerro = {}
  BY <1>11, <1>12 DEF MismaCuenta
<1>14. q.cerro = {l \in Lados : q.pc[l] = "fin"} /\ q.resultados = <<>> /\ q.respuestas = <<>>
  BY <1>6, <1>12, <1>13, FinNinguno DEF MismaCuenta
<1>15. CASE r.pc.cli = "pide"
  <2>1. q.pedidas = 0 /\ 0 \in 0..Len(Guion[c])
    BY <1>6, <1>13, <1>15 DEF MismaCuenta, SinPartir
  <2>2. b = <<>>
    BY <1>15 DEF b
  <2>3. Libre(c, q)
    BY <1>12, <1>13, <1>14, <1>15, <2>1, <2>2 DEF Libre, Callada
  <2>4. Fase(c, q)
    BY <1>14, <2>3 DEF Fase
  <2> QED BY <1>1, <1>3, <1>10, <1>12, <1>13, <2>4 DEF r
<1>16. CASE r.pc.cli = "op"
  <2>1. q.pedidas = 1 /\ Guion[c][1] \in Paquete /\ 1 \in 1..Len(Guion[c])
    BY <1>6, <1>7, <1>13, <1>16 DEF MismaCuenta
  <2>2. b = Serializado(Guion[c][1])
    BY <1>16 DEF b
  <2>3. Recibiendo(q, "srv", Guion[c][q.pedidas])
    BY <1>12, <1>13, <2>1, <2>2 DEF Recibiendo
  <2>4. Len(q.resultados) = q.pedidas - 1 /\ Len(q.respuestas) = q.pedidas - 1
    BY <1>14, <2>1
  <2>5. Pidiendo(c, q)
    BY <1>12, <1>13, <1>16, <2>1, <2>3, <2>4 DEF Pidiendo, Recepcion
  <2>6. Fase(c, q)
    BY <1>14, <2>5 DEF Fase
  <2> QED BY <1>1, <1>3, <1>10, <1>12, <1>13, <2>6 DEF r
<1> QED BY <1>6, <1>15, <1>16

-----------------------------------------------------------------------------
(* The phases: the answer.                                                 *)

(* What a side processes is the packet the other sent.                     *)
LEMMA LoRecibido ==
  ASSUME SinPartir, NEW c, con[c] \in Registro, Fase(c, con[c]), NEW l \in Lados,
         con[c].pc[l] = "procesa"
  PROVE  /\ EnCurso(c, con[c], l) /\ con[c].ent[l] = <<>>
         /\ Recibido(c, l) = Que(c, con[c], l) /\ Que(c, con[c], l) \in Paquete
<1> DEFINE r == con[c]
           p == Que(c, r, l)
           t == <<"op", p.op>>
<1>1. EnCurso(c, r, l)
  <2>1. r.pc[l] \in Recepcion /\ r.pc[l] # "op"
    BY DEF Recepcion
  <2> HIDE DEF r
  <2> QED BY <2>1, QueRecibe DEF r
<1>2. Recibiendo(r, l, p)
  BY <1>1, RecibiendoQue
<1> HIDE DEF r, p
<1>3. p \in Paquete /\ r.ent[l] = <<>> /\ r.rx[l].datos = Campos(p.campos) /\ r.rx[l].op = t
  BY <1>2 DEF Recibiendo, r
<1>4. p = [op |-> p.op, campos |-> p.campos] /\ p.campos \in Seq(Entero)
  BY <1>3, PaqueteEnBytes
<1>5. Deserealizado(Campos(p.campos)) = p.campos
  BY <1>4, IdaYVuelta
<1>6. t[2] = p.op
  OBVIOUS
<1> HIDE DEF t
<1>7. Recibido(c, l) = [op |-> r.rx[l].op[2], campos |-> Deserealizado(r.rx[l].datos)]
  BY Zenon DEF Recibido, r
<1>8. Recibido(c, l) = p
  <2>1. r.rx[l].op[2] = p.op /\ Deserealizado(r.rx[l].datos) = p.campos
    BY <1>3, <1>5, <1>6
  <2> QED BY <1>4, <1>7, <2>1, Zenon
<1> QED BY <1>1, <1>3, <1>8 DEF r, p

LEMMA SimpleEs ==
  ASSUME NEW x \in Codigos
  PROVE  Simple(x) \in Paquete /\ Simple(x).op = x /\ Simple(x).campos = <<>>
BY DEF Simple, Paquete

\* A request that is answered: the CPU's connection goes on, the others end.
LEMMA PasaAResponder ==
  ASSUME SinPartir, NEW c \in Conexiones, NEW r \in Registro, Fase(c, r),
         r.pc["cli"] = "op", r.pc["srv"] \in {"procesa", "espera"}, Callada(r),
         r.pedidas \in 1..Len(Guion[c]),
         Len(r.resultados) = r.pedidas - 1, Len(r.respuestas) = r.pedidas - 1,
         NEW a \in Paquete, c \in DeDump => a.campos = <<>>,
         NEW q, q = IF c \in DeCpu THEN Va(Contesta(r, a), "srv", "op")
                                   ELSE Cierra(Contesta(r, a), "srv")
  PROVE  /\ q \in Registro /\ Fase(c, q)
         /\ q.pedidas = r.pedidas /\ q.respuestas = r.respuestas
         /\ q.resultados = Append(r.resultados, a)
         /\ q.pc.srv = IF c \in DeCpu THEN "op" ELSE "fin"
<1> DEFINE e == Contesta(r, a)
<1>1. r.cerro = {} /\ "srv" \in Lados /\ Otro("srv") = "cli"
  <2>1. r.cerro = {l \in Lados : r.pc[l] = "fin"}
    BY DEF Fase
  <2> QED BY <2>1, FinNinguno DEF Lados, Otro
<1>2. /\ e \in Registro /\ e.pedidas = r.pedidas /\ e.respuestas = r.respuestas
      /\ e.resultados = Append(r.resultados, a)
      /\ e.ent["cli"] = r.ent["cli"] \o Serializado(a) /\ e.ent["srv"] = r.ent["srv"]
      /\ e.pc = r.pc /\ e.cerro = {}
  <2>1. "cli" \notin r.cerro
    BY <1>1
  <2>2. /\ e \in Registro /\ e.pedidas = r.pedidas /\ e.respuestas = r.respuestas
        /\ e.resultados = Append(r.resultados, a)
        /\ e.ent["cli"] = r.ent["cli"] \o Serializado(a) /\ e.ent["srv"] = r.ent["srv"]
        /\ e.pc = r.pc /\ e.cerro = r.cerro
    BY <2>1, ContestaBien
  <2> HIDE DEF e
  <2> QED BY <1>1, <2>2
<1> HIDE DEF e
<1>3. /\ q \in Registro /\ MismaCuenta(q, e) /\ q.ent = e.ent
      /\ q.pc["cli"] = e.pc["cli"] /\ q.pc["srv"] = (IF c \in DeCpu THEN "op" ELSE "fin")
      /\ q.cerro = (IF c \in DeCpu THEN {} ELSE {"srv"})
  <2>1. CASE c \in DeCpu
    <3>1. q = Va(e, "srv", "op") /\ "op" \in Etiquetas
      BY <2>1 DEF e, Etiquetas
    <3>2. /\ q \in Registro /\ MismaCuenta(q, e) /\ q.ent = e.ent
          /\ q.pc["srv"] = "op" /\ q.pc[Otro("srv")] = e.pc[Otro("srv")] /\ q.cerro = e.cerro
      BY <1>1, <1>2, <3>1, VaBien
    <3> QED BY <1>1, <1>2, <2>1, <3>2
  <2>2. CASE c \notin DeCpu
    <3>1. q = Cierra(e, "srv")
      BY <2>2 DEF e
    <3>2. /\ q \in Registro /\ MismaCuenta(q, e) /\ q.ent = e.ent
          /\ q.pc["srv"] = "fin" /\ q.pc[Otro("srv")] = e.pc[Otro("srv")]
          /\ q.cerro = e.cerro \cup {"srv"}
      BY <1>1, <1>2, <3>1, CierraBien
    <3> QED BY <1>1, <1>2, <2>2, <3>2
  <2> QED BY <2>1, <2>2
<1>4. /\ q.pedidas = r.pedidas /\ q.respuestas = r.respuestas
      /\ q.resultados = Append(r.resultados, a)
      /\ q.pc["cli"] = "op" /\ q.ent["srv"] = <<>> /\ q.ent["cli"] = Serializado(a)
  <2>1. Serializado(a) \in Seq(Byte)
    BY PaqueteEnBytes
  <2>2. <<>> \o Serializado(a) = Serializado(a)
    <3> DEFINE s == Serializado(a)
    <3>1. s \in Seq(Byte)
      BY <2>1
    <3> HIDE DEF s
    <3>2. <<>> \o s = s
      BY <3>1
    <3> QED BY <3>2 DEF s
  <2> QED BY <1>2, <1>3, <2>2 DEF MismaCuenta, Callada
<1>5. r.resultados \in Seq(Paquete)
  BY DEF Registro
<1>6. /\ Len(q.resultados) = q.pedidas /\ Last(q.resultados) = a
      /\ \A i \in DOMAIN q.resultados :
            q.resultados[i] = a \/ (i \in DOMAIN r.resultados /\ q.resultados[i] = r.resultados[i])
  <2> HIDE DEF Paquete
  <2>1. r.pedidas \in Nat /\ Len(r.resultados) + 1 = r.pedidas
    BY <1>5 DEF Registro
  <2> DEFINE s == r.resultados
  <2>2. s \in Seq(Paquete)
    BY <1>5
  <2> HIDE DEF s
  <2>3. Len(Append(s, a)) = Len(s) + 1 /\ Last(Append(s, a)) = a
    BY <2>2 DEF Last
  <2>4. \A i \in DOMAIN Append(s, a) :
            Append(s, a)[i] = a \/ (i \in DOMAIN s /\ Append(s, a)[i] = s[i])
    BY <2>2
  <2> QED BY <1>4, <2>1, <2>3, <2>4 DEF s
<1>7. q.cerro = {l \in Lados : q.pc[l] = "fin"}
  BY <1>3, <1>4 DEF Lados
<1>8. c \in DeDump => \A i \in DOMAIN q.resultados : q.resultados[i].campos = <<>>
  BY <1>6 DEF Fase
<1>9. Recibiendo(q, "cli", Last(q.resultados))
  BY <1>4, <1>6 DEF Recibiendo
<1>10. Respondiendo(c, q)
  BY <1>3, <1>4, <1>6, <1>9 DEF Respondiendo, Recepcion
<1>11. Fase(c, q)
  BY <1>7, <1>8, <1>10 DEF Fase
<1> QED BY <1>3, <1>4, <1>11

\* An answer that is read: the CPU goes on, the others close.
LEMMA Concluye ==
  ASSUME SinPartir, NEW c \in Conexiones, NEW r \in Registro, Fase(c, r), Respondiendo(c, r),
         r.pc["cli"] = "procesa", NEW x, NEW q \in Registro,
         q.pc["srv"] = r.pc["srv"], q.ent = r.ent, q.pedidas = r.pedidas,
         q.resultados = r.resultados, q.respuestas = Append(r.respuestas, x),
         q.pc["cli"] = IF c \in DeCpu THEN "pide" ELSE "fin",
         q.cerro = IF c \in DeCpu THEN r.cerro ELSE r.cerro \cup {"cli"}
  PROVE  Fase(c, q)
<1>1. /\ r.pc.srv = (IF c \in DeCpu THEN "op" ELSE "fin") /\ r.ent.srv = <<>> /\ r.ent.cli = <<>>
      /\ r.pedidas \in 1..Len(Guion[c])
      /\ Len(r.resultados) = r.pedidas /\ Len(r.respuestas) = r.pedidas - 1
  BY DEF Respondiendo, Recibiendo
<1>2. Len(q.respuestas) = q.pedidas /\ r.pedidas \in 0..Len(Guion[c])
  <2>1. r.respuestas \in Seq(Paquete) /\ r.pedidas \in Nat
    BY DEF Registro
  <2> DEFINE s == r.respuestas
  <2>2. Len(Append(s, x)) = Len(s) + 1 /\ Len(s) \in Nat
    <3> HIDE DEF Paquete
    <3> QED BY <2>1
  <2> HIDE DEF s
  <2>3. Len(q.respuestas) = Len(s) + 1
    BY <2>2 DEF s
  <2>4. r.pedidas \in 0..Len(Guion[c])
    BY <1>1
  <2> QED BY <1>1, <2>1, <2>2, <2>3, <2>4 DEF s
<1>3. r.cerro = {l \in Lados : r.pc[l] = "fin"}
  BY DEF Fase
<1>4. c \in DeDump => \A i \in DOMAIN q.resultados : q.resultados[i].campos = <<>>
  BY DEF Fase
<1>5. CASE c \in DeCpu
  <2>1. Libre(c, q)
    BY <1>1, <1>2, <1>5 DEF Libre, Callada
  <2>2. q.cerro = {l \in Lados : q.pc[l] = "fin"}
    BY <1>1, <1>3, <1>5 DEF Lados
  <2> QED BY <1>4, <2>1, <2>2 DEF Fase
<1>6. CASE c \notin DeCpu
  <2>1. r.pedidas = 1
    BY <1>1, <1>6, GuionDe
  <2>2. Terminada(c, q)
    BY <1>1, <1>2, <1>6, <2>1 DEF Terminada, Callada
  <2>3. q.cerro = {l \in Lados : q.pc[l] = "fin"}
    BY <1>1, <1>3, <1>6 DEF Lados
  <2> QED BY <1>4, <2>2, <2>3 DEF Fase
<1> QED BY <1>5, <1>6

\* What the client notes down
Oido(r, x) == [r EXCEPT !.respuestas = Append(r.respuestas, x)]

LEMMA OidoBien ==
  ASSUME NEW r \in Registro, NEW x \in Paquete
  PROVE  LET q == Oido(r, x)
         IN  /\ q \in Registro /\ q.respuestas = Append(r.respuestas, x)
             /\ q.pc = r.pc /\ q.ent = r.ent /\ q.cerro = r.cerro
             /\ q.pedidas = r.pedidas /\ q.resultados = r.resultados
<1> DEFINE s == Append(r.respuestas, x)
           q == [r EXCEPT !.respuestas = s]
<1>1. s \in Seq(Paquete)
  <2> HIDE DEF Paquete
  <2>1. r.respuestas \in Seq(Paquete)
    BY DEF Registro
  <2> QED BY <2>1
<1> HIDE DEF s
<1>2. q \in Registro
  BY <1>1 DEF Registro
<1>3. q.respuestas = s /\ q.pc = r.pc /\ q.ent = r.ent /\ q.cerro = r.cerro
  BY <1>1 DEF Registro
<1>4. q.pedidas = r.pedidas /\ q.resultados = r.resultados
  BY <1>1 DEF Registro
<1> HIDE DEF q
<1>5. /\ q \in Registro /\ q.respuestas = s
      /\ q.pc = r.pc /\ q.ent = r.ent /\ q.cerro = r.cerro
      /\ q.pedidas = r.pedidas /\ q.resultados = r.resultados
  BY <1>2, <1>3, <1>4
<1> QED BY <1>5 DEF q, s, Oido

LEMMA PasoLeer ==
  ASSUME SinPartir, NEW c \in Conexiones, con[c] \in Registro, Fase(c, con[c]), Leer(c)
  PROVE  \E q : /\ con' = [con EXCEPT ![c] = q] /\ q \in Registro /\ Fase(c, q)
                /\ Respondiendo(c, con[c]) /\ q.pc.srv = con[c].pc.srv
                /\ q.pedidas = con[c].pedidas /\ q.resultados = con[c].resultados
                /\ q.respuestas = Append(con[c].respuestas, Last(con[c].resultados))
<1> DEFINE r == con[c]
           x == Recibido(c, "cli")
           v == IF c \in DeKernel THEN Cierra(r, "cli") ELSE Va(r, "cli", "pide")
           q == [v EXCEPT !.respuestas = Append(@, x)]
<1>1. /\ c \in Externas /\ r.pc["cli"] = "procesa" /\ con' = [con EXCEPT ![c] = q]
  BY Zenon DEF Leer, En
<1>2. "cli" \in Lados /\ Otro("cli") = "srv" /\ r \in Registro /\ Fase(c, r)
  BY DEF Lados, Otro
<1>3. c \in DeKernel <=> c \notin DeCpu
  BY <1>1, ConstantesComunicaciones DEF Externas
<1>4. q = Oido(v, x)
  BY Zenon DEF Oido
<1>5. EnCurso(c, r, "cli") /\ x = Que(c, r, "cli") /\ Que(c, r, "cli") \in Paquete
  BY <1>1, <1>2, LoRecibido
<1> HIDE DEF x, q, v, r
<1>6. Respondiendo(c, r) /\ x = Last(r.resultados) /\ x \in Paquete
  BY <1>5 DEF EnCurso, Que
<1>7. /\ v \in Registro /\ MismaCuenta(v, r) /\ v.ent = r.ent /\ v.pc["srv"] = r.pc["srv"]
      /\ v.pc["cli"] = (IF c \in DeCpu THEN "pide" ELSE "fin")
      /\ v.cerro = (IF c \in DeCpu THEN r.cerro ELSE r.cerro \cup {"cli"})
  <2>1. CASE c \in DeCpu
    <3>1. v = Va(r, "cli", "pide") /\ "pide" \in Etiquetas
      BY <1>3, <2>1 DEF v, Etiquetas
    <3>2. /\ v \in Registro /\ MismaCuenta(v, r) /\ v.ent = r.ent /\ v.cerro = r.cerro
          /\ v.pc["cli"] = "pide" /\ v.pc[Otro("cli")] = r.pc[Otro("cli")]
      BY <1>2, <3>1, VaBien
    <3> QED BY <1>2, <2>1, <3>2
  <2>2. CASE c \notin DeCpu
    <3>1. v = Cierra(r, "cli")
      BY <1>3, <2>2 DEF v
    <3>2. /\ v \in Registro /\ MismaCuenta(v, r) /\ v.ent = r.ent
          /\ v.cerro = r.cerro \cup {"cli"}
          /\ v.pc["cli"] = "fin" /\ v.pc[Otro("cli")] = r.pc[Otro("cli")]
      BY <1>2, <3>1, CierraBien
    <3> QED BY <1>2, <2>2, <3>2
  <2> QED BY <2>1, <2>2
<1>8. /\ q \in Registro /\ q.respuestas = Append(v.respuestas, x)
      /\ q.pc = v.pc /\ q.ent = v.ent /\ q.cerro = v.cerro
      /\ q.pedidas = v.pedidas /\ q.resultados = v.resultados
  BY <1>4, <1>6, <1>7, OidoBien
<1>9. /\ q.pc["srv"] = r.pc["srv"] /\ q.ent = r.ent /\ q.pedidas = r.pedidas
      /\ q.resultados = r.resultados /\ q.respuestas = Append(r.respuestas, x)
      /\ q.pc["cli"] = (IF c \in DeCpu THEN "pide" ELSE "fin")
      /\ q.cerro = (IF c \in DeCpu THEN r.cerro ELSE r.cerro \cup {"cli"})
  BY <1>7, <1>8 DEF MismaCuenta
<1>10. Fase(c, q)
  <2>1. r.pc["cli"] = "procesa"
    BY <1>1 DEF r
  <2> QED BY <1>2, <1>6, <1>8, <1>9, <2>1, Concluye
<1> QED BY <1>1, <1>6, <1>8, <1>9, <1>10 DEF r


LEMMA RespuestasDe ==
  ASSUME NEW p
  PROVE  /\ p.op \in PedidosKernel => Respuestas(p) = {Simple("SUCCESS"), Simple("SIZE_ERROR")}
         /\ p.op \in PedidosCpu => Respuestas(p) = {[op |-> "INFO", campos |-> p.campos]}
         /\ p.op = "MEMORY_DUMP" => Respuestas(p) = {Simple("SUCCESS"), Simple("MEMORY_DUMP")}
         /\ p.op \in PedidosKernel => p.op # "MEMORY_DUMP" /\ p.op \notin PedidosCpu
         /\ p.op \in PedidosCpu => p.op # "MEMORY_DUMP"
<1>1. CASE p.op \in PedidosKernel
  <2>1. p.op # "MEMORY_DUMP" /\ p.op \notin PedidosCpu
    BY <1>1 DEF PedidosKernel, PedidosCpu
  <2> QED BY <1>1, <2>1 DEF Respuestas
<1>2. CASE p.op \in PedidosCpu
  <2>1. p.op # "MEMORY_DUMP" /\ p.op \notin PedidosKernel
    BY <1>2 DEF PedidosKernel, PedidosCpu
  <2> QED BY <1>2, <2>1 DEF Respuestas
<1>3. CASE p.op = "MEMORY_DUMP"
  <2>1. p.op \notin PedidosKernel /\ p.op \notin PedidosCpu
    BY <1>3 DEF PedidosKernel, PedidosCpu
  <2> QED BY <1>3, <2>1 DEF Respuestas
<1> QED BY <1>1, <1>2, <1>3

LEMMA CodigosSimples ==
  /\ Simple("SUCCESS") \in Paquete /\ Simple("SIZE_ERROR") \in Paquete
  /\ Simple("MEMORY_DUMP") \in Paquete /\ "INFO" \in Codigos
  /\ Simple("SUCCESS").campos = <<>> /\ Simple("SIZE_ERROR").campos = <<>>
  /\ Simple("MEMORY_DUMP").campos = <<>>
BY SimpleEs, ConstantesComunicaciones

(* A request that is being processed, and what answering it gives.         *)
LEMMA EnProceso ==
  ASSUME SinPartir, NEW c \in Conexiones, con[c] \in Registro, Fase(c, con[c]),
         con[c].pc["srv"] = "procesa"
  PROVE  /\ Pidiendo(c, con[c]) /\ Callada(con[c]) /\ Recibido(c, "srv") = Guion[c][con[c].pedidas]
         /\ con[c].pc["cli"] = "op" /\ con[c].pedidas \in 1..Len(Guion[c])
         /\ Len(con[c].resultados) = con[c].pedidas - 1
         /\ Len(con[c].respuestas) = con[c].pedidas - 1
         /\ Recibido(c, "srv") \in Paquete
         /\ c \notin DeCpu => con[c].pedidas = 1
<1> DEFINE r == con[c]
<1>1. "srv" \in Lados
  BY DEF Lados
<1>2. /\ EnCurso(c, r, "srv") /\ r.ent["srv"] = <<>>
      /\ Recibido(c, "srv") = Que(c, r, "srv") /\ Que(c, r, "srv") \in Paquete
  BY <1>1, LoRecibido
<1> HIDE DEF r
<1>3. Pidiendo(c, r) /\ Que(c, r, "srv") = Guion[c][r.pedidas]
  BY <1>2 DEF EnCurso, Que
<1>4. /\ Callada(r) /\ r.pc["cli"] = "op" /\ r.pedidas \in 1..Len(Guion[c])
      /\ Len(r.resultados) = r.pedidas - 1 /\ Len(r.respuestas) = r.pedidas - 1
  BY <1>2, <1>3 DEF Pidiendo, Callada
<1>5. c \notin DeCpu => r.pedidas = 1
  BY <1>4, GuionDe
<1> QED BY <1>2, <1>3, <1>4, <1>5 DEF r

\* What answering a request with a leaves
Contestado(c, q, r, a) ==
    /\ q \in Registro /\ Fase(c, q)
    /\ q.pedidas = r.pedidas /\ q.respuestas = r.respuestas
    /\ q.resultados = Append(r.resultados, a)
    /\ q.pc.srv = IF c \in DeCpu THEN "op" ELSE "fin"

LEMMA PasoProcesarCpu ==
  ASSUME SinPartir, NEW c \in Conexiones, con[c] \in Registro, Fase(c, con[c]), ProcesarCpu(c)
  PROVE  /\ Pidiendo(c, con[c])
         /\ \E a \in Respuestas(Guion[c][con[c].pedidas]) : \E q :
               /\ con' = [con EXCEPT ![c] = q] /\ Contestado(c, q, con[c], a)
               /\ a.op = "INFO"
<1> DEFINE r == con[c]
           p == Recibido(c, "srv")
           a == [op |-> "INFO", campos |-> p.campos]
           q == Va(Contesta(r, a), "srv", "op")
<1>1. c \in DeCpu /\ r.pc["srv"] = "procesa"
  BY DEF ProcesarCpu, En
<1>2. /\ Pidiendo(c, r) /\ Callada(r) /\ p = Guion[c][r.pedidas] /\ r.pc["cli"] = "op"
      /\ r.pedidas \in 1..Len(Guion[c]) /\ Len(r.resultados) = r.pedidas - 1
      /\ Len(r.respuestas) = r.pedidas - 1 /\ p \in Paquete
  BY <1>1, EnProceso
<1>3. p.op \in PedidosCpu
  <2>1. DOMAIN Guion[c] = 1..Len(Guion[c])
    BY DEF SinPartir
  <2>2. Guion[c][r.pedidas].op \in PedidosCpu
    <3> DEFINE i == r.pedidas
    <3>1. i \in DOMAIN Guion[c]
      BY <1>2, <2>1
    <3> HIDE DEF i
    <3>2. Guion[c][i].op \in PedidosCpu
      BY <1>1, <3>1, GuionesComunicaciones
    <3> QED BY <3>2 DEF i
  <2> HIDE DEF p
  <2> QED BY <1>2, <2>2
<1>4. \E b \in Respuestas(p) : con' = [con EXCEPT ![c] = Va(Contesta(r, b), "srv", "op")]
  BY <1>3, Zenon DEF ProcesarCpu
<1> HIDE DEF p
<1>5. Respuestas(p) = {a}
  BY <1>3, RespuestasDe
<1>6. con' = [con EXCEPT ![c] = q]
  BY <1>4, <1>5
<1>7. a \in Paquete /\ a.op = "INFO"
  BY <1>2, CodigosSimples DEF Paquete
<1>8. c \notin DeDump
  BY <1>1, ConstantesComunicaciones DEF Externas
<1> HIDE DEF a
<1>9. Contestado(c, q, r, a)
  <2>1. r \in Registro /\ Fase(c, r) /\ r.pc["srv"] \in {"procesa", "espera"}
    BY <1>1
  <2>2. q = IF c \in DeCpu THEN Va(Contesta(r, a), "srv", "op") ELSE Cierra(Contesta(r, a), "srv")
    BY <1>1
  <2> HIDE DEF q, r
  <2> QED BY <1>2, <1>7, <1>8, <2>1, <2>2, PasaAResponder DEF Contestado
<1>10. a \in Respuestas(Guion[c][r.pedidas])
  BY <1>2, <1>5
<1> QED BY <1>2, <1>6, <1>7, <1>9, <1>10

LEMMA PasoProcesarDump ==
  ASSUME SinPartir, NEW c \in Conexiones, con[c] \in Registro, Fase(c, con[c]), ProcesarDump(c)
  PROVE  /\ Pidiendo(c, con[c]) /\ c \in DeDump /\ con[c].pc.srv = "procesa"
         /\ \E a \in Respuestas(Guion[c][1]) : \E q :
               /\ con' = [con EXCEPT ![c] = q] /\ Contestado(c, q, con[c], a)
               /\ guardado' = IF a.op = "SUCCESS" THEN guardado \cup {Guion[c][1].campos}
                              ELSE guardado
               /\ UNCHANGED <<acepta, fallo>>
<1> DEFINE r == con[c]
           p == Recibido(c, "srv")
           q(b) == Cierra(Contesta(r, b), "srv")
<1>1. c \in DeDump /\ r.pc["srv"] = "procesa" /\ UNCHANGED acepta
  BY DEF ProcesarDump, En
<1>2. /\ Pidiendo(c, r) /\ Callada(r) /\ p = Guion[c][r.pedidas] /\ r.pc["cli"] = "op"
      /\ r.pedidas \in 1..Len(Guion[c]) /\ Len(r.resultados) = r.pedidas - 1
      /\ Len(r.respuestas) = r.pedidas - 1 /\ p \in Paquete
      /\ c \notin DeCpu => r.pedidas = 1
  BY <1>1, EnProceso
<1>3. c \notin DeCpu
  BY <1>1, ConstantesComunicaciones DEF Externas
<1>4. p.op = "MEMORY_DUMP" /\ p = Guion[c][1]
  <2>1. p = Guion[c][1]
    BY <1>2, <1>3
  <2>2. Guion[c][1].op = "MEMORY_DUMP"
    BY <1>1, GuionesComunicaciones
  <2> HIDE DEF p
  <2> QED BY <2>1, <2>2
<1>5. /\ \E b \in Respuestas(p) :
            /\ con' = [con EXCEPT ![c] = q(b)]
            /\ guardado' = IF b.op = "SUCCESS" THEN guardado \cup {p.campos} ELSE guardado
      /\ UNCHANGED fallo
  BY <1>4, Zenon DEF ProcesarDump
<1> HIDE DEF p, q
<1>6. PICK a \in Respuestas(p) :
            /\ con' = [con EXCEPT ![c] = q(a)]
            /\ guardado' = IF a.op = "SUCCESS" THEN guardado \cup {p.campos} ELSE guardado
  BY <1>5
<1>7. a \in Paquete /\ a.campos = <<>>
  BY <1>4, <1>6, RespuestasDe, CodigosSimples
<1>8. Contestado(c, q(a), r, a)
  <2>1. r \in Registro /\ Fase(c, r) /\ r.pc["srv"] \in {"procesa", "espera"}
    BY <1>1
  <2>2. q(a) = IF c \in DeCpu THEN Va(Contesta(r, a), "srv", "op") ELSE Cierra(Contesta(r, a), "srv")
    BY <1>3 DEF q
  <2> DEFINE z == q(a)
  <2> HIDE DEF r, z
  <2>3. Contestado(c, z, r, a)
    BY <1>2, <1>7, <2>1, <2>2, PasaAResponder DEF Contestado, z
  <2> QED BY <2>3 DEF z
<1> QED BY <1>1, <1>2, <1>4, <1>5, <1>6, <1>8


LEMMA DumpDeQuien ==
  ASSUME NEW c \in DOMAIN DumpDe
  PROVE  /\ c \in Conexiones /\ DumpDe[c] \in Conexiones /\ DumpDe[c] # c
         /\ c \in Externas /\ c \in DeKernel /\ c \notin DeCpu /\ c \notin DeDump
         /\ DumpDe[c] \in DeDump /\ DumpDe[c] \notin DeCpu /\ DumpDe[c] \notin Externas
         /\ Guion[c][1].op = "MEMORY_DUMP" /\ Guion[DumpDe[c]][1].op = "MEMORY_DUMP"
BY ConstantesComunicaciones, GuionesComunicaciones DEF Conexiones, Externas

\* Two connections change.
LEMMA CambianDos ==
  ASSUME NEW S, NEW R, NEW f \in [S -> R], NEW x \in S, NEW y \in S, x # y,
         NEW a \in R, NEW b \in R, NEW g, g = [f EXCEPT ![x] = a, ![y] = b]
  PROVE  /\ g \in [S -> R] /\ g[x] = a /\ g[y] = b
         /\ \A z \in S \ {x, y} : g[z] = f[z]
OBVIOUS

LEMMA PasoProcesarKernel ==
  ASSUME SinPartir, NEW c \in Conexiones, con[c] \in Registro, Fase(c, con[c]), ProcesarKernel(c),
         c \notin DOMAIN DumpDe
  PROVE  /\ Pidiendo(c, con[c]) /\ c \in DeKernel /\ con[c].pc.srv = "procesa"
         /\ \E a \in Respuestas(Guion[c][con[c].pedidas]) : \E q :
               /\ con' = [con EXCEPT ![c] = q] /\ Contestado(c, q, con[c], a)
               /\ UNCHANGED <<acepta, guardado, fallo>>
<1> DEFINE r == con[c]
           p == Recibido(c, "srv")
           q(b) == Cierra(Contesta(r, b), "srv")
<1>1. c \in DeKernel /\ r.pc["srv"] = "procesa" /\ UNCHANGED <<acepta, guardado, fallo>>
  BY DEF ProcesarKernel, En
<1>2. /\ Pidiendo(c, r) /\ Callada(r) /\ p = Guion[c][r.pedidas] /\ r.pc["cli"] = "op"
      /\ r.pedidas \in 1..Len(Guion[c]) /\ Len(r.resultados) = r.pedidas - 1
      /\ Len(r.respuestas) = r.pedidas - 1 /\ p \in Paquete
      /\ c \notin DeCpu => r.pedidas = 1
  BY <1>1, EnProceso
<1>3. c \notin DeCpu /\ c \notin DeDump
  BY <1>1, ConstantesComunicaciones DEF Externas
<1>4. p.op \in PedidosKernel /\ p.op # "MEMORY_DUMP"
  <2>1. p = Guion[c][1]
    BY <1>2, <1>3
  <2>2. Guion[c][1].op \in PedidosKernel
    BY <1>1, GuionesComunicaciones
  <2>3. Guion[c][1].op # "MEMORY_DUMP"
    BY <2>2, RespuestasDe
  <2> HIDE DEF p
  <2> QED BY <2>1, <2>2, <2>3
<1>5. \E b \in {Contesta(r, a) : a \in Respuestas(p)} : con' = [con EXCEPT ![c] = Cierra(b, "srv")]
  <2>1. IF p.op = "MEMORY_DUMP"
        THEN con' = [con EXCEPT ![c] = Va(@, "srv", "espera"),
                                ![DumpDe[c]] = Abierta(@, DumpDe[c])]
        ELSE \E b \in IF p.op \in PedidosKernel
                      THEN {Contesta(r, a) : a \in Respuestas(p)} ELSE {r} :
                 con' = [con EXCEPT ![c] = Cierra(b, "srv")]
    BY Zenon DEF ProcesarKernel
  <2> HIDE DEF p
  <2> QED BY <1>4, <2>1, Zenon
<1> HIDE DEF p
<1>6. PICK a \in Respuestas(p) : con' = [con EXCEPT ![c] = q(a)]
  BY <1>5
<1> HIDE DEF q
<1>7. a \in Paquete
  BY <1>4, <1>6, RespuestasDe, CodigosSimples
<1>8. Contestado(c, q(a), r, a)
  <2>1. r \in Registro /\ Fase(c, r) /\ r.pc["srv"] \in {"procesa", "espera"}
    BY <1>1
  <2>2. q(a) = IF c \in DeCpu THEN Va(Contesta(r, a), "srv", "op") ELSE Cierra(Contesta(r, a), "srv")
    BY <1>3 DEF q
  <2> DEFINE z == q(a)
  <2> HIDE DEF r, z
  <2>3. Contestado(c, z, r, a)
    BY <1>2, <1>3, <1>7, <2>1, <2>2, PasaAResponder DEF Contestado, z
  <2> QED BY <2>3 DEF z
<1> QED BY <1>1, <1>2, <1>6, <1>8

\* The other connection of a dump is opened.
LEMMA PasoDelegar ==
  ASSUME SinPartir, Sesiones, NEW c \in DOMAIN DumpDe, ProcesarKernel(c), PorAbrir(con[DumpDe[c]])
  PROVE  /\ Pidiendo(c, con[c]) /\ con[c].pc.srv = "procesa"
         /\ \E q \in Registro, z \in Registro :
               /\ con' = [con EXCEPT ![c] = q, ![DumpDe[c]] = z]
               /\ Fase(c, q) /\ Fase(DumpDe[c], z)
               /\ MismaCuenta(q, con[c]) /\ q.pc.srv = "espera"
               /\ z.pc.srv = "cola" /\ z.resultados = con[DumpDe[c]].resultados
               /\ z.pedidas = con[DumpDe[c]].pedidas
               /\ z.respuestas = con[DumpDe[c]].respuestas
         /\ UNCHANGED <<acepta, guardado, fallo>>
<1> DEFINE r == con[c]
           d == DumpDe[c]
           p == Recibido(c, "srv")
           q == Va(r, "srv", "espera")
           z == Abierta(con[d], d)
<1>1. r.pc["srv"] = "procesa" /\ UNCHANGED <<acepta, guardado, fallo>>
  BY DEF ProcesarKernel, En
<1>2. /\ c \in Conexiones /\ d \in Conexiones /\ d # c /\ c \notin DeCpu /\ c \notin DeDump
      /\ Guion[c][1].op = "MEMORY_DUMP"
  BY DumpDeQuien
<1>3. r \in Registro /\ Fase(c, r) /\ con[d] \in Registro /\ Fase(d, con[d])
  BY <1>2 DEF Sesiones
<1>4. /\ Pidiendo(c, r) /\ Callada(r) /\ p = Guion[c][r.pedidas] /\ r.pc["cli"] = "op"
      /\ r.pedidas \in 1..Len(Guion[c]) /\ Len(r.resultados) = r.pedidas - 1
      /\ Len(r.respuestas) = r.pedidas - 1 /\ p \in Paquete
      /\ c \notin DeCpu => r.pedidas = 1
  BY <1>1, <1>2, <1>3, EnProceso
<1>5. p.op = "MEMORY_DUMP"
  <2>1. p = Guion[c][1]
    BY <1>2, <1>4
  <2> HIDE DEF p
  <2> QED BY <1>2, <2>1
<1>6. con' = [con EXCEPT ![c] = q, ![d] = z]
  <2>1. con' = [con EXCEPT ![c] = Va(@, "srv", "espera"), ![DumpDe[c]] = Abierta(@, DumpDe[c])]
    BY <1>5, Zenon DEF ProcesarKernel
  <2>2. DOMAIN con = Conexiones
    BY DEF Sesiones
  <2> HIDE DEF z
  <2>3. [con EXCEPT ![c] = q][d] = con[d]
    BY <1>2, <2>2
  <2>4. [[con EXCEPT ![c] = q] EXCEPT ![d] = z] = [con EXCEPT ![c] = q, ![d] = z]
    OBVIOUS
  <2>5. con' = [[con EXCEPT ![c] = q] EXCEPT ![d] = z]
    BY <2>1, <2>3 DEF z
  <2> QED BY <2>4, <2>5
<1>7. /\ z \in Registro /\ Fase(d, z) /\ z.pc.srv = "cola" /\ z.resultados = con[d].resultados
      /\ z.pedidas = con[d].pedidas /\ z.respuestas = con[d].respuestas
  BY <1>2, <1>3, PasoAbrir
<1>8. "srv" \in Lados /\ "espera" \in Etiquetas /\ Otro("srv") = "cli"
  BY DEF Lados, Etiquetas, Otro
<1> HIDE DEF q, z, r, p, d
<1>9. /\ q \in Registro /\ MismaCuenta(q, r) /\ q.pc["srv"] = "espera"
      /\ q.pc["cli"] = r.pc["cli"] /\ q.ent = r.ent /\ q.cerro = r.cerro
  BY <1>3, <1>8, VaBien DEF q
<1>10. r.resultados = <<>> /\ r.respuestas = <<>> /\ r.pedidas = 1
  <2>1. r.resultados \in Seq(Paquete) /\ r.respuestas \in Seq(Paquete)
    BY <1>3 DEF Registro
  <2>2. Len(r.resultados) = 0 /\ Len(r.respuestas) = 0 /\ r.pedidas = 1
    BY <1>2, <1>4
  <2> QED BY <2>1, <2>2, EmptySeq
<1>11. Delegando(c, q)
  BY <1>4, <1>9, <1>10 DEF Delegando, Callada, MismaCuenta
<1>12. q.cerro = {l \in Lados : q.pc[l] = "fin"}
  <2>1. r.cerro = {l \in Lados : r.pc[l] = "fin"} /\ r.pc["cli"] # "fin" /\ r.pc["srv"] # "fin"
    BY <1>1, <1>3, <1>4 DEF Fase, r
  <2> QED BY <1>3, <1>4, <1>9, <2>1, FinNinguno
<1>13. Fase(c, q)
  BY <1>2, <1>11, <1>12 DEF Fase
<1> QED BY <1>1, <1>4, <1>6, <1>7, <1>9, <1>13 DEF r, d


\* Both connections of a dump are done.
LEMMA PasoPasarRespuesta ==
  ASSUME SinPartir, Sesiones, NEW c \in DOMAIN DumpDe, PasarRespuesta(c)
  PROVE  /\ con[c].pc.srv = "espera" /\ con[DumpDe[c]].pc.srv = "fin"
         /\ \E q \in Registro, z \in Registro :
               /\ con' = [con EXCEPT ![c] = q, ![DumpDe[c]] = z]
               /\ Fase(c, q) /\ Fase(DumpDe[c], z)
               /\ q.pedidas = con[c].pedidas /\ q.respuestas = con[c].respuestas
               /\ q.pc.srv = "fin" /\ q.resultados = con[DumpDe[c]].resultados
               /\ z.pc.srv = "fin" /\ z.resultados = con[DumpDe[c]].resultados
         /\ UNCHANGED <<acepta, guardado, fallo>>
<1> DEFINE r == con[c]
           d == DumpDe[c]
           s == con[d]
           x == Recibido(d, "cli")
           a == Simple(x.op)
           q == Cierra(Contesta(r, a), "srv")
           t == Oido(s, x)
           z == Cierra(t, "cli")
<1>1. /\ r.pc["srv"] = "espera" /\ s.pc["cli"] = "procesa" /\ UNCHANGED <<acepta, guardado, fallo>>
  BY DEF PasarRespuesta, En
<1>2. /\ c \in Conexiones /\ d \in Conexiones /\ d # c /\ c \notin DeCpu /\ c \notin DeDump
      /\ d \notin DeCpu /\ d \in DeDump
  BY DumpDeQuien
<1>3. r \in Registro /\ Fase(c, r) /\ s \in Registro /\ Fase(d, s)
  BY <1>2 DEF Sesiones
<1>4. con' = [con EXCEPT ![c] = q, ![d] = z]
  <2>1. con' = [con EXCEPT ![c] = Cierra(Contesta(@, a), "srv"), ![d] = z]
    BY Zenon DEF PasarRespuesta, Oido
  <2> HIDE DEF z
  <2> QED BY <2>1
<1>5. "cli" \in Lados /\ Otro("cli") = "srv"
  BY DEF Lados, Otro
<1>6. EnCurso(d, s, "cli") /\ x = Que(d, s, "cli") /\ x \in Paquete
  <2>1. EnCurso(d, s, "cli") /\ x = Que(d, s, "cli") /\ Que(d, s, "cli") \in Paquete
    BY <1>1, <1>3, <1>5, LoRecibido
  <2> HIDE DEF x
  <2> QED BY <2>1
<1> HIDE DEF r, s, d, x, q, t, z, a
<1>7. Respondiendo(d, s) /\ x = Last(s.resultados)
  BY <1>6 DEF EnCurso, Que
<1>8. /\ s.pc["srv"] = "fin" /\ s.pedidas = 1 /\ Len(s.resultados) = 1
      /\ s.resultados = <<x>> /\ x.campos = <<>>
  <2>1. s.pc["srv"] = "fin" /\ s.pedidas \in 1..Len(Guion[d]) /\ Len(s.resultados) = s.pedidas
    BY <1>2, <1>7 DEF Respondiendo
  <2>2. s.pedidas = 1
    BY <1>2, <2>1, GuionDe
  <2>3. s.resultados \in Seq(Paquete)
    BY <1>3 DEF Registro
  <2>4. s.resultados[1] = x /\ 1 \in DOMAIN s.resultados
    BY <1>7, <2>1, <2>2, <2>3 DEF Last
  <2>5. s.resultados = <<x>>
    <3> DEFINE f == s.resultados
    <3>1. f \in Seq(Paquete) /\ Len(f) = 1 /\ f[1] = x
      BY <2>1, <2>2, <2>3, <2>4
    <3> HIDE DEF f, Paquete
    <3>2. f = <<x>>
      BY <3>1, <1>6
    <3> QED BY <3>2 DEF f
  <2>6. x.campos = <<>>
    BY <1>2, <1>3, <2>4 DEF Fase
  <2> QED BY <2>1, <2>2, <2>5, <2>6
<1>9. a = x /\ a \in Paquete
  <2>1. x = [op |-> x.op, campos |-> x.campos]
    BY <1>6 DEF Paquete
  <2> QED BY <1>6, <1>8, <2>1 DEF a, Simple
\* c
<1>10. Delegando(c, r)
  BY <1>1, <1>3 DEF Fase, PorAbrir, Saludandose, Libre, Pidiendo, Respondiendo, Terminada, Recepcion
<1>11. /\ r.pc["cli"] = "op" /\ Callada(r) /\ r.pedidas = 1 /\ r.resultados = <<>>
       /\ r.respuestas = <<>> /\ 1 \in 1..Len(Guion[c])
  <2>1. Len(Guion[c]) = 1
    BY DumpDeQuien, GuionesComunicaciones
  <2> QED BY <1>10, <2>1 DEF Delegando
<1>12. /\ q \in Registro /\ Fase(c, q) /\ q.pedidas = r.pedidas /\ q.respuestas = r.respuestas
       /\ q.resultados = Append(r.resultados, a) /\ q.pc.srv = "fin"
  <2>1. Len(r.resultados) = r.pedidas - 1 /\ Len(r.respuestas) = r.pedidas - 1
    BY <1>11
  <2>2. q = IF c \in DeCpu THEN Va(Contesta(r, a), "srv", "op") ELSE Cierra(Contesta(r, a), "srv")
    BY <1>2 DEF q
  <2>3. r.pc["srv"] \in {"procesa", "espera"} /\ r.pedidas \in 1..Len(Guion[c])
    BY <1>1, <1>11 DEF r
  <2> QED BY <1>2, <1>3, <1>9, <1>11, <2>1, <2>2, <2>3, PasaAResponder
<1>13. q.resultados = s.resultados
  <2>1. Append(<<>>, x) = <<x>>
    OBVIOUS
  <2> QED BY <1>8, <1>9, <1>11, <1>12, <2>1
\* d
<1>14. /\ t \in Registro /\ t.respuestas = Append(s.respuestas, x) /\ t.pc = s.pc /\ t.ent = s.ent
       /\ t.cerro = s.cerro /\ t.pedidas = s.pedidas /\ t.resultados = s.resultados
  BY <1>3, <1>6, OidoBien DEF t
<1>15. /\ z \in Registro /\ MismaCuenta(z, t) /\ z.pc["cli"] = "fin" /\ z.pc["srv"] = t.pc["srv"]
       /\ z.ent = t.ent /\ z.cerro = t.cerro \cup {"cli"}
  <2>1. /\ z \in Registro /\ MismaCuenta(z, t) /\ z.pc["cli"] = "fin"
        /\ z.pc[Otro("cli")] = t.pc[Otro("cli")]
        /\ z.ent = t.ent /\ z.cerro = t.cerro \cup {"cli"}
    BY <1>5, <1>14, CierraBien DEF z
  <2> QED BY <1>5, <2>1
<1>16. /\ z.pc["srv"] = s.pc["srv"] /\ z.ent = s.ent /\ z.pedidas = s.pedidas
       /\ z.resultados = s.resultados /\ z.respuestas = Append(s.respuestas, x)
       /\ z.cerro = s.cerro \cup {"cli"}
  BY <1>14, <1>15 DEF MismaCuenta
<1>17. Fase(d, z)
  <2>1. s.pc["cli"] = "procesa"
    BY <1>1 DEF s
  <2> QED BY <1>2, <1>3, <1>7, <1>15, <1>16, <2>1, Concluye
<1> QED BY <1>1, <1>4, <1>8, <1>12, <1>13, <1>15, <1>16, <1>17 DEF r, s, d

-----------------------------------------------------------------------------
(* The system.                                                             *)

Inv == Sesiones /\ Enlace /\ Atiende /\ fallo = "ninguno" /\ DumpIntegro

LEMMA UnaSesion ==
  ASSUME Sesiones, NEW c \in Conexiones, NEW q \in Registro, Fase(c, q),
         con' = [con EXCEPT ![c] = q]
  PROVE  /\ Sesiones' /\ con'[c] = q
         /\ \A d \in Conexiones \ {c} : con'[d] = con[d]
<1>1. con \in [Conexiones -> Registro] /\ \A d \in Conexiones : Fase(d, con[d])
  BY DEF Sesiones
<1>2. con' \in [Conexiones -> Registro] /\ con'[c] = q /\ \A d \in Conexiones \ {c} : con'[d] = con[d]
  BY <1>1
<1>3. ASSUME NEW d \in Conexiones PROVE Fase(d, con'[d])
  BY <1>1, <1>2
<1>4. \A d \in Conexiones : Fase(d, con[d])'
  BY <1>3 DEF Fase, PorAbrir, Saludandose, Libre, Pidiendo, Delegando, Respondiendo, Terminada,
     Recibiendo, Callada
<1> QED BY <1>2, <1>4 DEF Sesiones

LEMMA DosSesiones ==
  ASSUME Sesiones, NEW c \in Conexiones, NEW d \in Conexiones, c # d,
         NEW q \in Registro, Fase(c, q), NEW z \in Registro, Fase(d, z),
         con' = [con EXCEPT ![c] = q, ![d] = z]
  PROVE  /\ Sesiones' /\ con'[c] = q /\ con'[d] = z
         /\ \A e \in Conexiones \ {c, d} : con'[e] = con[e]
<1>1. con \in [Conexiones -> Registro] /\ \A e \in Conexiones : Fase(e, con[e])
  BY DEF Sesiones
<1>2. /\ con' \in [Conexiones -> Registro] /\ con'[c] = q /\ con'[d] = z
      /\ \A e \in Conexiones \ {c, d} : con'[e] = con[e]
  <2> DEFINE R == Registro
             g == con'
  <2>1. con \in [Conexiones -> R] /\ q \in R /\ z \in R /\ g = [con EXCEPT ![c] = q, ![d] = z]
    BY <1>1
  <2> HIDE DEF R, g
  <2>2. /\ g \in [Conexiones -> R] /\ g[c] = q /\ g[d] = z
        /\ \A e \in Conexiones \ {c, d} : g[e] = con[e]
    BY <2>1, CambianDos
  <2> QED BY <2>2 DEF R, g
<1>3. ASSUME NEW e \in Conexiones PROVE Fase(e, con'[e])
  BY <1>1, <1>2
<1>4. \A e \in Conexiones : Fase(e, con[e])'
  BY <1>3 DEF Fase, PorAbrir, Saludandose, Libre, Pidiendo, Delegando, Respondiendo, Terminada,
     Recibiendo, Callada
<1> QED BY <1>2, <1>4 DEF Sesiones

\* What one connection may do without the other of a dump, and without the accept thread
Suelta(c, q, r) ==
    /\ c \in DeDump => ~PorAbrir(r)
    /\ c \in DOMAIN DumpDe /\ r.pc.srv = "espera" => q.pc.srv = "espera"
    /\ r.pc.srv = "fin" => q.pc.srv = "fin" /\ q.resultados = r.resultados
    /\ c \in DOMAIN DumpDe /\ q.pc.srv = "fin" => r.pc.srv = "fin"

LEMMA EnlaceUno ==
  ASSUME Enlace, NEW c \in Conexiones, NEW q, con'[c] = q,
         \A d \in Conexiones \ {c} : con'[d] = con[d], Suelta(c, q, con[c])
  PROVE  Enlace'
<1>1. ASSUME NEW d \in DeDump
      PROVE  \/ PorAbrir(con'[d])
             \/ \E e \in DOMAIN DumpDe : DumpDe[e] = d /\ con'[e].pc.srv \in {"espera", "fin"}
  <2>1. d \in Conexiones
    BY DEF Conexiones
  <2>2. CASE PorAbrir(con[d])
    <3>1. d # c
      BY <2>2 DEF Suelta
    <3> QED BY <2>1, <2>2, <3>1
  <2>3. CASE ~PorAbrir(con[d])
    <3>1. PICK e \in DOMAIN DumpDe : DumpDe[e] = d /\ con[e].pc.srv \in {"espera", "fin"}
      BY <2>3 DEF Enlace
    <3>2. e \in Conexiones
      BY DumpDeQuien
    <3>3. con'[e].pc.srv \in {"espera", "fin"}
      <4>1. CASE e = c
        BY <3>1, <4>1 DEF Suelta
      <4>2. CASE e # c
        BY <3>1, <3>2, <4>2
      <4> QED BY <4>1, <4>2
    <3> QED BY <3>1, <3>3
  <2> QED BY <2>2, <2>3
<1>2. ASSUME NEW e \in DOMAIN DumpDe, con'[e].pc.srv = "fin"
      PROVE  /\ con'[DumpDe[e]].pc.srv = "fin"
             /\ con'[e].resultados = con'[DumpDe[e]].resultados
  <2>1. e \in Conexiones /\ DumpDe[e] \in Conexiones /\ DumpDe[e] # e
    BY DumpDeQuien
  <2>2. con[e].pc.srv = "fin" /\ con'[e].resultados = con[e].resultados
    <3>1. CASE e = c
      BY <1>2, <3>1 DEF Suelta
    <3>2. CASE e # c
      BY <1>2, <2>1, <3>2
    <3> QED BY <3>1, <3>2
  <2>3. con[DumpDe[e]].pc.srv = "fin" /\ con[e].resultados = con[DumpDe[e]].resultados
    BY <2>2 DEF Enlace
  <2>4. /\ con'[DumpDe[e]].pc.srv = "fin"
        /\ con'[DumpDe[e]].resultados = con[DumpDe[e]].resultados
    <3>1. CASE DumpDe[e] = c
      BY <2>3, <3>1 DEF Suelta
    <3>2. CASE DumpDe[e] # c
      BY <2>1, <2>3, <3>2
    <3> QED BY <3>1, <3>2
  <2> QED BY <2>2, <2>3, <2>4
<1> QED BY <1>1, <1>2 DEF Enlace, PorAbrir, Callada

\* The accept thread goes on with its connection.
LEMMA AtiendeQueda ==
  ASSUME Atiende, UNCHANGED acepta,
         \A d \in Conexiones : con[d].pc.srv \in {"saluda", "confirma"}
                                 => con'[d].pc.srv \in {"saluda", "confirma"}
  PROVE  Atiende'
<1>1. ASSUME NEW s \in Servidores, acepta[s] # NULO
      PROVE  Servidor(acepta[s]) = s /\ con'[acepta[s]].pc.srv \in {"saluda", "confirma"}
  <2>1. acepta[s] \in Conexiones
    BY <1>1 DEF Atiende
  <2> QED BY <1>1, <2>1 DEF Atiende
<1> QED BY <1>1 DEF Atiende

LEMMA AtiendeAcepta ==
  ASSUME Atiende, NEW c \in Conexiones, acepta' = [acepta EXCEPT ![Servidor(c)] = c],
         con'[c].pc.srv = "saluda", \A d \in Conexiones \ {c} : con'[d] = con[d]
  PROVE  Atiende'
<1>1. acepta' \in [Servidores -> Conexiones \cup {NULO}]
  BY Nombres DEF Atiende
<1>2. ASSUME NEW s \in Servidores, acepta'[s] # NULO
      PROVE  Servidor(acepta'[s]) = s /\ con'[acepta'[s]].pc.srv \in {"saluda", "confirma"}
  <2>1. CASE s = Servidor(c)
    BY <2>1 DEF Atiende
  <2>2. CASE s # Servidor(c)
    <3>1. acepta'[s] = acepta[s] /\ acepta[s] \in Conexiones
      BY <1>2, <2>2 DEF Atiende
    <3>2. Servidor(acepta[s]) = s /\ con[acepta[s]].pc.srv \in {"saluda", "confirma"}
      BY <1>2, <3>1 DEF Atiende
    <3>3. acepta[s] # c
      BY <2>2, <3>2
    <3> QED BY <3>1, <3>2, <3>3
  <2> QED BY <2>1, <2>2
<1> QED BY <1>1, <1>2 DEF Atiende

LEMMA AtiendeSuelta ==
  ASSUME Atiende, NEW c \in Conexiones, acepta' = [acepta EXCEPT ![Servidor(c)] = NULO],
         \A d \in Conexiones \ {c} : con'[d] = con[d]
  PROVE  Atiende'
<1>1. acepta' \in [Servidores -> Conexiones \cup {NULO}]
  BY Nombres DEF Atiende
<1>2. ASSUME NEW s \in Servidores, acepta'[s] # NULO
      PROVE  Servidor(acepta'[s]) = s /\ con'[acepta'[s]].pc.srv \in {"saluda", "confirma"}
  <2>1. s # Servidor(c)
    BY <1>2 DEF Atiende
  <2>2. acepta'[s] = acepta[s] /\ acepta[s] \in Conexiones
    BY <1>2, <2>1 DEF Atiende
  <2>3. Servidor(acepta[s]) = s /\ con[acepta[s]].pc.srv \in {"saluda", "confirma"}
    BY <1>2, <2>2 DEF Atiende
  <2>4. acepta[s] # c
    BY <2>1, <2>3
  <2> QED BY <2>2, <2>3, <2>4
<1> QED BY <1>1, <1>2 DEF Atiende


\* A step that the clients of Llamadas do not see
Igual ==
    /\ \A d \in Conexiones : /\ con'[d].pedidas = con[d].pedidas
                             /\ con'[d].resultados = con[d].resultados
                             /\ con'[d].respuestas = con[d].respuestas
    /\ UNCHANGED guardado

LEMMA IgualEsQuieto ==
  ASSUME Igual
  PROVE  UNCHANGED L!vars
<1>1. \A c \in Externas : /\ con'[c].pedidas = con[c].pedidas
                          /\ con'[c].respuestas = con[c].respuestas
  BY DEF Igual, Externas, Conexiones
<1>2. \A c \in Externas : Hechas(c)' = Hechas(c)
  <2>1. \A c \in Externas : c \in Conexiones
    BY DEF Externas, Conexiones
  <2> QED BY <2>1, DumpDeQuien DEF Igual, Hechas
<1>3. UNCHANGED guardado
  BY DEF Igual
<1> QED BY <1>1, <1>2, <1>3 DEF L!vars

LEMMA InvUno ==
  ASSUME Inv, NEW c \in Conexiones, NEW q \in Registro, Fase(c, q),
         con' = [con EXCEPT ![c] = q], Suelta(c, q, con[c]), UNCHANGED <<acepta, fallo>>,
         con[c].pc.srv \in {"saluda", "confirma"} => q.pc.srv \in {"saluda", "confirma"},
         DumpIntegro'
  PROVE  /\ Inv' /\ con'[c] = q
         /\ \A d \in Conexiones \ {c} : con'[d] = con[d]
<1>1. Sesiones' /\ con'[c] = q /\ \A d \in Conexiones \ {c} : con'[d] = con[d]
  BY UnaSesion DEF Inv
<1>2. Enlace'
  BY <1>1, EnlaceUno DEF Inv
<1>3. Atiende'
  <2>1. \A d \in Conexiones : con[d].pc.srv \in {"saluda", "confirma"}
                                 => con'[d].pc.srv \in {"saluda", "confirma"}
    BY <1>1
  <2> QED BY <2>1, AtiendeQueda DEF Inv
<1> QED BY <1>1, <1>2, <1>3 DEF Inv

LEMMA DumpsIguales ==
  ASSUME DumpIntegro, UNCHANGED guardado
  PROVE  DumpIntegro'
BY DEF DumpIntegro

LEMMA DeInv ==
  ASSUME Inv, NEW c \in Conexiones
  PROVE  con[c] \in Registro /\ Fase(c, con[c])
BY DEF Inv, Sesiones

\* q is r, but for what the other of a dump and the accept thread do not look at.
LEMMA SigueSuelta ==
  ASSUME NEW c, NEW r, NEW q, ~PorAbrir(r), q.pc.srv = r.pc.srv, q.resultados = r.resultados
  PROVE  Suelta(c, q, r)
BY DEF Suelta

LEMMA LeidoSuelta ==
  ASSUME NEW c, NEW r, NEW q, NEW l \in Lados, Leido(c, q, r, l)
  PROVE  /\ q \in Registro /\ Fase(c, q) /\ MismaCuenta(q, r) /\ Suelta(c, q, r)
         /\ r.pc.srv \in {"saluda", "confirma"} => q.pc.srv \in {"saluda", "confirma"}
<1>1. PICK e \in Recepcion : Avanza(q, r, l, e) /\ Fase(c, q) /\ EnCurso(c, r, l)
  BY DEF Leido
<1>2. /\ q \in Registro /\ MismaCuenta(q, r) /\ q.pc[l] = e /\ q.pc[Otro(l)] = r.pc[Otro(l)]
  BY <1>1 DEF Avanza
<1>3. CASE l = "cli"
  <2>1. q.pc.srv = r.pc.srv
    BY <1>2, <1>3 DEF Otro
  <2>2. Respondiendo(c, r)
    BY <1>1, <1>3 DEF EnCurso
  <2>3. ~PorAbrir(r)
    BY <2>2 DEF PorAbrir, Respondiendo, Recepcion
  <2>4. Suelta(c, q, r)
    BY <1>2, <2>1, <2>3, SigueSuelta DEF MismaCuenta
  <2> QED BY <1>1, <1>2, <2>1, <2>4
<1>4. CASE l = "srv"
  <2>1. Pidiendo(c, r)
    BY <1>1, <1>4 DEF EnCurso
  <2>2. r.pc.srv \in Recepcion /\ q.pc.srv = e
    BY <1>2, <1>4, <2>1 DEF Pidiendo
  <2>3. Suelta(c, q, r)
    BY <2>2 DEF Suelta, PorAbrir, Recepcion
  <2> QED BY <1>1, <1>2, <2>2, <2>3 DEF Recepcion
<1> QED BY <1>3, <1>4 DEF Lados

LEMMA InvRecibir ==
  ASSUME SinPartir, Inv, NEW c \in Conexiones, NEW l \in Lados,
         RecibirOp(c, l) \/ RecibirTamanio(c, l) \/ RecibirDatos(c, l)
  PROVE  Inv' /\ Igual
<1>1. con[c] \in Registro /\ Fase(c, con[c])
  BY DeInv
<1>2. /\ \E q : con' = [con EXCEPT ![c] = q] /\ Leido(c, q, con[c], l)
      /\ UNCHANGED <<acepta, guardado, fallo>>
  BY <1>1, PasoRecibirOp, PasoRecibirTamanio, PasoRecibirDatos
<1>3. PICK q : con' = [con EXCEPT ![c] = q] /\ Leido(c, q, con[c], l)
  BY <1>2
<1>4. /\ q \in Registro /\ Fase(c, q) /\ MismaCuenta(q, con[c]) /\ Suelta(c, q, con[c])
      /\ con[c].pc.srv \in {"saluda", "confirma"} => q.pc.srv \in {"saluda", "confirma"}
  BY <1>3, LeidoSuelta
<1>5. DumpIntegro'
  BY <1>2, DumpsIguales DEF Inv
<1>6. Inv' /\ con'[c] = q /\ \A d \in Conexiones \ {c} : con'[d] = con[d]
  BY <1>2, <1>3, <1>4, <1>5, InvUno
<1>7. Igual
  BY <1>2, <1>4, <1>6 DEF Igual, MismaCuenta
<1> QED BY <1>6, <1>7

LEMMA InvConectar ==
  ASSUME SinPartir, Inv, NEW c \in Conexiones, Conectar(c)
  PROVE  Inv' /\ Igual
<1> DEFINE r == con[c]
           q == Abierta(r, c)
<1>1. /\ c \in Externas /\ r.pc.cli = "no" /\ con' = [con EXCEPT ![c] = q]
      /\ UNCHANGED <<acepta, guardado, fallo>>
  BY DEF Conectar, En
<1>2. r \in Registro /\ Fase(c, r)
  BY DeInv
<1> HIDE DEF r, q
<1>3. PorAbrir(r)
  BY <1>1, <1>2 DEF Fase, Saludandose, Libre, Pidiendo, Delegando, Respondiendo, Terminada, Recepcion
<1>4. /\ q \in Registro /\ Fase(c, q) /\ q.pc.srv = "cola" /\ q.resultados = r.resultados
      /\ q.pedidas = r.pedidas /\ q.respuestas = r.respuestas
  BY <1>2, <1>3, PasoAbrir DEF q
<1>5. r.pc.srv = "no" /\ c \notin DeDump
  BY <1>1, <1>3, ConstantesComunicaciones DEF PorAbrir
<1>6. Suelta(c, q, con[c]) /\ (con[c].pc.srv \in {"saluda", "confirma"} => FALSE)
  BY <1>4, <1>5 DEF Suelta, r
<1>7. DumpIntegro'
  BY <1>1, DumpsIguales DEF Inv
<1>8. Inv' /\ con'[c] = q /\ \A d \in Conexiones \ {c} : con'[d] = con[d]
  BY <1>1, <1>4, <1>6, <1>7, InvUno
<1>9. Igual
  BY <1>1, <1>4, <1>8 DEF Igual, r
<1> QED BY <1>8, <1>9

LEMMA InvValidar ==
  ASSUME SinPartir, Inv, NEW c \in Conexiones, Validar(c)
  PROVE  Inv' /\ Igual
<1>1. con[c] \in Registro /\ Fase(c, con[c])
  BY DeInv
<1>2. UNCHANGED <<acepta, guardado, fallo>>
  BY DEF Validar
<1>3. PICK q : /\ con' = [con EXCEPT ![c] = q] /\ q \in Registro /\ Fase(c, q)
               /\ MismaCuenta(q, con[c]) /\ q.pc.srv = con[c].pc.srv /\ ~PorAbrir(con[c])
  BY <1>1, PasoValidar
<1>4. Suelta(c, q, con[c])
  BY <1>3, SigueSuelta DEF MismaCuenta
<1>5. DumpIntegro'
  BY <1>2, DumpsIguales DEF Inv
<1>6. Inv' /\ con'[c] = q /\ \A d \in Conexiones \ {c} : con'[d] = con[d]
  BY <1>2, <1>3, <1>4, <1>5, InvUno
<1>7. Igual
  BY <1>2, <1>3, <1>6 DEF Igual, MismaCuenta
<1> QED BY <1>6, <1>7


-----------------------------------------------------------------------------
(* The steps the clients of Llamadas see.                                  *)

LEMMA EsPedir ==
  ASSUME NEW c \in Externas, con[c].pedidas = Len(con[c].respuestas),
         con[c].pedidas < Len(Guion[c]), con'[c].pedidas = con[c].pedidas + 1,
         \A e \in Externas \ {c} : con'[e].pedidas = con[e].pedidas,
         \A e \in Externas : con'[e].respuestas = con[e].respuestas /\ Hechas(e)' = Hechas(e),
         UNCHANGED guardado
  PROVE  L!Pedir(c)
<1> DEFINE ped == [e \in Externas |-> con[e].pedidas]
<1>1. ped' = [ped EXCEPT ![c] = @ + 1]
  <2>1. \A e \in Externas : con'[e].pedidas = IF e = c THEN ped[c] + 1 ELSE ped[e]
    OBVIOUS
  <2> QED BY <2>1
<1>2. /\ [e \in Externas |-> Hechas(e)]' = [e \in Externas |-> Hechas(e)]
      /\ [e \in Externas |-> con[e].respuestas]' = [e \in Externas |-> con[e].respuestas]
  OBVIOUS
<1>3. ped[c] = Len([e \in Externas |-> con[e].respuestas][c]) /\ ped[c] < Len(Guion[c])
  OBVIOUS
<1> QED BY <1>1, <1>2, <1>3 DEF L!Pedir

LEMMA EsHacer ==
  ASSUME NEW c \in Externas, NEW a \in Respuestas(Guion[c][con[c].pedidas]),
         Len(Hechas(c)) < con[c].pedidas, Hechas(c)' = Append(Hechas(c), a),
         \A e \in Externas \ {c} : Hechas(e)' = Hechas(e),
         \A e \in Externas : /\ con'[e].pedidas = con[e].pedidas
                             /\ con'[e].respuestas = con[e].respuestas,
         guardado' = IF a.op = "SUCCESS" THEN guardado \cup EnDisco(c) ELSE guardado
  PROVE  L!Hacer(c)
<1> DEFINE ped == [e \in Externas |-> con[e].pedidas]
           res == [e \in Externas |-> Hechas(e)]
<1>1. res' = [res EXCEPT ![c] = Append(@, a)]
  <2> DEFINE h(e) == Hechas(e)
  <2>1. \A e \in Externas : h(e)' = IF e = c THEN Append(h(c), a) ELSE h(e)
    OBVIOUS
  <2> HIDE DEF h
  <2>2. [e \in Externas |-> h(e)'] = [[e \in Externas |-> h(e)] EXCEPT ![c] = Append(@, a)]
    BY <2>1
  <2> QED BY <2>2 DEF h
<1>2. ped' = ped /\ [e \in Externas |-> con[e].respuestas]' = [e \in Externas |-> con[e].respuestas]
  OBVIOUS
<1>3. Len(res[c]) < ped[c] /\ a \in Respuestas(Guion[c][ped[c]])
  OBVIOUS
<1> HIDE DEF ped, res
<1>4. /\ Len(res[c]) < ped[c]
      /\ \E r \in Respuestas(Guion[c][ped[c]]) :
            /\ res' = [res EXCEPT ![c] = Append(@, r)]
            /\ guardado' = IF r.op = "SUCCESS" THEN guardado \cup EnDisco(c) ELSE guardado
  BY <1>1, <1>3
<1> QED BY <1>2, <1>4 DEF L!Hacer, ped, res

LEMMA EsContestar ==
  ASSUME NEW c \in Externas, Len(con[c].respuestas) < Len(Hechas(c)),
         con'[c].respuestas = Append(con[c].respuestas, Hechas(c)[Len(con[c].respuestas) + 1]),
         \A e \in Externas \ {c} : con'[e].respuestas = con[e].respuestas,
         \A e \in Externas : con'[e].pedidas = con[e].pedidas /\ Hechas(e)' = Hechas(e),
         UNCHANGED guardado
  PROVE  L!Contestar(c)
<1> DEFINE rsp == [e \in Externas |-> con[e].respuestas]
           res == [e \in Externas |-> Hechas(e)]
           x == Hechas(c)[Len(con[c].respuestas) + 1]
<1>1. rsp' = [rsp EXCEPT ![c] = Append(rsp[c], x)]
  <2> HIDE DEF x
  <2>1. con'[c].respuestas = Append(con[c].respuestas, x)
    BY DEF x
  <2>2. \A e \in Externas : con'[e].respuestas = IF e = c THEN Append(rsp[c], x) ELSE rsp[e]
    BY <2>1
  <2> QED BY <2>2
<1>2. res' = res /\ [e \in Externas |-> con[e].pedidas]' = [e \in Externas |-> con[e].pedidas]
  OBVIOUS
<1>3. Len(rsp[c]) < Len(res[c]) /\ x = res[c][Len(rsp[c]) + 1]
  OBVIOUS
<1> HIDE DEF x, rsp, res
<1>4. Len(rsp[c]) < Len(res[c]) /\ rsp' = [rsp EXCEPT ![c] = Append(@, res[c][Len(@) + 1])]
  BY <1>1, <1>3
<1> QED BY <1>2, <1>4 DEF L!Contestar, rsp, res

LEMMA HechasDe ==
  ASSUME NEW c \in Conexiones, \A d \in Conexiones \ {c} : con'[d] = con[d],
         con'[c].resultados = con[c].resultados
  PROVE  \A e \in Externas : Hechas(e)' = Hechas(e)
<1>1. \A e \in Externas : e \in Conexiones
  BY DEF Externas, Conexiones
<1>2. \A d \in Conexiones : con'[d].resultados = con[d].resultados
  OBVIOUS
<1> QED BY <1>1, <1>2, DumpDeQuien DEF Hechas

LEMMA PasoLlamadas ==
  ASSUME NEW c \in Externas, L!Pedir(c) \/ L!Hacer(c) \/ L!Contestar(c)
  PROVE  [L!Next]_(L!vars)
BY DEF L!Next

LEMMA InvPedir ==
  ASSUME SinPartir, Inv, NEW c \in Conexiones, Pedir(c)
  PROVE  Inv' /\ [L!Next]_(L!vars)
<1>1. con[c] \in Registro /\ Fase(c, con[c])
  BY DeInv
<1>2. UNCHANGED <<acepta, guardado, fallo>> /\ con[c].pedidas < Len(Guion[c])
  BY DEF Pedir
<1>3. PICK q : /\ con' = [con EXCEPT ![c] = q] /\ q \in Registro /\ Fase(c, q)
               /\ q.pedidas = con[c].pedidas + 1 /\ q.resultados = con[c].resultados
               /\ q.respuestas = con[c].respuestas /\ q.pc.srv = con[c].pc.srv
               /\ ~PorAbrir(con[c]) /\ con[c].pedidas = Len(con[c].respuestas)
  BY <1>1, PasoPedir
<1>4. Suelta(c, q, con[c])
  BY <1>3, SigueSuelta
<1>5. DumpIntegro'
  BY <1>2, DumpsIguales DEF Inv
<1>6. Inv' /\ con'[c] = q /\ \A d \in Conexiones \ {c} : con'[d] = con[d]
  BY <1>2, <1>3, <1>4, <1>5, InvUno
<1>7. \A e \in Externas : Hechas(e)' = Hechas(e)
  BY <1>3, <1>6, HechasDe
<1>8. \A e \in Externas : e \in Conexiones
  BY DEF Externas, Conexiones
<1>9. CASE c \in Externas
  <2>1. L!Pedir(c)
    BY <1>2, <1>3, <1>6, <1>7, <1>8, <1>9, EsPedir
  <2> QED BY <1>6, <1>9, <2>1, PasoLlamadas
<1>10. CASE c \notin Externas
  <2>1. \A e \in Externas : con'[e] = con[e]
    BY <1>6, <1>8, <1>10
  <2>2. UNCHANGED L!vars
    BY <1>2, <1>7, <2>1 DEF L!vars
  <2> QED BY <1>6, <2>2
<1> QED BY <1>9, <1>10

LEMMA InvLeer ==
  ASSUME SinPartir, Inv, NEW c \in Conexiones, Leer(c)
  PROVE  Inv' /\ [L!Next]_(L!vars)
<1>1. con[c] \in Registro /\ Fase(c, con[c])
  BY DeInv
<1>2. UNCHANGED <<acepta, guardado, fallo>> /\ c \in Externas
  BY DEF Leer
<1>3. PICK q : /\ con' = [con EXCEPT ![c] = q] /\ q \in Registro /\ Fase(c, q)
               /\ Respondiendo(c, con[c]) /\ q.pc.srv = con[c].pc.srv
               /\ q.pedidas = con[c].pedidas /\ q.resultados = con[c].resultados
               /\ q.respuestas = Append(con[c].respuestas, Last(con[c].resultados))
  BY <1>1, PasoLeer
<1>4. Suelta(c, q, con[c])
  <2>1. ~PorAbrir(con[c])
    BY <1>3 DEF PorAbrir, Respondiendo, Recepcion
  <2> QED BY <1>3, <2>1, SigueSuelta
<1>5. DumpIntegro'
  BY <1>2, DumpsIguales DEF Inv
<1>6. Inv' /\ con'[c] = q /\ \A d \in Conexiones \ {c} : con'[d] = con[d]
  BY <1>2, <1>3, <1>4, <1>5, InvUno
<1>7. \A e \in Externas : Hechas(e)' = Hechas(e)
  BY <1>3, <1>6, HechasDe
<1>8. Hechas(c) = con[c].resultados
  <2>1. CASE c \in DOMAIN DumpDe
    <3>1. c \notin DeCpu
      BY <2>1, DumpDeQuien
    <3>2. con[c].pc.srv = "fin"
      BY <1>3, <3>1 DEF Respondiendo
    <3>3. con[c].resultados = con[DumpDe[c]].resultados
      BY <2>1, <3>2 DEF Inv, Enlace
    <3> QED BY <2>1, <3>3 DEF Hechas
  <2>2. CASE c \notin DOMAIN DumpDe
    BY <2>2 DEF Hechas
  <2> QED BY <2>1, <2>2
<1>9. /\ Len(con[c].respuestas) < Len(Hechas(c))
      /\ Last(con[c].resultados) = Hechas(c)[Len(con[c].respuestas) + 1]
  <2>1. /\ Len(con[c].resultados) = con[c].pedidas /\ Len(con[c].respuestas) = con[c].pedidas - 1
        /\ con[c].pedidas \in Nat
    BY <1>1, <1>3 DEF Respondiendo, Registro
  <2>2. Len(con[c].respuestas) + 1 = Len(con[c].resultados)
    BY <2>1
  <2> QED BY <1>8, <2>1, <2>2 DEF Last
<1>10. L!Contestar(c)
  <2>1. \A e \in Externas : e \in Conexiones
    BY DEF Externas, Conexiones
  <2>2. /\ con'[c].respuestas = Append(con[c].respuestas, Hechas(c)[Len(con[c].respuestas) + 1])
        /\ \A e \in Externas \ {c} : con'[e].respuestas = con[e].respuestas
    BY <1>3, <1>6, <1>9, <2>1
  <2>3. \A e \in Externas : con'[e].pedidas = con[e].pedidas
    BY <1>3, <1>6, <2>1
  <2> QED BY <1>2, <1>7, <1>9, <2>2, <2>3, EsContestar
<1> QED BY <1>2, <1>6, <1>10, PasoLlamadas


-----------------------------------------------------------------------------
(* The accept threads.                                                     *)

LEMMA InvAceptar ==
  ASSUME SinPartir, Inv, NEW c \in Conexiones, Aceptar(c)
  PROVE  Inv' /\ Igual
<1>1. con[c] \in Registro /\ Fase(c, con[c])
  BY DeInv
<1>2. UNCHANGED <<guardado, fallo>> /\ acepta' = [acepta EXCEPT ![Servidor(c)] = c]
  BY DEF Aceptar
<1>3. PICK q : /\ con' = [con EXCEPT ![c] = q] /\ q \in Registro /\ Fase(c, q)
               /\ MismaCuenta(q, con[c]) /\ q.pc.srv = "saluda" /\ con[c].pc.srv = "cola"
               /\ ~PorAbrir(con[c])
  BY <1>1, PasoAceptar
<1>4. Suelta(c, q, con[c])
  BY <1>3 DEF Suelta
<1>5. Sesiones' /\ con'[c] = q /\ \A d \in Conexiones \ {c} : con'[d] = con[d]
  BY <1>3, UnaSesion DEF Inv
<1>6. Enlace'
  BY <1>4, <1>5, EnlaceUno DEF Inv
<1>7. Atiende'
  BY <1>2, <1>3, <1>5, AtiendeAcepta DEF Inv
<1>8. Igual
  BY <1>2, <1>3, <1>5 DEF Igual, MismaCuenta
<1> QED BY <1>2, <1>5, <1>6, <1>7, <1>8, DumpsIguales DEF Inv

LEMMA InvSaludar ==
  ASSUME SinPartir, Inv, NEW c \in Conexiones, Saludar(c)
  PROVE  Inv' /\ Igual
<1>1. con[c] \in Registro /\ Fase(c, con[c])
  BY DeInv
<1>2. UNCHANGED <<acepta, guardado, fallo>>
  BY DEF Saludar
<1>3. PICK q : /\ con' = [con EXCEPT ![c] = q] /\ q \in Registro /\ Fase(c, q)
               /\ q.pedidas = con[c].pedidas /\ q.resultados = con[c].resultados
               /\ q.respuestas = con[c].respuestas
               /\ q.pc.srv = "confirma" /\ con[c].pc.srv = "saluda" /\ ~PorAbrir(con[c])
  BY <1>1, PasoSaludar
<1>4. Suelta(c, q, con[c])
  BY <1>3 DEF Suelta
<1>5. DumpIntegro'
  BY <1>2, DumpsIguales DEF Inv
<1>6. Inv' /\ con'[c] = q /\ \A d \in Conexiones \ {c} : con'[d] = con[d]
  BY <1>2, <1>3, <1>4, <1>5, InvUno
<1>7. Igual
  BY <1>2, <1>3, <1>6 DEF Igual
<1> QED BY <1>6, <1>7

LEMMA InvConfirmar ==
  ASSUME SinPartir, Inv, NEW c \in Conexiones, Confirmar(c)
  PROVE  Inv' /\ Igual
<1>1. con[c] \in Registro /\ Fase(c, con[c])
  BY DeInv
<1>2. UNCHANGED <<guardado, fallo>> /\ acepta' = [acepta EXCEPT ![Servidor(c)] = NULO]
  BY DEF Confirmar
<1>3. PICK q : /\ con' = [con EXCEPT ![c] = q] /\ q \in Registro /\ Fase(c, q)
               /\ MismaCuenta(q, con[c])
               /\ q.pc.srv = "op" /\ con[c].pc.srv = "confirma" /\ ~PorAbrir(con[c])
  BY <1>1, PasoConfirmar
<1>4. Suelta(c, q, con[c])
  BY <1>3 DEF Suelta
<1>5. Sesiones' /\ con'[c] = q /\ \A d \in Conexiones \ {c} : con'[d] = con[d]
  BY <1>3, UnaSesion DEF Inv
<1>6. Enlace'
  BY <1>4, <1>5, EnlaceUno DEF Inv
<1>7. Atiende'
  BY <1>2, <1>5, AtiendeSuelta DEF Inv
<1>8. Igual
  BY <1>2, <1>3, <1>5 DEF Igual, MismaCuenta
<1> QED BY <1>2, <1>5, <1>6, <1>7, <1>8, DumpsIguales DEF Inv

-----------------------------------------------------------------------------
(* The requests.                                                           *)

\* A request that is carried out on its own connection
LEMMA InvContestado ==
  ASSUME Inv, NEW c \in Conexiones, c \notin DOMAIN DumpDe, Pidiendo(c, con[c]),
         con[c].pc.srv = "procesa", NEW a, NEW q,
         con' = [con EXCEPT ![c] = q], Contestado(c, q, con[c], a),
         UNCHANGED <<acepta, fallo>>, DumpIntegro'
  PROVE  /\ Inv' /\ con'[c] = q
         /\ \A d \in Conexiones \ {c} : con'[d] = con[d]
<1>1. Suelta(c, q, con[c])
  BY DEF Suelta, PorAbrir
<1>2. q \in Registro /\ Fase(c, q)
  BY DEF Contestado
<1> QED BY <1>1, <1>2, InvUno

\* one of a client
LEMMA HacerContestado ==
  ASSUME Inv, NEW c \in Externas, c \notin DOMAIN DumpDe, Pidiendo(c, con[c]),
         NEW a \in Respuestas(Guion[c][con[c].pedidas]), NEW q, Contestado(c, q, con[c], a),
         con'[c] = q, \A d \in Conexiones \ {c} : con'[d] = con[d], UNCHANGED guardado
  PROVE  [L!Next]_(L!vars)
<1>1. \A e \in Externas : e \in Conexiones
  BY DEF Externas, Conexiones
<1>2. /\ Hechas(c) = con[c].resultados /\ Hechas(c)' = q.resultados
      /\ q.pedidas = con[c].pedidas /\ q.respuestas = con[c].respuestas
      /\ q.resultados = Append(con[c].resultados, a)
  BY DEF Hechas, Contestado
<1>3. \A e \in Externas \ {c} : Hechas(e)' = Hechas(e)
  <2>1. \A e \in DOMAIN DumpDe : DumpDe[e] \in Conexiones \ {c}
    BY DumpDeQuien
  <2> QED BY <1>1, <2>1 DEF Hechas
<1>4. Len(Hechas(c)) < con[c].pedidas
  <2>1. con[c].pedidas \in Nat /\ Len(con[c].resultados) = con[c].pedidas - 1
    BY <1>1, DeInv DEF Registro, Pidiendo
  <2> QED BY <1>2, <2>1
<1>5. EnDisco(c) = {}
  BY DEF EnDisco
<1>6. L!Hacer(c)
  <2>1. \A e \in Externas : con'[e].pedidas = con[e].pedidas /\ con'[e].respuestas = con[e].respuestas
    BY <1>1, <1>2
  <2>2. guardado' = IF a.op = "SUCCESS" THEN guardado \cup EnDisco(c) ELSE guardado
    BY <1>5
  <2>3. Hechas(c)' = Append(Hechas(c), a)
    BY <1>2
  <2> QED BY <1>3, <1>4, <2>1, <2>2, <2>3, EsHacer
<1> QED BY <1>6, PasoLlamadas

LEMMA InvProcesarCpu ==
  ASSUME SinPartir, Inv, NEW c \in Conexiones, ProcesarCpu(c)
  PROVE  Inv' /\ [L!Next]_(L!vars)
<1>1. con[c] \in Registro /\ Fase(c, con[c])
  BY DeInv
<1>2. UNCHANGED <<acepta, guardado, fallo>> /\ c \in DeCpu /\ con[c].pc.srv = "procesa"
  BY DEF ProcesarCpu, En
<1>3. c \in Externas /\ c \notin DOMAIN DumpDe
  BY <1>2, DumpDeQuien DEF Externas
<1>4. Pidiendo(c, con[c])
  BY <1>1, PasoProcesarCpu
<1>5. PICK a, q :
               /\ a \in Respuestas(Guion[c][con[c].pedidas])
               /\ con' = [con EXCEPT ![c] = q] /\ Contestado(c, q, con[c], a)
  BY <1>1, PasoProcesarCpu
<1>6. DumpIntegro'
  BY <1>2, DumpsIguales DEF Inv
<1>7. Inv' /\ con'[c] = q /\ \A d \in Conexiones \ {c} : con'[d] = con[d]
  BY <1>2, <1>3, <1>4, <1>5, <1>6, InvContestado
<1>8. [L!Next]_(L!vars)
  BY <1>2, <1>3, <1>4, <1>5, <1>7, HacerContestado
<1> QED BY <1>7, <1>8

LEMMA InvProcesarKernel ==
  ASSUME SinPartir, Inv, NEW c \in Conexiones, ProcesarKernel(c), c \notin DOMAIN DumpDe
  PROVE  Inv' /\ [L!Next]_(L!vars)
<1>1. con[c] \in Registro /\ Fase(c, con[c])
  BY DeInv
<1>2. Pidiendo(c, con[c]) /\ c \in DeKernel /\ con[c].pc.srv = "procesa"
  BY <1>1, PasoProcesarKernel
<1>3. c \in Externas
  BY <1>2 DEF Externas
<1>4. PICK a, q :
               /\ a \in Respuestas(Guion[c][con[c].pedidas])
               /\ con' = [con EXCEPT ![c] = q] /\ Contestado(c, q, con[c], a)
               /\ UNCHANGED <<acepta, guardado, fallo>>
  BY <1>1, PasoProcesarKernel
<1>5. DumpIntegro'
  BY <1>4, DumpsIguales DEF Inv
<1>6. Inv' /\ con'[c] = q /\ \A d \in Conexiones \ {c} : con'[d] = con[d]
  BY <1>2, <1>4, <1>5, InvContestado
<1>7. [L!Next]_(L!vars)
  BY <1>2, <1>3, <1>4, <1>6, HacerContestado
<1> QED BY <1>6, <1>7


\* The two connections of a dump change together.
LEMMA EnlaceDos ==
  ASSUME Enlace, NEW c \in DOMAIN DumpDe,
         \A e \in Conexiones \ {c, DumpDe[c]} : con'[e] = con[e],
         con'[c].pc.srv \in {"espera", "fin"},
         con'[c].pc.srv = "fin" => /\ con'[DumpDe[c]].pc.srv = "fin"
                                   /\ con'[c].resultados = con'[DumpDe[c]].resultados
  PROVE  Enlace'
<1> DEFINE d == DumpDe[c]
<1>1. \A e \in DOMAIN DumpDe \ {c} :
         /\ con'[e] = con[e] /\ con'[DumpDe[e]] = con[DumpDe[e]] /\ DumpDe[e] # d
  <2>1. ASSUME NEW e \in DOMAIN DumpDe \ {c}
        PROVE  /\ e \in Conexiones \ {c, d} /\ DumpDe[e] \in Conexiones \ {c, d}
               /\ DumpDe[e] # d
    <3>1. /\ e \in Conexiones /\ e \notin DeDump /\ DumpDe[e] \in Conexiones /\ DumpDe[e] \in DeDump
          /\ c \notin DeDump /\ d \in DeDump
      BY <2>1, DumpDeQuien
    <3>2. DumpDe[e] # d
      BY <2>1, GuionesComunicaciones
    <3> QED BY <2>1, <3>1, <3>2
  <2> QED BY <2>1
<1>2. ASSUME NEW f \in DeDump
      PROVE  \/ PorAbrir(con'[f])
             \/ \E e \in DOMAIN DumpDe : DumpDe[e] = f /\ con'[e].pc.srv \in {"espera", "fin"}
  <2>1. CASE f = d
    BY <2>1
  <2>2. CASE f # d
    <3>1. f \in Conexiones \ {c, d}
      <4>1. c \notin DeDump
        BY DumpDeQuien
      <4> QED BY <2>2, <4>1 DEF Conexiones
    <3>2. con'[f] = con[f]
      BY <3>1
    <3>3. CASE PorAbrir(con[f])
      BY <3>2, <3>3
    <3>4. CASE ~PorAbrir(con[f])
      <4>1. PICK e \in DOMAIN DumpDe : DumpDe[e] = f /\ con[e].pc.srv \in {"espera", "fin"}
        BY <3>4 DEF Enlace
      <4>2. e # c
        BY <2>2, <4>1
      <4> QED BY <1>1, <4>1, <4>2
    <3> QED BY <3>3, <3>4
  <2> QED BY <2>1, <2>2
<1>3. ASSUME NEW e \in DOMAIN DumpDe, con'[e].pc.srv = "fin"
      PROVE  /\ con'[DumpDe[e]].pc.srv = "fin"
             /\ con'[e].resultados = con'[DumpDe[e]].resultados
  <2>1. CASE e = c
    BY <1>3, <2>1
  <2>2. CASE e # c
    <3>1. con'[e] = con[e] /\ con'[DumpDe[e]] = con[DumpDe[e]]
      BY <1>1, <2>2
    <3> QED BY <1>3, <3>1 DEF Enlace
  <2> QED BY <2>1, <2>2
<1> QED BY <1>2, <1>3 DEF Enlace, PorAbrir, Callada

LEMMA InvDelegar ==
  ASSUME SinPartir, Inv, NEW c \in DOMAIN DumpDe, ProcesarKernel(c)
  PROVE  Inv' /\ Igual
<1> DEFINE d == DumpDe[c]
<1>1. c \in Conexiones /\ d \in Conexiones /\ d # c /\ d \in DeDump
  BY DumpDeQuien
<1>2. con[c].pc.srv = "procesa"
  BY DEF ProcesarKernel, En
<1>3. PorAbrir(con[d])
  <2>1. SUFFICES ASSUME ~PorAbrir(con[d]) PROVE FALSE
    OBVIOUS
  <2>2. PICK e \in DOMAIN DumpDe : DumpDe[e] = d /\ con[e].pc.srv \in {"espera", "fin"}
    BY <1>1, <2>1 DEF Inv, Enlace
  <2>3. e = c
    BY <2>2, GuionesComunicaciones
  <2> QED BY <1>2, <2>2, <2>3
<1>4. UNCHANGED <<acepta, guardado, fallo>>
  BY <1>3, PasoDelegar DEF Inv
<1>5. PICK q \in Registro, z \in Registro :
               /\ con' = [con EXCEPT ![c] = q, ![d] = z]
               /\ Fase(c, q) /\ Fase(d, z)
               /\ MismaCuenta(q, con[c]) /\ q.pc.srv = "espera"
               /\ z.pc.srv = "cola" /\ z.resultados = con[d].resultados
               /\ z.pedidas = con[d].pedidas /\ z.respuestas = con[d].respuestas
  BY <1>3, PasoDelegar DEF Inv
<1>6. /\ Sesiones' /\ con'[c] = q /\ con'[d] = z
      /\ \A e \in Conexiones \ {c, d} : con'[e] = con[e]
  BY <1>1, <1>5, DosSesiones DEF Inv
<1>7. Enlace'
  BY <1>5, <1>6, EnlaceDos DEF Inv
<1>8. Atiende'
  <2>1. con[d].pc.srv = "no"
    BY <1>3 DEF PorAbrir
  <2>2. \A e \in Conexiones : con[e].pc.srv \in {"saluda", "confirma"}
                                 => con'[e].pc.srv \in {"saluda", "confirma"}
    BY <1>2, <1>6, <2>1
  <2> QED BY <1>4, <2>2, AtiendeQueda DEF Inv
<1>9. Igual
  BY <1>4, <1>5, <1>6 DEF Igual, MismaCuenta
<1> QED BY <1>4, <1>6, <1>7, <1>8, <1>9, DumpsIguales DEF Inv

LEMMA InvPasarRespuesta ==
  ASSUME SinPartir, Inv, NEW c \in DOMAIN DumpDe, PasarRespuesta(c)
  PROVE  Inv' /\ [L!Next]_(L!vars)
<1> DEFINE d == DumpDe[c]
<1>1. c \in Conexiones /\ d \in Conexiones /\ d # c /\ d \in DeDump /\ d \notin Externas
  BY DumpDeQuien
<1>2. /\ con[c].pc.srv = "espera" /\ con[d].pc.srv = "fin" /\ UNCHANGED <<acepta, guardado, fallo>>
  BY PasoPasarRespuesta DEF Inv
<1>3. PICK q \in Registro, z \in Registro :
               /\ con' = [con EXCEPT ![c] = q, ![d] = z]
               /\ Fase(c, q) /\ Fase(d, z)
               /\ q.pedidas = con[c].pedidas /\ q.respuestas = con[c].respuestas
               /\ q.pc.srv = "fin" /\ q.resultados = con[d].resultados
               /\ z.pc.srv = "fin" /\ z.resultados = con[d].resultados
  BY PasoPasarRespuesta DEF Inv
<1>4. /\ Sesiones' /\ con'[c] = q /\ con'[d] = z
      /\ \A e \in Conexiones \ {c, d} : con'[e] = con[e]
  BY <1>1, <1>3, DosSesiones DEF Inv
<1>5. Enlace'
  BY <1>3, <1>4, EnlaceDos DEF Inv
<1>6. Atiende'
  <2>1. \A e \in Conexiones : con[e].pc.srv \in {"saluda", "confirma"}
                                 => con'[e].pc.srv \in {"saluda", "confirma"}
    BY <1>2, <1>4
  <2> QED BY <1>2, <2>1, AtiendeQueda DEF Inv
<1>7. UNCHANGED L!vars
  <2>1. \A e \in Externas : e \in Conexiones /\ e # d
    BY <1>1 DEF Externas, Conexiones
  <2>2. \A e \in Externas : con'[e].pedidas = con[e].pedidas /\ con'[e].respuestas = con[e].respuestas
    BY <1>3, <1>4, <2>1
  <2>3. \A e \in Externas : Hechas(e)' = Hechas(e)
    <3>1. \A e \in DOMAIN DumpDe : DumpDe[e] \in Conexiones \ {c}
      <4>1. c \notin DeDump
        BY DumpDeQuien
      <4> QED BY <4>1, DumpDeQuien
    <3>2. \A e \in Conexiones \ {c} : con'[e].resultados = con[e].resultados
      BY <1>3, <1>4
    <3> QED BY <2>1, <3>1, <3>2 DEF Hechas
  <2> QED BY <1>2, <2>2, <2>3 DEF L!vars
<1> QED BY <1>2, <1>4, <1>5, <1>6, <1>7, DumpsIguales DEF Inv

LEMMA InvProcesarDump ==
  ASSUME SinPartir, Inv, NEW d \in Conexiones, ProcesarDump(d)
  PROVE  Inv' /\ [L!Next]_(L!vars)
<1>1. con[d] \in Registro /\ Fase(d, con[d])
  BY DeInv
<1>2. Pidiendo(d, con[d]) /\ d \in DeDump /\ con[d].pc.srv = "procesa" /\ d \notin DOMAIN DumpDe
  BY <1>1, PasoProcesarDump, DumpDeQuien
<1>3. PICK a, q :
               /\ a \in Respuestas(Guion[d][1])
               /\ con' = [con EXCEPT ![d] = q] /\ Contestado(d, q, con[d], a)
               /\ guardado' = IF a.op = "SUCCESS" THEN guardado \cup {Guion[d][1].campos}
                              ELSE guardado
               /\ UNCHANGED <<acepta, fallo>>
  BY <1>1, PasoProcesarDump
<1>4. DumpIntegro'
  BY <1>2, <1>3 DEF Inv, DumpIntegro
<1>5. Inv' /\ con'[d] = q /\ \A e \in Conexiones \ {d} : con'[e] = con[e]
  BY <1>2, <1>3, <1>4, InvContestado
\* the request that waits for it
<1>6. PICK c \in DOMAIN DumpDe : DumpDe[c] = d /\ con[c].pc.srv \in {"espera", "fin"}
  BY <1>2 DEF Inv, Enlace, PorAbrir
<1>7. con[c].pc.srv = "espera"
  BY <1>2, <1>6 DEF Inv, Enlace
<1>8. c \in Conexiones /\ c \in Externas /\ Guion[c][1].op = "MEMORY_DUMP" /\ Guion[d][1].op = "MEMORY_DUMP"
  BY <1>6, DumpDeQuien
<1>9. con[c].pedidas = 1
  <2>1. Delegando(c, con[c])
    <3>1. Fase(c, con[c])
      BY <1>8, DeInv
    <3> QED BY <1>7, <3>1
        DEF Fase, PorAbrir, Saludandose, Libre, Pidiendo, Respondiendo, Terminada, Recepcion
  <2> QED BY <2>1 DEF Delegando
<1>10. Hechas(c) = con[d].resultados /\ Hechas(c)' = Append(Hechas(c), a)
  BY <1>3, <1>5, <1>6 DEF Hechas, Contestado
<1>11. Len(Hechas(c)) < con[c].pedidas
  <2>1. con[d].pedidas = 1
    BY <1>1, <1>2, EnProceso, ConstantesComunicaciones DEF Externas
  <2> QED BY <1>2, <1>9, <1>10, <2>1 DEF Pidiendo
<1>12. a \in Respuestas(Guion[c][con[c].pedidas]) /\ EnDisco(c) = {Guion[d][1].campos}
  <2>1. Respuestas(Guion[c][1]) = Respuestas(Guion[d][1])
    BY <1>8, RespuestasDe
  <2> QED BY <1>3, <1>6, <1>9, <2>1 DEF EnDisco
<1>13. \A e \in Externas \ {c} : Hechas(e)' = Hechas(e)
  <2>1. \A e \in DOMAIN DumpDe \ {c} : DumpDe[e] \in Conexiones \ {d}
    BY <1>6, DumpDeQuien, GuionesComunicaciones
  <2>2. \A e \in Externas : e \in Conexiones \ {d}
    BY <1>2, ConstantesComunicaciones DEF Externas, Conexiones
  <2> QED BY <1>5, <2>1, <2>2 DEF Hechas
<1>14. \A e \in Externas : con'[e].pedidas = con[e].pedidas /\ con'[e].respuestas = con[e].respuestas
  <2>1. \A e \in Externas : e \in Conexiones \ {d}
    BY <1>2, ConstantesComunicaciones DEF Externas, Conexiones
  <2> QED BY <1>5, <2>1
<1>15. L!Hacer(c)
  BY <1>3, <1>8, <1>10, <1>11, <1>12, <1>13, <1>14, EsHacer
<1> QED BY <1>5, <1>8, <1>15, PasoLlamadas


-----------------------------------------------------------------------------
(* The invariant.                                                          *)

LEMMA InvInit ==
  ASSUME SinPartir, Init
  PROVE  Inv /\ L!Init
<1>1. \A c \in Conexiones : con[c] = Nueva
  BY DEF Init
<1>2. Nueva \in Registro
  <2>1. /\ Nada \in [op : Dato, tamanio : Dato, datos : Seq(Byte)]
        /\ BASURA \in Dato /\ "no" \in Etiquetas
    <3>1. Numero(0) \in Dato /\ BASURA \in Dato
      BY EsNumero DEF Dato
    <3>2. <<"op", "MENSAJE">> \in Dato
      BY ConstantesComunicaciones DEF Dato
    <3>3. <<>> \in Seq(Byte)
      BY EmptySeq
    <3> HIDE DEF Dato, Byte
    <3> QED BY <3>1, <3>2, <3>3 DEF Nada, Etiquetas
  <2>2. <<>> \in Seq(Byte) /\ <<>> \in Seq(Paquete)
    BY EmptySeq
  <2> DEFINE R == [op : Dato, tamanio : Dato, datos : Seq(Byte)]
             P == Seq(Paquete)
             B == Seq(Byte)
             D == Dato
             n == Nada
             x == BASURA
  <2>3. n \in R /\ <<>> \in P /\ <<>> \in B /\ x \in D
    BY <2>1, <2>2
  <2>4. Nueva = [ent |-> [cli |-> <<>>, srv |-> <<>>], cerro |-> {},
          pc |-> [cli |-> "no", srv |-> "no"], rx |-> [cli |-> n, srv |-> n],
          quien |-> x, pedidas |-> 0, resultados |-> <<>>, respuestas |-> <<>>]
    BY DEF Nueva
  <2>5. Registro = [ent : [Lados -> B], cerro : SUBSET Lados, pc : [Lados -> Etiquetas],
             rx : [Lados -> R], quien : D, pedidas : Nat, resultados : P, respuestas : P]
    BY DEF Registro
  <2> HIDE DEF n, x, R, P, B, D
  <2>6. /\ [cli |-> <<>>, srv |-> <<>>] \in [Lados -> B] /\ [cli |-> n, srv |-> n] \in [Lados -> R]
        /\ [cli |-> "no", srv |-> "no"] \in [Lados -> Etiquetas]
    BY <2>1, <2>3 DEF Lados
  <2> QED BY <2>3, <2>4, <2>5, <2>6
<1>3. ASSUME NEW c \in Conexiones
      PROVE  Fase(c, con[c]) /\ PorAbrir(con[c])
  <2>1. con[c] = Nueva
    BY <1>1
  <2>2. PorAbrir(Nueva) /\ Nueva.cerro = {} /\ Nueva.resultados = <<>>
    BY DEF Nueva, PorAbrir, Callada
  <2>3. Nueva.pc["cli"] # "fin" /\ Nueva.pc["srv"] # "fin"
    BY DEF Nueva
  <2>4. Nueva.cerro = {l \in Lados : Nueva.pc[l] = "fin"}
    BY <1>2, <2>2, <2>3, FinNinguno
  <2>5. Fase(c, Nueva)
    BY <2>2, <2>4 DEF Fase
  <2> QED BY <2>1, <2>2, <2>5
<1>4. Sesiones
  BY <1>2, <1>3 DEF Init, Sesiones
<1>5. Enlace
  <2>1. \A d \in DeDump : d \in Conexiones
    BY DEF Conexiones
  <2>2. \A c \in DOMAIN DumpDe : con[c].pc.srv = "no"
    BY <1>3, DumpDeQuien DEF PorAbrir
  <2> QED BY <1>3, <2>1, <2>2 DEF Enlace
<1>6. Atiende
  BY DEF Init, Atiende
<1>7. fallo = "ninguno" /\ DumpIntegro
  BY DEF Init, DumpIntegro
<1>8. L!Init
  <2>1. \A c \in Externas : con[c].pedidas = 0 /\ con[c].respuestas = <<>>
    BY <1>3 DEF PorAbrir, Externas, Conexiones
  <2>2. \A c \in Externas : Hechas(c) = <<>>
    BY <1>3, DumpDeQuien DEF Hechas, PorAbrir, Externas, Conexiones
  <2>3. guardado = {}
    BY DEF Init
  <2> QED BY <2>1, <2>2, <2>3 DEF L!Init
<1> QED BY <1>4, <1>5, <1>6, <1>7, <1>8 DEF Inv

LEMMA InvQuieto ==
  ASSUME Inv, UNCHANGED vars
  PROVE  Inv' /\ UNCHANGED L!vars
<1>1. UNCHANGED <<con, acepta, guardado, fallo>>
  BY DEF vars
<1>2. Sesiones'
  BY <1>1 DEF Inv, Sesiones, Fase, PorAbrir, Saludandose, Libre, Pidiendo, Delegando, Respondiendo,
     Terminada, Recibiendo, Callada
<1>3. Enlace' /\ Atiende' /\ fallo' = "ninguno" /\ DumpIntegro'
  BY <1>1 DEF Inv, Enlace, Atiende, DumpIntegro, PorAbrir, Callada
<1>4. Igual
  BY <1>1 DEF Igual
<1> QED BY <1>2, <1>3, <1>4, IgualEsQuieto DEF Inv

LEMMA InvNext ==
  ASSUME SinPartir, Inv, [Next]_vars
  PROVE  Inv' /\ [L!Next]_(L!vars)
<1>1. "cli" \in Lados /\ "srv" \in Lados
  BY DEF Lados
<1>2. CASE UNCHANGED vars
  BY <1>2, InvQuieto
<1>3. ASSUME NEW c \in Conexiones, Cliente(c)
      PROVE  Inv' /\ [L!Next]_(L!vars)
  <2>1. CASE Conectar(c)
    BY <2>1, InvConectar, IgualEsQuieto
  <2>2. CASE Validar(c)
    BY <2>2, InvValidar, IgualEsQuieto
  <2>3. CASE Pedir(c)
    BY <2>3, InvPedir
  <2>4. CASE Leer(c)
    BY <2>4, InvLeer
  <2>5. CASE RecibirOp(c, "cli") \/ RecibirTamanio(c, "cli") \/ RecibirDatos(c, "cli")
    BY <1>1, <2>5, InvRecibir, IgualEsQuieto
  <2> QED BY <1>3, <2>1, <2>2, <2>3, <2>4, <2>5 DEF Cliente
<1>4. ASSUME NEW c \in Conexiones, Atencion(c)
      PROVE  Inv' /\ [L!Next]_(L!vars)
  <2>1. CASE RecibirOp(c, "srv") \/ RecibirTamanio(c, "srv") \/ RecibirDatos(c, "srv")
    BY <1>1, <2>1, InvRecibir, IgualEsQuieto
  <2>2. CASE ProcesarKernel(c) /\ c \in DOMAIN DumpDe
    BY <2>2, InvDelegar, IgualEsQuieto
  <2>3. CASE ProcesarKernel(c) /\ c \notin DOMAIN DumpDe
    BY <2>3, InvProcesarKernel
  <2>4. CASE PasarRespuesta(c)
    <3>1. c \in DOMAIN DumpDe
      BY <2>4 DEF PasarRespuesta
    <3> QED BY <2>4, <3>1, InvPasarRespuesta
  <2>5. CASE ProcesarCpu(c)
    BY <2>5, InvProcesarCpu
  <2>6. CASE ProcesarDump(c)
    BY <2>6, InvProcesarDump
  <2> QED BY <1>4, <2>1, <2>2, <2>3, <2>4, <2>5, <2>6 DEF Atencion
<1>5. ASSUME NEW s \in Servidores, Aceptacion(s)
      PROVE  Inv' /\ [L!Next]_(L!vars)
  <2>1. PICK c \in Conexiones : Aceptar(c) \/ Saludar(c) \/ Confirmar(c)
    BY <1>5 DEF Aceptacion
  <2>2. CASE Aceptar(c)
    BY <2>2, InvAceptar, IgualEsQuieto
  <2>3. CASE Saludar(c)
    BY <2>3, InvSaludar, IgualEsQuieto
  <2>4. CASE Confirmar(c)
    BY <2>4, InvConfirmar, IgualEsQuieto
  <2> QED BY <2>1, <2>2, <2>3, <2>4
<1> QED BY <1>2, <1>3, <1>4, <1>5 DEF Next

LEMMA InvSiempre ==
  ASSUME SinPartir
  PROVE  Spec => []Inv
<1>1. Init => Inv
  BY InvInit
<1>2. Inv /\ [Next]_vars => Inv'
  BY InvNext
<1> QED BY <1>1, <1>2, PTL DEF Spec

LEMMA InvDaTipo ==
  ASSUME SinPartir, Inv
  PROVE  TypeOK
<1>1. ASSUME NEW c \in Conexiones
      PROVE  /\ con[c].pc.cli \in Etiquetas /\ con[c].pc.srv \in Etiquetas
             /\ con[c].cerro \subseteq {"cli", "srv"}
             /\ con[c].pedidas \in 0..Len(Guion[c])
  <2>1. con[c] \in Registro /\ Fase(c, con[c]) /\ Len(Guion[c]) \in Nat
    BY DeInv DEF SinPartir
  <2>2. con[c].pc.cli \in Etiquetas /\ con[c].pc.srv \in Etiquetas /\ con[c].cerro \subseteq {"cli", "srv"}
    BY <2>1 DEF Registro, Lados
  <2>3. con[c].pedidas \in 0..Len(Guion[c])
    <3>1. DOMAIN Guion[c] = 1..Len(Guion[c])
      BY DEF SinPartir
    <3>2. c \notin DeCpu => Len(Guion[c]) = 1
      BY GuionesComunicaciones DEF Conexiones
    <3>3. CASE PorAbrir(con[c])
      BY <2>1, <3>3 DEF PorAbrir
    <3>4. CASE Saludandose(c, con[c])
      BY <2>1, <3>1, <3>4 DEF Saludandose
    <3>5. CASE Libre(c, con[c]) \/ Pidiendo(c, con[c]) \/ Respondiendo(c, con[c])
      BY <2>1, <3>5 DEF Libre, Pidiendo, Respondiendo
    <3>6. CASE Delegando(c, con[c]) \/ Terminada(c, con[c])
      <4>1. con[c].pedidas = 1 /\ c \notin DeCpu
        BY <3>6, DumpDeQuien DEF Delegando, Terminada
      <4>2. Len(Guion[c]) = 1 /\ 1 \in 0..1
        BY <3>2, <4>1
      <4> QED BY <4>1, <4>2, Zenon
    <3> QED BY <2>1, <3>3, <3>4, <3>5, <3>6 DEF Fase
  <2> QED BY <2>2, <2>3
<1> QED BY <1>1 DEF TypeOK, Inv, Atiende

LEMMA InvDaEncuadre ==
  ASSUME SinPartir, Inv
  PROVE  Encuadre
<1>1. ASSUME NEW c \in Conexiones, NEW l \in Lados, con[c].pc[l] = "procesa"
      PROVE  Recibido(c, l) = Que(c, con[c], l) /\ con[c].ent[l] = <<>>
  BY <1>1, DeInv, LoRecibido
<1>2. "cli" \in Lados /\ "srv" \in Lados /\ Lados = {"cli", "srv"}
  BY DEF Lados
<1> QED BY <1>1, <1>2 DEF Encuadre, Que

-----------------------------------------------------------------------------
(* The theorems.                                                           *)

(* The connections have their type and each accept thread is busy only     *)
(* with a connection of its server, in its handshake (servidor_memoria.c,  *)
(* servidor.c), whatever the scripts.                                      *)
THEOREM ComTypeOK ==
  ASSUME SinPartir
  PROVE  Spec => []TypeOK
<1>1. Inv => TypeOK
  BY InvDaTipo
<1> QED BY <1>1, InvSiempre, PTL

(* Both sides split the stream at the same bytes: what is processed is the *)
(* packet that was sent, field by field (comunications.c, paquete.c,       *)
(* buffer.c), for every script, of fields of any size, when no packet is   *)
(* delivered in parts.                                                     *)
THEOREM ComEncuadre ==
  ASSUME SinPartir
  PROVE  Spec => []Encuadre
<1>1. Inv => Encuadre
  BY InvDaEncuadre
<1> QED BY <1>1, InvSiempre, PTL

(* Every step of the handshakes, the streams and the threads is a step of  *)
(* Llamadas or none: each request is carried out once, after it was made,  *)
(* and its client reads what came of it.                                   *)
THEOREM ComCumpleLlamadas ==
  ASSUME SinPartir
  PROVE  Spec => CumpleLlamadas
<1>1. Init => L!Init
  BY InvInit
<1>2. Inv /\ [Next]_vars => [L!Next]_(L!vars)
  BY InvNext
<1> QED BY <1>1, <1>2, InvSiempre, PTL DEF Spec, CumpleLlamadas, L!Spec
=============================================================================
