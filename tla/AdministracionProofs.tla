------------------------ MODULE AdministracionProofs ------------------------
(***************************************************************************)
(* Three of the promises of the back office, for every number of records,  *)
(* requests and clicks: a form that is being sent is not sent again, the   *)
(* history of the sales shows none as annulled that is not, and a till     *)
(* that was counted rightly is closed without a difference.  The fourth,   *)
(* that its pages show what the backend keeps, is proved in                *)
(* AdministracionAlDia; what it needs of all the pages, and of the six     *)
(* that show a table, is the last part of this module.                     *)
(*                                                                         *)
(* The first needs, page by page, more than it says: at most one request   *)
(* of the page holds the flag of a form, and none while the flag is down,  *)
(* where a request holds the flag when it is the submission or what the    *)
(* handler asks for after it, before its finally.  The requests of a page  *)
(* that was left hold nothing.  The requests of the session hold their     *)
(* flag too while they wait for the new tokens.  The first part counts the *)
(* requests that hold a flag in a sequence; every handler of a page is     *)
(* then one of a few steps of that count.                                  *)
(*                                                                         *)
(* The other two need that what is on its way was true once, of a backend  *)
(* that only goes forward: no sale is un-annulled, no session loses one.   *)
(***************************************************************************)
EXTENDS Administracion, SequenceTheorems, FiniteSetTheorems, TLAPS

-----------------------------------------------------------------------------
\* The members of a sequence that satisfy something, and how many.

LEMMA Biyeccion ==
    ASSUME NEW K, IsFiniteSet(K), NEW M, NEW f \in [M -> K],
           \A x, y \in M : f[x] = f[y] => x = y,
           \A k \in K : \E x \in M : f[x] = k
    PROVE  IsFiniteSet(M) /\ Cardinality(M) = Cardinality(K)
<1> DEFINE g == [k \in K |-> CHOOSE x \in M : f[x] = k]
<1>1. \A k \in K : g[k] \in M /\ f[g[k]] = k
  OBVIOUS
<1>2. ExistsBijection(K, M)
  <2> g \in [K -> M]
    BY <1>1
  <2> HIDE DEF g
  <2>1. g \in Injection(K, M)
    BY <1>1 DEF Injection, IsInjective
  <2>2. g \in Surjection(K, M)
    BY <1>1 DEF Surjection
  <2> QED BY <2>1, <2>2 DEF ExistsBijection, Bijection
<1> QED BY <1>2, FS_Bijection

LEMMA DelUnoAl ==
    ASSUME NEW n \in Nat, NEW K \in SUBSET (1 .. n)
    PROVE  IsFiniteSet(K) /\ Cardinality(K) \in Nat
<1>1. IsFiniteSet(1 .. n)
  BY FS_Interval
<1>2. IsFiniteSet(K)
  BY <1>1, FS_Subset
<1> QED BY <1>2, FS_CardinalityType

\* M is what stays of K when member i goes and the following move one place.
SeCorre(n, i, K, M) ==
    \A k \in 1 .. n - 1 : k \in M <=> (IF k < i THEN k ELSE k + 1) \in K

\* M is K and, after its n places, L.
SeJuntan(n, m, K, L, M) ==
    /\ \A k \in 1 .. n : k \in M <=> k \in K
    /\ \A k \in 1 .. m : n + k \in M <=> k \in L

LEMMA CuentaSin ==
    ASSUME NEW n \in Nat, NEW i \in 1 .. n, NEW K \in SUBSET (1 .. n),
           NEW M \in SUBSET (1 .. n - 1),
           SeCorre(n, i, K, M)
    PROVE  Cardinality(M) = Cardinality(K) - (IF i \in K THEN 1 ELSE 0)
<1> USE DEF SeCorre
<1> DEFINE f == [k \in M |-> IF k < i THEN k ELSE k + 1]
<1>1. f \in [M -> K \ {i}]
  OBVIOUS
<1>2. \A x, y \in M : f[x] = f[y] => x = y
  OBVIOUS
<1>3. ASSUME NEW k \in K \ {i} PROVE \E x \in M : f[x] = k
  <2>1. CASE k < i
    <3>1. k \in M /\ f[k] = k
      BY <2>1
    <3> QED BY <3>1
  <2>2. CASE k > i
    <3>1. k - 1 \in 1 .. n - 1 /\ ~(k - 1 < i) /\ k - 1 + 1 = k
      BY <2>2
    <3>2. k - 1 \in M /\ f[k - 1] = k
      BY <3>1
    <3> QED BY <3>2
  <2> QED BY <2>1, <2>2
<1> HIDE DEF f
<1>4. IsFiniteSet(K) /\ Cardinality(K) \in Nat
  BY DelUnoAl
<1>5. IsFiniteSet(K \ {i}) /\ Cardinality(K \ {i}) = Cardinality(K) - (IF i \in K THEN 1 ELSE 0)
  BY <1>4, FS_RemoveElement
<1> QED BY <1>1, <1>2, <1>3, <1>5, Biyeccion

LEMMA CuentaJunta ==
    ASSUME NEW n \in Nat, NEW m \in Nat, NEW K \in SUBSET (1 .. n), NEW L \in SUBSET (1 .. m),
           NEW M \in SUBSET (1 .. n + m),
           SeJuntan(n, m, K, L, M)
    PROVE  Cardinality(M) = Cardinality(K) + Cardinality(L)
<1> USE DEF SeJuntan
<1> DEFINE N == {k \in M : k > n}
           f == [k \in N |-> k - n]
<1>1. f \in [N -> L]
  <2> SUFFICES ASSUME NEW k \in N PROVE k - n \in L
    OBVIOUS
  <2>1. k - n \in 1 .. m /\ n + (k - n) = k
    OBVIOUS
  <2> QED BY <2>1
<1>2. \A x, y \in N : f[x] = f[y] => x = y
  OBVIOUS
<1>3. ASSUME NEW k \in L PROVE \E x \in N : f[x] = k
  <2>1. n + k \in N /\ f[n + k] = k
    OBVIOUS
  <2> QED BY <2>1
<1>4. M = K \cup N /\ K \cap N = {}
  <2> HIDE DEF f
  <2>1. ASSUME NEW k \in M PROVE k \in K \/ k \in N
    OBVIOUS
  <2>2. ASSUME NEW k \in K PROVE k \in M /\ k \notin N
    OBVIOUS
  <2> QED BY <2>1, <2>2
<1> HIDE DEF f, N
<1>5. IsFiniteSet(K) /\ IsFiniteSet(L) /\ Cardinality(K) \in Nat /\ Cardinality(L) \in Nat
  BY DelUnoAl
<1>6. IsFiniteSet(N) /\ Cardinality(N) = Cardinality(L)
  BY <1>1, <1>2, <1>3, <1>5, Biyeccion
<1>7. Cardinality(K \cup N) = Cardinality(K) + Cardinality(N) - Cardinality(K \cap N)
  BY <1>5, <1>6, FS_Union
<1>8. Cardinality({}) = 0
  BY FS_EmptySet
<1> QED BY <1>4, <1>5, <1>6, <1>7, <1>8

(* Sequences of anything.                                                  *)

Sucesion(s) == \E S : s \in Seq(S)

LEMMA SucesionLarga ==
    ASSUME NEW s, Sucesion(s)
    PROVE  Len(s) \in Nat /\ DOMAIN s = 1 .. Len(s)
<1>1. PICK S : s \in Seq(S)
  BY DEF Sucesion
<1> QED BY <1>1, LenProperties

LEMMA SucesionUna ==
    ASSUME NEW x
    PROVE  /\ Sucesion(<<>>) /\ DOMAIN <<>> = {}
           /\ Sucesion(<<x>>) /\ DOMAIN <<x>> = {1} /\ <<x>>[1] = x
<1>1. <<>> \in Seq({x}) /\ <<x>> \in Seq({x})
  OBVIOUS
<1>2. Sucesion(<<>>) /\ Sucesion(<<x>>)
  BY <1>1 DEF Sucesion
<1> QED BY <1>2

LEMMA SucesionJunta ==
    ASSUME NEW s, Sucesion(s), NEW t, Sucesion(t)
    PROVE  /\ Sucesion(s \o t)
           /\ DOMAIN (s \o t) = 1 .. Len(s) + Len(t)
           /\ \A k \in 1 .. Len(s) : (s \o t)[k] = s[k]
           /\ \A k \in 1 .. Len(t) : (s \o t)[Len(s) + k] = t[k]
<1>1. PICK S : s \in Seq(S)
  BY DEF Sucesion
<1>2. PICK T : t \in Seq(T)
  BY DEF Sucesion
<1>3. s \in Seq(S \cup T) /\ t \in Seq(S \cup T)
  BY <1>1, <1>2, SeqMonotonic
<1>4. Len(s) \in Nat /\ Len(t) \in Nat
  BY SucesionLarga
<1>5. /\ s \o t \in Seq(S \cup T) /\ Len(s \o t) = Len(s) + Len(t)
      /\ \A k \in 1 .. Len(s) + Len(t) : (s \o t)[k] = IF k <= Len(s) THEN s[k] ELSE t[k - Len(s)]
  BY <1>3, ConcatProperties
<1>6. Sucesion(s \o t) /\ DOMAIN (s \o t) = 1 .. Len(s) + Len(t)
  BY <1>5, LenProperties DEF Sucesion
<1>7. \A k \in 1 .. Len(s) : (s \o t)[k] = s[k]
  BY <1>4, <1>5
<1>8. ASSUME NEW k \in 1 .. Len(t) PROVE (s \o t)[Len(s) + k] = t[k]
  <2>1. Len(s) + k \in 1 .. Len(s) + Len(t) /\ ~(Len(s) + k <= Len(s)) /\ Len(s) + k - Len(s) = k
    BY <1>4
  <2> QED BY <1>5, <2>1
<1> QED BY <1>6, <1>7, <1>8

LEMMA SucesionSin ==
    ASSUME NEW s, Sucesion(s), NEW i \in DOMAIN s
    PROVE  /\ Sucesion(Sin(s, i))
           /\ DOMAIN Sin(s, i) = 1 .. Len(s) - 1
           /\ \A k \in 1 .. Len(s) - 1 : Sin(s, i)[k] = s[IF k < i THEN k ELSE k + 1]
<1> DEFINE a == SubSeq(s, 1, i - 1)
           b == SubSeq(s, i + 1, Len(s))
<1>1. PICK S : s \in Seq(S)
  BY DEF Sucesion
<1>2. Len(s) \in Nat /\ DOMAIN s = 1 .. Len(s) /\ i \in 1 .. Len(s)
      /\ \A k \in 1 .. Len(s) : s[k] \in S
  BY <1>1, SucesionLarga, ElementOfSeq
<1>3. /\ a \in Seq(S) /\ Len(a) = i - 1
      /\ \A k \in 1 .. i - 1 : a[k] = s[k]
  <2>1. /\ a \in Seq(S) /\ Len(a) = (IF 1 <= i - 1 THEN i - 1 - 1 + 1 ELSE 0)
        /\ \A k \in 1 .. i - 1 - 1 + 1 : a[k] = s[1 + k - 1]
    BY <1>2, SubSeqProperties
  <2>2. Len(a) = i - 1
    BY <1>2, <2>1
  <2>3. ASSUME NEW k \in 1 .. i - 1 PROVE a[k] = s[k]
    <3>1. k \in 1 .. i - 1 - 1 + 1 /\ 1 + k - 1 = k
      BY <1>2
    <3> QED BY <2>1, <3>1
  <2> QED BY <2>1, <2>2, <2>3
<1>4. /\ b \in Seq(S) /\ Len(b) = Len(s) - i
      /\ \A k \in 1 .. Len(s) - i : b[k] = s[k + i]
  <2>1. /\ b \in Seq(S) /\ Len(b) = (IF i + 1 <= Len(s) THEN Len(s) - (i + 1) + 1 ELSE 0)
        /\ \A k \in 1 .. Len(s) - (i + 1) + 1 : b[k] = s[i + 1 + k - 1]
    BY <1>2, SubSeqProperties
  <2>2. Len(b) = Len(s) - i
    BY <1>2, <2>1
  <2>3. ASSUME NEW k \in 1 .. Len(s) - i PROVE b[k] = s[k + i]
    <3>1. k \in 1 .. Len(s) - (i + 1) + 1 /\ i + 1 + k - 1 = k + i
      BY <1>2
    <3> QED BY <2>1, <3>1
  <2> QED BY <2>1, <2>2, <2>3
<1>5. Sin(s, i) = a \o b
  BY DEF Sin
<1> HIDE DEF a, b
<1>6. Sucesion(a) /\ Sucesion(b)
  BY <1>3, <1>4 DEF Sucesion
<1>7. /\ Sucesion(a \o b) /\ DOMAIN (a \o b) = 1 .. Len(a) + Len(b)
      /\ \A k \in 1 .. Len(a) : (a \o b)[k] = a[k]
      /\ \A k \in 1 .. Len(b) : (a \o b)[Len(a) + k] = b[k]
  BY <1>6, SucesionJunta
<1>8. Len(a) + Len(b) = Len(s) - 1
  BY <1>2, <1>3, <1>4
<1>9. ASSUME NEW k \in 1 .. Len(s) - 1 PROVE Sin(s, i)[k] = s[IF k < i THEN k ELSE k + 1]
  <2>1. CASE k < i
    <3>1. k \in 1 .. i - 1
      BY <1>2, <2>1
    <3> QED BY <1>3, <1>5, <1>7, <2>1, <3>1
  <2>2. CASE ~(k < i)
    <3>1. k - (i - 1) \in 1 .. Len(s) - i /\ (i - 1) + (k - (i - 1)) = k
          /\ k - (i - 1) + i = k + 1
      BY <1>2, <2>2
    <3>2. (a \o b)[(i - 1) + (k - (i - 1))] = b[k - (i - 1)]
      BY <1>3, <1>4, <1>7, <3>1
    <3> QED BY <1>4, <1>5, <2>2, <3>1, <3>2
  <2> QED BY <2>1, <2>2
<1> QED BY <1>5, <1>7, <1>8, <1>9

LEMMA SucesionMas ==
    ASSUME NEW s, Sucesion(s), NEW x
    PROVE  Append(s, x) = s \o <<x>>
<1>1. PICK S : s \in Seq(S)
  BY DEF Sucesion
<1>2. s \in Seq(S \cup {x})
  BY <1>1, SeqMonotonic
<1> QED BY <1>2, AppendIsConcat

LEMMA SucesionDe ==
    ASSUME NEW n \in Nat, NEW f, f = [k \in 1 .. n |-> f[k]]
    PROVE  Sucesion(f) /\ Len(f) = n
<1> DEFINE S == {f[k] : k \in 1 .. n}
<1>1. f \in [1 .. n -> S]
  <2> SUFFICES [k \in 1 .. n |-> f[k]] \in [1 .. n -> S]
    OBVIOUS
  <2> QED OBVIOUS
<1> HIDE DEF S
<1>2. f \in Seq(S)
  BY <1>1, SeqDef
<1> QED BY <1>1, <1>2, LenProperties DEF Sucesion

(* Requests that hold a flag: those of the operations G, and those that    *)
(* follow them, F.                                                         *)

Marcada(q, G, F) == q.viva = TRUE /\ (q.op \in G \/ <<q.op, q.tras>> \in F)
Peso(q, G, F) == IF Marcada(q, G, F) THEN 1 ELSE 0
Marcas(s, G, F) == {k \in DOMAIN s : Marcada(s[k], G, F)}
MarcasDe(s, G, F) == {k \in DOMAIN s : Marcada(s[k].q, G, F)}
Carga(s, G, F) == Cardinality(Marcas(s, G, F))
CargaDe(s, G, F) == Cardinality(MarcasDe(s, G, F))
EnCurso(G, F) == Carga(ida, G, F) + CargaDe(vuelta, G, F)

LEMMA CargaNatural ==
    ASSUME NEW s, Sucesion(s), NEW G, NEW F
    PROVE  Carga(s, G, F) \in Nat /\ CargaDe(s, G, F) \in Nat
<1>1. Len(s) \in Nat /\ DOMAIN s = 1 .. Len(s)
  BY SucesionLarga
<1>2. Marcas(s, G, F) \in SUBSET (1 .. Len(s)) /\ MarcasDe(s, G, F) \in SUBSET (1 .. Len(s))
  BY <1>1 DEF Marcas, MarcasDe
<1> QED BY <1>1, <1>2, DelUnoAl DEF Carga, CargaDe

LEMMA CargaUna ==
    ASSUME NEW q, NEW G, NEW F
    PROVE  /\ Carga(<<>>, G, F) = 0 /\ CargaDe(<<>>, G, F) = 0
           /\ Carga(<<q>>, G, F) = Peso(q, G, F)
<1>1. Marcas(<<>>, G, F) = {} /\ MarcasDe(<<>>, G, F) = {}
  BY SucesionUna DEF Marcas, MarcasDe
<1>2. Marcas(<<q>>, G, F) = IF Marcada(q, G, F) THEN {1} ELSE {}
  BY SucesionUna DEF Marcas
<1>3. Cardinality({}) = 0 /\ Cardinality({1}) = 1
  BY FS_EmptySet, FS_Singleton
<1> QED BY <1>1, <1>2, <1>3 DEF Carga, CargaDe, Peso

LEMMA CargaJunta ==
    ASSUME NEW s, Sucesion(s), NEW t, Sucesion(t), NEW G, NEW F
    PROVE  Carga(s \o t, G, F) = Carga(s, G, F) + Carga(t, G, F)
<1> DEFINE K == Marcas(s, G, F)
           L == Marcas(t, G, F)
           M == Marcas(s \o t, G, F)
<1>1. Len(s) \in Nat /\ Len(t) \in Nat /\ DOMAIN s = 1 .. Len(s) /\ DOMAIN t = 1 .. Len(t)
  BY SucesionLarga
<1>2. /\ DOMAIN (s \o t) = 1 .. Len(s) + Len(t)
      /\ \A k \in 1 .. Len(s) : (s \o t)[k] = s[k]
      /\ \A k \in 1 .. Len(t) : (s \o t)[Len(s) + k] = t[k]
  BY SucesionJunta
<1>3. \A k \in 1 .. Len(s) : k \in M <=> k \in K
  BY <1>1, <1>2 DEF Marcas
<1>4. ASSUME NEW k \in 1 .. Len(t) PROVE Len(s) + k \in M <=> k \in L
  <2>1. Len(s) + k \in DOMAIN (s \o t) /\ k \in DOMAIN t /\ (s \o t)[Len(s) + k] = t[k]
    BY <1>1, <1>2
  <2> QED BY <2>1 DEF Marcas
<1>5. K \in SUBSET (1 .. Len(s)) /\ L \in SUBSET (1 .. Len(t)) /\ M \in SUBSET (1 .. Len(s) + Len(t))
  BY <1>1, <1>2 DEF Marcas
<1>6. SeJuntan(Len(s), Len(t), K, L, M)
  BY <1>3, <1>4 DEF SeJuntan
<1> HIDE DEF K, L, M
<1>7. Cardinality(M) = Cardinality(K) + Cardinality(L)
  BY <1>1, <1>5, <1>6, CuentaJunta
<1> QED BY <1>7 DEF K, L, M, Carga

LEMMA CargaDeJunta ==
    ASSUME NEW s, Sucesion(s), NEW m, NEW G, NEW F
    PROVE  CargaDe(Append(s, m), G, F) = CargaDe(s, G, F) + Peso(m.q, G, F)
<1> DEFINE K == MarcasDe(s, G, F)
           L == IF Marcada(m.q, G, F) THEN {1} ELSE {}
           M == MarcasDe(s \o <<m>>, G, F)
<1>1. Len(s) \in Nat /\ DOMAIN s = 1 .. Len(s)
  BY SucesionLarga
<1>2. /\ DOMAIN (s \o <<m>>) = 1 .. Len(s) + 1
      /\ \A k \in 1 .. Len(s) : (s \o <<m>>)[k] = s[k]
      /\ (s \o <<m>>)[Len(s) + 1] = m
  <2>1. Sucesion(<<m>>) /\ Len(<<m>>) = 1 /\ <<m>>[1] = m
    BY SucesionUna
  <2>2. /\ DOMAIN (s \o <<m>>) = 1 .. Len(s) + Len(<<m>>)
        /\ \A k \in 1 .. Len(s) : (s \o <<m>>)[k] = s[k]
        /\ \A k \in 1 .. Len(<<m>>) : (s \o <<m>>)[Len(s) + k] = <<m>>[k]
    BY <2>1, SucesionJunta
  <2>3. 1 \in 1 .. Len(<<m>>)
    BY <2>1
  <2> QED BY <2>1, <2>2, <2>3
<1>3. \A k \in 1 .. Len(s) : k \in M <=> k \in K
  BY <1>1, <1>2 DEF MarcasDe
<1>4. \A k \in 1 .. 1 : Len(s) + k \in M <=> k \in L
  <2>1. Len(s) + 1 \in DOMAIN (s \o <<m>>)
    BY <1>1, <1>2
  <2> QED BY <1>2, <2>1 DEF MarcasDe
<1>5. K \in SUBSET (1 .. Len(s)) /\ L \in SUBSET (1 .. 1) /\ M \in SUBSET (1 .. Len(s) + 1)
  BY <1>1, <1>2 DEF MarcasDe
<1>6. Cardinality({}) = 0 /\ Cardinality({1}) = 1
  BY FS_EmptySet, FS_Singleton
<1>7. Cardinality(L) = Peso(m.q, G, F)
  BY <1>6 DEF Peso
<1>8. SeJuntan(Len(s), 1, K, L, M)
  BY <1>3, <1>4 DEF SeJuntan
<1> HIDE DEF K, L, M
<1>9. Cardinality(M) = Cardinality(K) + Cardinality(L)
  BY <1>1, <1>5, <1>8, CuentaJunta
<1>10. Append(s, m) = s \o <<m>>
  BY SucesionMas
<1> QED BY <1>7, <1>9, <1>10 DEF K, M, CargaDe

LEMMA CargaSin ==
    ASSUME NEW s, Sucesion(s), NEW i \in DOMAIN s, NEW G, NEW F
    PROVE  /\ Carga(Sin(s, i), G, F) = Carga(s, G, F) - Peso(s[i], G, F)
           /\ CargaDe(Sin(s, i), G, F) = CargaDe(s, G, F) - Peso(s[i].q, G, F)
<1> DEFINE n == Len(s)
<1>1. n \in Nat /\ DOMAIN s = 1 .. n /\ i \in 1 .. n
  BY SucesionLarga
<1>2. /\ DOMAIN Sin(s, i) = 1 .. n - 1
      /\ \A k \in 1 .. n - 1 : Sin(s, i)[k] = s[IF k < i THEN k ELSE k + 1]
  BY SucesionSin
<1>3. \A k \in 1 .. n - 1 : (IF k < i THEN k ELSE k + 1) \in 1 .. n
  BY <1>1
<1> HIDE DEF n
<1>4. Cardinality(Marcas(Sin(s, i), G, F)) = Cardinality(Marcas(s, G, F)) - (IF i \in Marcas(s, G, F) THEN 1 ELSE 0)
  <2> DEFINE K == Marcas(s, G, F)
             M == Marcas(Sin(s, i), G, F)
  <2>1. K \in SUBSET (1 .. n) /\ M \in SUBSET (1 .. n - 1)
    BY <1>1, <1>2 DEF Marcas
  <2>2. SeCorre(n, i, K, M)
    BY <1>1, <1>2, <1>3 DEF Marcas, SeCorre
  <2> HIDE DEF K, M
  <2>3. Cardinality(M) = Cardinality(K) - (IF i \in K THEN 1 ELSE 0)
    BY <1>1, <2>1, <2>2, CuentaSin
  <2> QED BY <2>3 DEF K, M
<1>5. Cardinality(MarcasDe(Sin(s, i), G, F)) = Cardinality(MarcasDe(s, G, F)) - (IF i \in MarcasDe(s, G, F) THEN 1 ELSE 0)
  <2> DEFINE K == MarcasDe(s, G, F)
             M == MarcasDe(Sin(s, i), G, F)
  <2>1. K \in SUBSET (1 .. n) /\ M \in SUBSET (1 .. n - 1)
    BY <1>1, <1>2 DEF MarcasDe
  <2>2. SeCorre(n, i, K, M)
    BY <1>1, <1>2, <1>3 DEF MarcasDe, SeCorre
  <2> HIDE DEF K, M
  <2>3. Cardinality(M) = Cardinality(K) - (IF i \in K THEN 1 ELSE 0)
    BY <1>1, <2>1, <2>2, CuentaSin
  <2> QED BY <2>3 DEF K, M
<1>6. /\ i \in Marcas(s, G, F) <=> Marcada(s[i], G, F)
      /\ i \in MarcasDe(s, G, F) <=> Marcada(s[i].q, G, F)
  BY DEF Marcas, MarcasDe
<1> QED BY <1>4, <1>5, <1>6 DEF Carga, CargaDe, Peso

(* What each kind of step makes of the requests that hold a flag.          *)

EsPedido(q, O) == {"op", "viva"} \subseteq DOMAIN q /\ q.op \in O
EsRespuesta(m, O) == "q" \in DOMAIN m /\ EsPedido(m.q, O)

SonPedidos(p, O) == Sucesion(p) /\ \A k \in DOMAIN p : EsPedido(p[k], O)
SonRespuestas(p, O) == Sucesion(p) /\ \A k \in DOMAIN p : EsRespuesta(p[k], O)

Correo(O) == SonPedidos(ida, O) /\ SonRespuestas(vuelta, O)

LEMMA PedidosUno ==
    ASSUME NEW O, NEW q, EsPedido(q, O)
    PROVE  SonPedidos(<<>>, O) /\ SonPedidos(<<q>>, O)
BY SucesionUna DEF SonPedidos

LEMMA PedidosJuntos ==
    ASSUME NEW O, NEW s, SonPedidos(s, O), NEW t, SonPedidos(t, O)
    PROVE  SonPedidos(s \o t, O)
<1>1. Len(s) \in Nat /\ Len(t) \in Nat /\ DOMAIN s = 1 .. Len(s) /\ DOMAIN t = 1 .. Len(t)
  BY SucesionLarga DEF SonPedidos
<1>2. /\ Sucesion(s \o t)
      /\ DOMAIN (s \o t) = 1 .. Len(s) + Len(t)
      /\ \A k \in 1 .. Len(s) : (s \o t)[k] = s[k]
      /\ \A k \in 1 .. Len(t) : (s \o t)[Len(s) + k] = t[k]
  BY SucesionJunta DEF SonPedidos
<1>3. ASSUME NEW k \in DOMAIN (s \o t) PROVE EsPedido((s \o t)[k], O)
  <2>1. CASE k \in 1 .. Len(s)
    BY <1>1, <1>2, <2>1 DEF SonPedidos
  <2>2. CASE k \notin 1 .. Len(s)
    <3>1. k - Len(s) \in 1 .. Len(t) /\ Len(s) + (k - Len(s)) = k
      BY <1>1, <1>2, <2>2
    <3>2. (s \o t)[k] = t[k - Len(s)]
      BY <1>2, <3>1
    <3> QED BY <1>1, <3>1, <3>2 DEF SonPedidos
  <2> QED BY <2>1, <2>2
<1> QED BY <1>2, <1>3 DEF SonPedidos

LEMMA RespuestasMas ==
    ASSUME NEW O, NEW s, SonRespuestas(s, O), NEW m, EsRespuesta(m, O)
    PROVE  SonRespuestas(Append(s, m), O)
<1>1. Len(s) \in Nat /\ DOMAIN s = 1 .. Len(s)
  BY SucesionLarga DEF SonRespuestas
<1>2. Sucesion(<<m>>) /\ Len(<<m>>) = 1 /\ <<m>>[1] = m
  BY SucesionUna
<1>3. /\ Sucesion(s \o <<m>>)
      /\ DOMAIN (s \o <<m>>) = 1 .. Len(s) + Len(<<m>>)
      /\ \A k \in 1 .. Len(s) : (s \o <<m>>)[k] = s[k]
      /\ \A k \in 1 .. Len(<<m>>) : (s \o <<m>>)[Len(s) + k] = <<m>>[k]
  BY <1>2, SucesionJunta DEF SonRespuestas
<1>4. (s \o <<m>>)[Len(s) + 1] = m
  BY <1>2, <1>3
<1>5. ASSUME NEW k \in DOMAIN (s \o <<m>>) PROVE EsRespuesta((s \o <<m>>)[k], O)
  <2>1. k \in 1 .. Len(s) \/ k = Len(s) + 1
    BY <1>1, <1>2, <1>3
  <2> QED BY <1>1, <1>3, <1>4, <2>1 DEF SonRespuestas
<1> QED BY <1>3, <1>5, SucesionMas DEF SonRespuestas

LEMMA CorreoSin ==
    ASSUME NEW O, NEW s, NEW i \in DOMAIN s
    PROVE  /\ SonPedidos(s, O) => SonPedidos(Sin(s, i), O)
           /\ SonRespuestas(s, O) => SonRespuestas(Sin(s, i), O)
<1> SUFFICES ASSUME Sucesion(s)
             PROVE  /\ SonPedidos(s, O) => SonPedidos(Sin(s, i), O)
                    /\ SonRespuestas(s, O) => SonRespuestas(Sin(s, i), O)
  BY DEF SonPedidos, SonRespuestas
<1>1. Len(s) \in Nat /\ DOMAIN s = 1 .. Len(s) /\ i \in 1 .. Len(s)
  BY SucesionLarga
<1>2. /\ Sucesion(Sin(s, i))
      /\ DOMAIN Sin(s, i) = 1 .. Len(s) - 1
      /\ \A k \in 1 .. Len(s) - 1 : Sin(s, i)[k] = s[IF k < i THEN k ELSE k + 1]
  BY SucesionSin
<1>3. \A k \in DOMAIN Sin(s, i) : \E x \in DOMAIN s : Sin(s, i)[k] = s[x]
  BY <1>1, <1>2
<1> QED BY <1>2, <1>3 DEF SonPedidos, SonRespuestas

\* A page that is left: nothing holds a flag any more.
LEMMA Huerfana ==
    ASSUME NEW O, NEW G, NEW F
    PROVE  /\ \A s : SonPedidos(s, O) => SonPedidos(Huerfanos(s), O) /\ Carga(Huerfanos(s), G, F) = 0
           /\ \A s : SonRespuestas(s, O) => SonRespuestas(HuerfanasDe(s), O) /\ CargaDe(HuerfanasDe(s), G, F) = 0
<1>1. ASSUME NEW s, SonPedidos(s, O)
      PROVE  SonPedidos(Huerfanos(s), O) /\ Carga(Huerfanos(s), G, F) = 0
  <2>1. Len(s) \in Nat /\ DOMAIN s = 1 .. Len(s)
    BY <1>1, SucesionLarga DEF SonPedidos
  <2> DEFINE h == Huerfanos(s)
  <2>2. h = [k \in 1 .. Len(s) |-> [s[k] EXCEPT !.viva = FALSE]]
    BY <2>1 DEF Huerfanos
  <2>3. \A k \in DOMAIN h : h[k].viva = FALSE /\ EsPedido(h[k], O)
    BY <1>1, <2>1, <2>2 DEF SonPedidos, EsPedido
  <2>4. h = [k \in 1 .. Len(s) |-> h[k]]
    BY <2>2
  <2> HIDE DEF h
  <2>5. Sucesion(h)
    BY <2>1, <2>4, SucesionDe
  <2>6. Marcas(h, G, F) = {}
    BY <2>3 DEF Marcas, Marcada
  <2>7. SonPedidos(h, O) /\ Carga(h, G, F) = 0
    BY <2>3, <2>5, <2>6, FS_EmptySet DEF SonPedidos, Carga
  <2> QED BY <2>7 DEF h
<1>2. ASSUME NEW s, SonRespuestas(s, O)
      PROVE  SonRespuestas(HuerfanasDe(s), O) /\ CargaDe(HuerfanasDe(s), G, F) = 0
  <2>1. Len(s) \in Nat /\ DOMAIN s = 1 .. Len(s)
    BY <1>2, SucesionLarga DEF SonRespuestas
  <2> DEFINE h == HuerfanasDe(s)
  <2>2. h = [k \in 1 .. Len(s) |-> [s[k] EXCEPT !.q.viva = FALSE]]
    BY <2>1 DEF HuerfanasDe
  <2>3. \A k \in DOMAIN h : h[k].q.viva = FALSE /\ EsRespuesta(h[k], O)
    BY <1>2, <2>1, <2>2 DEF SonRespuestas, EsRespuesta, EsPedido
  <2>4. h = [k \in 1 .. Len(s) |-> h[k]]
    BY <2>2
  <2> HIDE DEF h
  <2>5. Sucesion(h)
    BY <2>1, <2>4, SucesionDe
  <2>6. MarcasDe(h, G, F) = {}
    BY <2>3 DEF MarcasDe, Marcada
  <2>7. SonRespuestas(h, O) /\ CargaDe(h, G, F) = 0
    BY <2>3, <2>5, <2>6, FS_EmptySet DEF SonRespuestas, CargaDe
  <2> QED BY <2>7 DEF h
<1> QED BY <1>1, <1>2

LEMMA CorreoPide ==
    ASSUME NEW O, Correo(O), NEW p, SonPedidos(p, O), ida' = ida \o p, vuelta' = vuelta, NEW G, NEW F
    PROVE  Correo(O)' /\ EnCurso(G, F)' = EnCurso(G, F) + Carga(p, G, F)
<1>1. Correo(O)'
  BY PedidosJuntos DEF Correo
<1>2. Carga(ida', G, F) = Carga(ida, G, F) + Carga(p, G, F)
  BY CargaJunta DEF Correo, SonPedidos
<1>3. Carga(ida, G, F) \in Nat /\ Carga(p, G, F) \in Nat /\ CargaDe(vuelta, G, F) \in Nat
  BY CargaNatural DEF Correo, SonPedidos, SonRespuestas
<1>4. EnCurso(G, F)' = Carga(ida', G, F) + CargaDe(vuelta', G, F)
  BY DEF EnCurso, Carga, CargaDe, Marcas, MarcasDe, Marcada
<1>5. CargaDe(vuelta', G, F) = CargaDe(vuelta, G, F)
  OBVIOUS
<1> QED BY <1>1, <1>2, <1>3, <1>4, <1>5 DEF EnCurso

LEMMA CorreoToma ==
    ASSUME NEW O, Correo(O), NEW i \in DOMAIN ida, ida' = Sin(ida, i), NEW ok, NEW datos,
           vuelta' = Append(vuelta, [q |-> ida[i], ok |-> ok, datos |-> datos]), NEW G, NEW F
    PROVE  Correo(O)' /\ EnCurso(G, F)' = EnCurso(G, F)
<1> DEFINE m == [q |-> ida[i], ok |-> ok, datos |-> datos]
<1>1. m.q = ida[i] /\ EsRespuesta(m, O)
  BY DEF Correo, SonPedidos, EsRespuesta
<1> HIDE DEF m
<1>2. Correo(O)'
  BY <1>1, CorreoSin, RespuestasMas DEF Correo, m
<1>3. Carga(ida', G, F) = Carga(ida, G, F) - Peso(ida[i], G, F)
  BY CargaSin DEF Correo, SonPedidos
<1>4. CargaDe(vuelta', G, F) = CargaDe(vuelta, G, F) + Peso(ida[i], G, F)
  <2>1. CargaDe(Append(vuelta, m), G, F) = CargaDe(vuelta, G, F) + Peso(m.q, G, F)
    BY CargaDeJunta DEF Correo, SonRespuestas
  <2> QED BY <1>1, <2>1 DEF m
<1>5. Carga(ida, G, F) \in Nat /\ CargaDe(vuelta, G, F) \in Nat /\ Peso(ida[i], G, F) \in Nat
  BY CargaNatural DEF Correo, SonPedidos, SonRespuestas, Peso
<1>6. EnCurso(G, F)' = Carga(ida', G, F) + CargaDe(vuelta', G, F)
  BY DEF EnCurso, Carga, CargaDe, Marcas, MarcasDe, Marcada
<1> QED BY <1>2, <1>3, <1>4, <1>5, <1>6 DEF EnCurso

LEMMA CorreoLlega ==
    ASSUME NEW O, Correo(O), NEW i \in DOMAIN vuelta, vuelta' = Sin(vuelta, i),
           NEW p, SonPedidos(p, O), ida' = ida \o p, NEW G, NEW F
    PROVE  /\ Correo(O)'
           /\ EnCurso(G, F)' = EnCurso(G, F) - Peso(vuelta[i].q, G, F) + Carga(p, G, F)
           /\ EnCurso(G, F)' \in Nat
<1>1. Correo(O)'
  BY PedidosJuntos, CorreoSin DEF Correo
<1>2. Carga(ida', G, F) = Carga(ida, G, F) + Carga(p, G, F)
  BY CargaJunta DEF Correo, SonPedidos
<1>3. CargaDe(vuelta', G, F) = CargaDe(vuelta, G, F) - Peso(vuelta[i].q, G, F)
  BY CargaSin DEF Correo, SonRespuestas
<1>4. /\ Carga(ida, G, F) \in Nat /\ Carga(p, G, F) \in Nat /\ CargaDe(vuelta, G, F) \in Nat
      /\ Peso(vuelta[i].q, G, F) \in Nat
  BY CargaNatural DEF Correo, SonPedidos, SonRespuestas, Peso
<1>5. EnCurso(G, F)' = Carga(ida', G, F) + CargaDe(vuelta', G, F)
  BY DEF EnCurso, Carga, CargaDe, Marcas, MarcasDe, Marcada
<1>6. Carga(ida', G, F) \in Nat /\ CargaDe(vuelta', G, F) \in Nat
  BY <1>1, CargaNatural DEF Correo, SonPedidos, SonRespuestas
<1> QED BY <1>1, <1>2, <1>3, <1>4, <1>5, <1>6 DEF EnCurso

LEMMA CorreoMonta ==
    ASSUME NEW O, Correo(O), NEW p, SonPedidos(p, O), ida' = Huerfanos(ida) \o p,
           NEW t, SonRespuestas(t, O), vuelta' = HuerfanasDe(t), NEW G, NEW F
    PROVE  Correo(O)' /\ EnCurso(G, F)' = Carga(p, G, F)
<1>1. /\ SonPedidos(Huerfanos(ida), O) /\ Carga(Huerfanos(ida), G, F) = 0
      /\ SonRespuestas(HuerfanasDe(t), O) /\ CargaDe(HuerfanasDe(t), G, F) = 0
  BY Huerfana DEF Correo
<1>2. Correo(O)'
  BY <1>1, PedidosJuntos DEF Correo
<1>3. Carga(ida', G, F) = 0 + Carga(p, G, F)
  BY <1>1, CargaJunta DEF SonPedidos
<1>4. CargaDe(vuelta', G, F) = 0 /\ Carga(p, G, F) \in Nat
  BY <1>1, CargaNatural DEF SonPedidos
<1>5. EnCurso(G, F)' = Carga(ida', G, F) + CargaDe(vuelta', G, F)
  BY DEF EnCurso, Carga, CargaDe, Marcas, MarcasDe, Marcada
<1> QED BY <1>2, <1>3, <1>4, <1>5

LEMMA CorreoEmpieza ==
    ASSUME NEW O, NEW p, SonPedidos(p, O), ida = p, vuelta = <<>>, NEW G, NEW F
    PROVE  Correo(O) /\ EnCurso(G, F) = Carga(p, G, F)
<1>1. SonRespuestas(<<>>, O) /\ CargaDe(<<>>, G, F) = 0
  BY SucesionUna, CargaUna DEF SonRespuestas
<1>2. Carga(p, G, F) \in Nat
  BY CargaNatural DEF SonPedidos
<1> QED BY <1>1, <1>2 DEF Correo, EnCurso

LEMMA CursoNatural ==
    ASSUME NEW O, Correo(O), NEW G, NEW F
    PROVE  EnCurso(G, F) \in Nat /\ EnVuelo(G) \in Nat /\ EnVuelo(G) <= EnCurso(G, F)
<1> DEFINE A == {k \in DOMAIN ida : ida[k].viva /\ ida[k].op \in G}
           B == {k \in DOMAIN vuelta : vuelta[k].q.viva /\ vuelta[k].q.op \in G}
<1>1. Len(ida) \in Nat /\ DOMAIN ida = 1 .. Len(ida) /\ Len(vuelta) \in Nat /\ DOMAIN vuelta = 1 .. Len(vuelta)
  BY SucesionLarga DEF Correo, SonPedidos, SonRespuestas
<1>2. /\ A \subseteq Marcas(ida, G, F) /\ Marcas(ida, G, F) \in SUBSET (1 .. Len(ida))
      /\ B \subseteq MarcasDe(vuelta, G, F) /\ MarcasDe(vuelta, G, F) \in SUBSET (1 .. Len(vuelta))
  BY <1>1 DEF Marcas, MarcasDe, Marcada
<1>3. EnVuelo(G) = Cardinality(A) + Cardinality(B)
  BY DEF EnVuelo
<1> HIDE DEF A, B
<1>4. IsFiniteSet(Marcas(ida, G, F)) /\ IsFiniteSet(MarcasDe(vuelta, G, F))
  BY <1>1, <1>2, DelUnoAl
<1>5. Cardinality(A) <= Carga(ida, G, F) /\ Cardinality(B) <= CargaDe(vuelta, G, F)
      /\ IsFiniteSet(A) /\ IsFiniteSet(B)
  BY <1>2, <1>4, FS_Subset DEF Carga, CargaDe
<1>6. /\ Cardinality(A) \in Nat /\ Cardinality(B) \in Nat
      /\ Carga(ida, G, F) \in Nat /\ CargaDe(vuelta, G, F) \in Nat
  BY <1>5, FS_CardinalityType, CargaNatural DEF Correo, SonPedidos, SonRespuestas
<1> QED BY <1>3, <1>5, <1>6 DEF EnCurso

\* Fewer kinds of requests, no more of them.
LEMMA MenosVuelan ==
    ASSUME NEW O, Correo(O), NEW G, NEW K \in SUBSET G
    PROVE  EnVuelo(K) \in Nat /\ EnVuelo(G) \in Nat /\ EnVuelo(K) <= EnVuelo(G)
<1> DEFINE A(H) == {k \in DOMAIN ida : ida[k].viva /\ ida[k].op \in H}
           B(H) == {k \in DOMAIN vuelta : vuelta[k].q.viva /\ vuelta[k].q.op \in H}
<1>1. Len(ida) \in Nat /\ DOMAIN ida = 1 .. Len(ida) /\ Len(vuelta) \in Nat /\ DOMAIN vuelta = 1 .. Len(vuelta)
  BY SucesionLarga DEF Correo, SonPedidos, SonRespuestas
<1>2. /\ A(K) \subseteq A(G) /\ A(G) \in SUBSET (1 .. Len(ida))
      /\ B(K) \subseteq B(G) /\ B(G) \in SUBSET (1 .. Len(vuelta))
  BY <1>1
<1>3. EnVuelo(K) = Cardinality(A(K)) + Cardinality(B(K)) /\ EnVuelo(G) = Cardinality(A(G)) + Cardinality(B(G))
  BY DEF EnVuelo
<1> HIDE DEF A, B
<1>4. IsFiniteSet(A(G)) /\ IsFiniteSet(B(G))
  BY <1>1, <1>2, DelUnoAl
<1>5. /\ Cardinality(A(K)) <= Cardinality(A(G)) /\ Cardinality(B(K)) <= Cardinality(B(G))
      /\ IsFiniteSet(A(K)) /\ IsFiniteSet(B(K))
  BY <1>2, <1>4, FS_Subset
<1>6. /\ Cardinality(A(K)) \in Nat /\ Cardinality(B(K)) \in Nat
      /\ Cardinality(A(G)) \in Nat /\ Cardinality(B(G)) \in Nat
  BY <1>4, <1>5, FS_CardinalityType
<1> QED BY <1>3, <1>5, <1>6

\* At most one request holds the flag, and none while it is down.
Cabe(n, alta) == n <= 1 /\ (alta = TRUE \/ n = 0)

LEMMA CabeMas ==
    ASSUME NEW n \in Nat, NEW c, NEW antes, NEW luego, Cabe(n, antes),
           \/ c = 0 /\ (antes = TRUE => luego = TRUE)
           \/ c = 1 /\ antes # TRUE /\ luego = TRUE
    PROVE  Cabe(n + c, luego)
<1>1. CASE c = 0 /\ (antes = TRUE => luego = TRUE)
  BY <1>1 DEF Cabe
<1>2. CASE c = 1 /\ antes # TRUE /\ luego = TRUE
  <2>1. n = 0
    BY <1>2 DEF Cabe
  <2> QED BY <1>2, <2>1 DEF Cabe
<1> QED BY <1>1, <1>2

LEMMA CabeMenos ==
    ASSUME NEW n \in Nat, NEW b \in {0, 1}, NEW c \in Nat, n - b + c \in Nat,
           NEW antes, NEW luego, Cabe(n, antes),
           \/ c = 0 /\ (antes = TRUE => luego = TRUE)
           \/ b = 1 /\ c = 0
           \/ b = 1 /\ c = 1 /\ (antes = TRUE => luego = TRUE)
           \/ c = 1 /\ antes # TRUE /\ luego = TRUE
    PROVE  Cabe(n - b + c, luego)
<1>1. CASE c = 0 /\ (antes = TRUE => luego = TRUE)
  <2>1. n = 0 => n - b + c = 0
    BY <1>1
  <2>2. n - b + c <= 1
    BY <1>1 DEF Cabe
  <2> QED BY <1>1, <2>1, <2>2 DEF Cabe
<1>2. CASE b = 1 /\ c = 0
  BY <1>2 DEF Cabe
<1>3. CASE b = 1 /\ c = 1 /\ (antes = TRUE => luego = TRUE)
  <2>1. n - b + c = n
    BY <1>3
  <2>2. Cabe(n, luego)
    BY <1>3 DEF Cabe
  <2> QED BY <2>1, <2>2
<1>4. CASE c = 1 /\ antes # TRUE /\ luego = TRUE
  <2>1. n = 0
    BY <1>4 DEF Cabe
  <2> QED BY <1>4, <2>1 DEF Cabe
<1> QED BY <1>1, <1>2, <1>3, <1>4

\* A click that takes no flag, or that takes one that is down.
LEMMA PasoPide ==
    ASSUME NEW O, Correo(O), NEW p, SonPedidos(p, O), ida' = ida \o p, vuelta' = vuelta, NEW G, NEW F,
           NEW antes, NEW luego, Cabe(EnCurso(G, F), antes),
           \/ Carga(p, G, F) = 0 /\ (antes = TRUE => luego = TRUE)
           \/ Carga(p, G, F) = 1 /\ antes # TRUE /\ luego = TRUE
    PROVE  Correo(O)' /\ Cabe(EnCurso(G, F)', luego)
<1>1. Correo(O)' /\ EnCurso(G, F)' = EnCurso(G, F) + Carga(p, G, F)
  BY CorreoPide
<1>2. EnCurso(G, F) \in Nat
  BY CursoNatural
<1>3. Cabe(EnCurso(G, F) + Carga(p, G, F), luego)
  BY <1>2, CabeMas
<1> QED BY <1>1, <1>3

\* An answer: whoever had the flag keeps it with what it asks for, or lets it go; or what
\* is asked for takes a flag that is down.
LEMMA PasoLlega ==
    ASSUME NEW O, Correo(O), NEW i \in DOMAIN vuelta, vuelta' = Sin(vuelta, i),
           NEW p, SonPedidos(p, O), ida' = ida \o p, NEW G, NEW F,
           NEW antes, NEW luego, Cabe(EnCurso(G, F), antes),
           \/ Carga(p, G, F) = 0 /\ (antes = TRUE => luego = TRUE)
           \/ Marcada(vuelta[i].q, G, F) /\ Carga(p, G, F) = 0
           \/ Marcada(vuelta[i].q, G, F) /\ Carga(p, G, F) = 1 /\ (antes = TRUE => luego = TRUE)
           \/ Carga(p, G, F) = 1 /\ antes # TRUE /\ luego = TRUE
    PROVE  Correo(O)' /\ Cabe(EnCurso(G, F)', luego)
<1> DEFINE n == EnCurso(G, F)
           b == Peso(vuelta[i].q, G, F)
           c == Carga(p, G, F)
<1>1. Correo(O)' /\ EnCurso(G, F)' = n - b + c /\ EnCurso(G, F)' \in Nat
  BY CorreoLlega
<1>2. n \in Nat /\ c \in Nat /\ b \in {0, 1} /\ n - b + c \in Nat
  BY <1>1, CursoNatural, CargaNatural DEF SonPedidos, Peso
<1>3. \/ c = 0 /\ (antes = TRUE => luego = TRUE)
      \/ b = 1 /\ c = 0
      \/ b = 1 /\ c = 1 /\ (antes = TRUE => luego = TRUE)
      \/ c = 1 /\ antes # TRUE /\ luego = TRUE
  BY DEF Peso
<1>4. Cabe(n, antes)
  OBVIOUS
<1> HIDE DEF n, b, c
<1>5. Cabe(n - b + c, luego)
  BY <1>2, <1>3, <1>4, CabeMenos
<1> QED BY <1>1, <1>5

(* A page whose field c says that a request of G, or one of F that follows *)
(* it, is on its way.                                                      *)

Guarda(G, F, c) == c \in DOMAIN vista /\ Cabe(EnCurso(G, F), vista[c])

LEMMA GuardaCursor ==
    ASSUME NEW G, NEW F, NEW c
    PROVE  Guarda(G, F, c)' <=> c \in DOMAIN vista' /\ Cabe(EnCurso(G, F)', vista'[c])
BY DEF Guarda, Cabe

LEMMA GuardaPide ==
    ASSUME NEW O, Correo(O), NEW G, NEW F, NEW c, Guarda(G, F, c), c \in DOMAIN vista',
           NEW p, SonPedidos(p, O), ida' = ida \o p, vuelta' = vuelta,
           \/ Carga(p, G, F) = 0 /\ (vista[c] = TRUE => vista'[c] = TRUE)
           \/ Carga(p, G, F) = 1 /\ vista[c] # TRUE /\ vista'[c] = TRUE
    PROVE  Correo(O)' /\ Guarda(G, F, c)'
<1>1. Correo(O)' /\ Cabe(EnCurso(G, F)', vista'[c])
  BY PasoPide DEF Guarda
<1> QED BY <1>1, GuardaCursor

LEMMA GuardaLlega ==
    ASSUME NEW O, Correo(O), NEW G, NEW F, NEW c, Guarda(G, F, c), c \in DOMAIN vista',
           NEW i \in DOMAIN vuelta, vuelta' = Sin(vuelta, i),
           NEW p, SonPedidos(p, O), ida' = ida \o p,
           \/ Carga(p, G, F) = 0 /\ (vista[c] = TRUE => vista'[c] = TRUE)
           \/ Marcada(vuelta[i].q, G, F) /\ Carga(p, G, F) = 0
           \/ Marcada(vuelta[i].q, G, F) /\ Carga(p, G, F) = 1 /\ (vista[c] = TRUE => vista'[c] = TRUE)
    PROVE  Correo(O)' /\ Guarda(G, F, c)'
<1>1. Correo(O)' /\ Cabe(EnCurso(G, F)', vista'[c])
  BY PasoLlega DEF Guarda
<1> QED BY <1>1, GuardaCursor

LEMMA GuardaToma ==
    ASSUME NEW O, Correo(O), NEW G, NEW F, NEW c, Guarda(G, F, c), vista' = vista,
           NEW i \in DOMAIN ida, ida' = Sin(ida, i), NEW ok, NEW datos,
           vuelta' = Append(vuelta, [q |-> ida[i], ok |-> ok, datos |-> datos])
    PROVE  Correo(O)' /\ Guarda(G, F, c)'
<1>1. Correo(O)' /\ EnCurso(G, F)' = EnCurso(G, F)
  BY CorreoToma
<1> QED BY <1>1, GuardaCursor DEF Guarda

\* Nobody holds the flag, whatever it says.
LEMMA CabeNadie == ASSUME NEW alta PROVE Cabe(0, alta)
<1>1. 0 <= 1
  OBVIOUS
<1> QED BY <1>1 DEF Cabe

LEMMA GuardaMonta ==
    ASSUME NEW O, Correo(O), NEW G, NEW F, NEW c, c \in DOMAIN vista',
           NEW p, SonPedidos(p, O), Carga(p, G, F) = 0, NEW t, SonRespuestas(t, O),
           ida' = Huerfanos(ida) \o p, vuelta' = HuerfanasDe(t)
    PROVE  Correo(O)' /\ Guarda(G, F, c)'
<1>1. Correo(O)' /\ EnCurso(G, F)' = 0
  BY CorreoMonta
<1>2. Cabe(EnCurso(G, F)', vista'[c])
  BY <1>1, CabeNadie
<1> QED BY <1>1, <1>2, GuardaCursor

LEMMA GuardaEmpieza ==
    ASSUME NEW O, NEW p, SonPedidos(p, O), ida = p, vuelta = <<>>, NEW G, NEW F, Carga(p, G, F) = 0,
           NEW c, c \in DOMAIN vista
    PROVE  Correo(O) /\ Guarda(G, F, c)
<1>1. Correo(O) /\ EnCurso(G, F) = 0
  BY CorreoEmpieza
<1>2. Cabe(EnCurso(G, F), vista[c])
  BY <1>1, CabeNadie
<1> QED BY <1>1, <1>2 DEF Guarda

LEMMA GuardaUna ==
    ASSUME NEW O, Correo(O), NEW G, NEW F, NEW c, Guarda(G, F, c)
    PROVE  EnVuelo(G) <= 1
<1>1. EnCurso(G, F) \in Nat /\ EnVuelo(G) \in Nat /\ EnVuelo(G) <= EnCurso(G, F)
  BY CursoNatural
<1> QED BY <1>1 DEF Guarda, Cabe

LEMMA DelPedido ==
    ASSUME NEW O, NEW op \in O, NEW id, NEW datos, NEW t
    PROVE  /\ EsPedido(Pedido(op, id, datos), O) /\ EsPedido(Tras(Pedido(op, id, datos), t), O)
           /\ Pedido(op, id, datos).op = op /\ Tras(Pedido(op, id, datos), t).op = op
           /\ Pedido(op, id, datos).tras = "" /\ Tras(Pedido(op, id, datos), t).tras = t
           /\ Pedido(op, id, datos).viva = TRUE /\ Tras(Pedido(op, id, datos), t).viva = TRUE
BY DEF EsPedido, Pedido, Tras

(* The kinds of steps of the pages, each for the flag of one field.        *)

LEMMA NadaPedido == ASSUME NEW O, NEW G, NEW F PROVE SonPedidos(<<>>, O) /\ Carga(<<>>, G, F) = 0
<1>1. SonPedidos(<<>>, O)
  BY SucesionUna DEF SonPedidos
<1>2. Marcas(<<>>, G, F) = {}
  BY SucesionUna DEF Marcas
<1> QED BY <1>1, <1>2, FS_EmptySet DEF Carga

\* A click that asks for nothing.
LEMMA ClicSolo ==
    ASSUME NEW O, Correo(O), NEW G, NEW F, NEW c, Guarda(G, F, c),
           c \in DOMAIN vista', vista[c] = TRUE => vista'[c] = TRUE, ida' = ida \o <<>>, vuelta' = vuelta
    PROVE  Correo(O)' /\ Guarda(G, F, c)'
<1> DEFINE p == <<>>
<1>1. SonPedidos(p, O) /\ Carga(p, G, F) = 0
  BY NadaPedido
<1>2. ida' = ida \o p
  OBVIOUS
<1> HIDE DEF p
<1> QED BY <1>1, <1>2, GuardaPide

\* A click that asks for q.
LEMMA Clic ==
    ASSUME NEW O, Correo(O), NEW G, NEW F, NEW c, Guarda(G, F, c), c \in DOMAIN vista',
           NEW q, EsPedido(q, O), ida' = ida \o <<q>>, vuelta' = vuelta,
           \/ ~Marcada(q, G, F) /\ (vista[c] = TRUE => vista'[c] = TRUE)
           \/ Marcada(q, G, F) /\ vista[c] # TRUE /\ vista'[c] = TRUE
    PROVE  Correo(O)' /\ Guarda(G, F, c)'
<1>1. Carga(<<q>>, G, F) = IF Marcada(q, G, F) THEN 1 ELSE 0
  BY CargaUna DEF Peso
<1>2. SonPedidos(<<q>>, O)
  BY PedidosUno
<1> QED BY <1>1, <1>2, GuardaPide

\* What the handler of q holds.
Toma(q, G, F) == q.op \in G \/ <<q.op, q.tras>> \in F

\* An answer after which the page is w, and p is asked for.
Oye(i, w, p) ==
    /\ i \in DOMAIN vuelta
    /\ vuelta' = Sin(vuelta, i)
    /\ vista' = IF vuelta[i].q.viva = TRUE THEN w ELSE vista
    /\ ida' = ida \o (IF vuelta[i].q.viva = TRUE THEN p ELSE Huerfanos(p))

LEMMA OyeSi ==
    ASSUME NEW O, Correo(O), NEW G, NEW F, NEW c, Guarda(G, F, c), NEW i, NEW w, c \in DOMAIN w,
           NEW p, SonPedidos(p, O), Oye(i, w, p),
           \/ Carga(p, G, F) = 0 /\ (vista[c] = TRUE => w[c] = TRUE)
           \/ Toma(vuelta[i].q, G, F) /\ Carga(p, G, F) = 0
           \/ Toma(vuelta[i].q, G, F) /\ Carga(p, G, F) = 1 /\ (vista[c] = TRUE => w[c] = TRUE)
    PROVE  Correo(O)' /\ Guarda(G, F, c)'
<1> USE DEF Oye
<1>1. CASE vuelta[i].q.viva = TRUE
  <2>1. Marcada(vuelta[i].q, G, F) <=> Toma(vuelta[i].q, G, F)
    BY <1>1 DEF Marcada, Toma
  <2> QED BY <1>1, <2>1, GuardaLlega
<1>2. CASE vuelta[i].q.viva # TRUE
  <2>1. SonPedidos(Huerfanos(p), O) /\ Carga(Huerfanos(p), G, F) = 0
    BY Huerfana
  <2>2. c \in DOMAIN vista
    BY DEF Guarda
  <2> QED BY <1>2, <2>1, <2>2, GuardaLlega
<1> QED BY <1>1, <1>2

\* The same when nothing is asked for.
LEMMA OyeSolo ==
    ASSUME NEW O, Correo(O), NEW G, NEW F, NEW c, Guarda(G, F, c), NEW i, NEW w, c \in DOMAIN w,
           Oye(i, w, <<>>), (vista[c] = TRUE => w[c] = TRUE) \/ Toma(vuelta[i].q, G, F)
    PROVE  Correo(O)' /\ Guarda(G, F, c)'
<1> DEFINE p == <<>>
<1>1. SonPedidos(p, O) /\ Carga(p, G, F) = 0
  BY NadaPedido
<1>2. Oye(i, w, p)
  OBVIOUS
<1> HIDE DEF p
<1> QED BY <1>1, <1>2, OyeSi

\* The same when q is.
LEMMA OyeYPide ==
    ASSUME NEW O, Correo(O), NEW G, NEW F, NEW c, Guarda(G, F, c), NEW i, NEW w, c \in DOMAIN w,
           NEW q, EsPedido(q, O), Oye(i, w, <<q>>),
           vista[c] = TRUE => w[c] = TRUE, Marcada(q, G, F) => Toma(vuelta[i].q, G, F)
    PROVE  Correo(O)' /\ Guarda(G, F, c)'
<1>1. Carga(<<q>>, G, F) = IF Marcada(q, G, F) THEN 1 ELSE 0
  BY CargaUna DEF Peso
<1>2. SonPedidos(<<q>>, O)
  BY PedidosUno
<1> QED BY <1>1, <1>2, OyeSi

\* The page is left, or another is, and q is asked for.
LEMMA Monta ==
    ASSUME NEW O, Correo(O), NEW G, NEW F, NEW c, c \in DOMAIN vista',
           NEW q, EsPedido(q, O), ~Marcada(q, G, F),
           ida' = Huerfanos(ida) \o <<q>>, vuelta' = HuerfanasDe(vuelta)
    PROVE  Correo(O)' /\ Guarda(G, F, c)'
<1>1. Carga(<<q>>, G, F) = 0
  BY CargaUna DEF Peso
<1>2. SonPedidos(<<q>>, O) /\ SonRespuestas(vuelta, O)
  BY PedidosUno DEF Correo
<1> QED BY <1>1, <1>2, GuardaMonta

\* The same for a page that asks for nothing.
LEMMA MontaSolo ==
    ASSUME NEW O, Correo(O), NEW G, NEW F, NEW c, c \in DOMAIN vista',
           ida' = Huerfanos(ida) \o <<>>, vuelta' = HuerfanasDe(vuelta)
    PROVE  Correo(O)' /\ Guarda(G, F, c)'
<1> DEFINE p == <<>>
<1>1. SonPedidos(p, O) /\ Carga(p, G, F) = 0
  BY NadaPedido
<1>2. ida' = Huerfanos(ida) \o p /\ SonRespuestas(vuelta, O)
  BY DEF Correo
<1> HIDE DEF p
<1> QED BY <1>1, <1>2, GuardaMonta

\* An answer that goes to another page, which asks for q.
LEMMA Lleva ==
    ASSUME NEW O, Correo(O), NEW G, NEW F, NEW c, c \in DOMAIN vista', NEW i \in DOMAIN vuelta,
           NEW q, EsPedido(q, O), ~Marcada(q, G, F),
           ida' = Huerfanos(ida) \o <<q>>, vuelta' = HuerfanasDe(Sin(vuelta, i))
    PROVE  Correo(O)' /\ Guarda(G, F, c)'
<1>1. Carga(<<q>>, G, F) = 0
  BY CargaUna DEF Peso
<1>2. SonPedidos(<<q>>, O) /\ SonRespuestas(Sin(vuelta, i), O)
  BY PedidosUno, CorreoSin DEF Correo
<1> QED BY <1>1, <1>2, GuardaMonta

\* The page is there and q is asked for.
LEMMA Empieza ==
    ASSUME NEW O, NEW G, NEW F, NEW c, c \in DOMAIN vista,
           NEW q, EsPedido(q, O), ~Marcada(q, G, F), ida = <<q>>, vuelta = <<>>
    PROVE  Correo(O) /\ Guarda(G, F, c)
<1>1. Carga(<<q>>, G, F) = 0
  BY CargaUna DEF Peso
<1>2. SonPedidos(<<q>>, O)
  BY PedidosUno
<1> QED BY <1>1, <1>2, GuardaEmpieza

-----------------------------------------------------------------------------
\* The page of the categories.
CG == {"crear", "actualizar"}
CF == {<<"listar", "guardar">>}
CO == {"listar", "crear", "actualizar", "desactivar", "reactivar"}
CategoriasInv == Correo(CO) /\ Guarda(CG, CF, "guardando")

LEMMA CategoriasEmpieza == Categorias!Init => CategoriasInv
<1> SUFFICES ASSUME Categorias!Init PROVE CategoriasInv
  OBVIOUS
<1> DEFINE q == Pedido("listar", Nadie, Nada)
<1>1. ida = <<q>> /\ vuelta = <<>> /\ "guardando" \in DOMAIN vista
  BY DEF Categorias!Init, Categorias!PeticionesInit, Categorias!Listar, Categorias!Pedido, Pedido,
         Categorias!Nadie, Nadie, Categorias!VistaInicial
<1>2. EsPedido(q, CO) /\ q.op = "listar" /\ q.tras = ""
  BY DEF EsPedido, CO, Pedido
<1> HIDE DEF q
<1>3. Peso(q, CG, CF) = 0
  BY <1>2 DEF Peso, Marcada, CG, CF
<1> QED BY <1>1, <1>2, <1>3, PedidosUno, CargaUna, GuardaEmpieza DEF CategoriasInv

LEMMA CategoriasResponde ==
    ASSUME CategoriasInv, NEW i, Categorias!Responde(i)
    PROVE  CategoriasInv'
<1>1. PICK ok, datos : /\ i \in DOMAIN ida /\ vista' = vista /\ ida' = Sin(ida, i)
                       /\ vuelta' = Append(vuelta, [q |-> ida[i], ok |-> ok, datos |-> datos])
  BY DEF Categorias!Responde, Categorias!Atiende, Categorias!Sin, Sin
<1> QED BY <1>1, GuardaToma DEF CategoriasInv

LEMMA CategoriasRecibe ==
    ASSUME CategoriasInv, NEW i, Categorias!Recibe(i)
    PROVE  CategoriasInv'
<1> DEFINE m == vuelta[i]
           r == Categorias!Recibir(m)
<1>1. r.va = FALSE => Oye(i, r.vista, r.pide)
  BY DEF Oye, Categorias!Recibe, Categorias!Llega, Categorias!Sin, Sin,
         Categorias!Huerfanos, Huerfanos
<1>2. "guardando" \in DOMAIN vista
  BY DEF CategoriasInv, Guarda
<1> USE DEF Categorias!Recibir, Categorias!Queda, Categorias!Pide, Categorias!Releer
<1>3. CASE m.q.op = "listar"
  <2>1. /\ r.va = FALSE /\ r.pide = <<>> /\ "guardando" \in DOMAIN r.vista
        /\ m.q.tras # "guardar" => r.vista.guardando = vista.guardando
    BY <1>2, <1>3
  <2>2. m.q.tras = "guardar" => Toma(m.q, CG, CF)
    BY <1>3 DEF Toma, CG, CF
  <2> HIDE DEF r
  <2> QED BY <1>1, <2>1, <2>2, OyeSolo DEF CategoriasInv
<1>4. CASE m.q.op \in {"crear", "actualizar"}
  <2> DEFINE q == Tras(Pedido("listar", Nadie, Nada), "guardar")
  <2>1. CASE m.ok
    <3>1. /\ r.va = FALSE /\ r.pide = <<q>> /\ "guardando" \in DOMAIN r.vista
          /\ r.vista.guardando = vista.guardando
      BY <1>2, <1>4, <2>1 DEF Categorias!Tras, Tras, Categorias!Pedido, Pedido, Categorias!Nadie, Nadie
    <3>2. Toma(m.q, CG, CF)
      BY <1>4 DEF Toma, CG
    <3>3. EsPedido(q, CO)
      BY DEF EsPedido, CO, Pedido, Tras
    <3> HIDE DEF r, q
    <3> QED BY <1>1, <3>1, <3>2, <3>3, OyeYPide DEF CategoriasInv
  <2>2. CASE ~m.ok
    <3>1. r.va = FALSE /\ r.pide = <<>> /\ "guardando" \in DOMAIN r.vista
      BY <1>2, <1>4, <2>2
    <3>2. Toma(m.q, CG, CF)
      BY <1>4 DEF Toma, CG
    <3> HIDE DEF r
    <3> QED BY <1>1, <3>1, <3>2, OyeSolo DEF CategoriasInv
  <2> QED BY <2>1, <2>2
<1>5. CASE m.q.op \in {"desactivar", "reactivar"}
  <2> DEFINE q == Tras(Pedido("listar", Nadie, Nada), "")
  <2>1. CASE m.ok
    <3>1. /\ r.va = FALSE /\ r.pide = <<q>> /\ "guardando" \in DOMAIN r.vista
          /\ r.vista.guardando = vista.guardando
      BY <1>2, <1>5, <2>1 DEF Categorias!Tras, Tras, Categorias!Pedido, Pedido, Categorias!Nadie, Nadie
    <3>2. EsPedido(q, CO) /\ q.op = "listar" /\ q.tras = ""
      BY DEF EsPedido, CO, Pedido, Tras
    <3> HIDE DEF r, q
    <3>3. ~Marcada(q, CG, CF)
      BY <3>2 DEF Marcada, CG, CF
    <3> QED BY <1>1, <3>1, <3>2, <3>3, OyeYPide DEF CategoriasInv
  <2>2. CASE ~m.ok
    <3>1. r.va = FALSE /\ r.pide = <<>> /\ r.vista = vista
      BY <1>2, <1>5, <2>2
    <3> HIDE DEF r
    <3> QED BY <1>1, <1>2, <3>1, OyeSolo DEF CategoriasInv
  <2> QED BY <2>1, <2>2
<1>6. m.q.op \in CO
  <2>1. i \in DOMAIN vuelta
    BY DEF Categorias!Recibe, Categorias!Llega
  <2> QED BY <2>1 DEF CategoriasInv, Correo, SonRespuestas, EsRespuesta, EsPedido
<1> QED BY <1>3, <1>4, <1>5, <1>6 DEF CO

LEMMA CategoriasSigue == CategoriasInv /\ Categorias!Next => CategoriasInv'
<1> SUFFICES ASSUME CategoriasInv, Categorias!Next PROVE CategoriasInv'
  OBVIOUS
<1>1. "guardando" \in DOMAIN vista
  BY DEF CategoriasInv, Guarda
<1> USE DEF Categorias!Toque
<1>2. CASE \/ Categorias!AbrirAlta \/ Categorias!AbrirEdicion \/ Categorias!CerrarModal
           \/ Categorias!PedirBaja \/ Categorias!CancelarBaja \/ Categorias!Desplegar
  <2>1. /\ ida' = ida \o <<>> /\ vuelta' = vuelta
        /\ "guardando" \in DOMAIN vista' /\ vista'.guardando = vista.guardando
    BY <1>1, <1>2 DEF Categorias!AbrirAlta, Categorias!AbrirEdicion, Categorias!CerrarModal,
       Categorias!PedirBaja, Categorias!CancelarBaja, Categorias!Desplegar
  <2> QED BY <2>1, ClicSolo DEF CategoriasInv
<1>3. CASE Categorias!Guardar
  <2>0. PICK op \in CG : \E datos :
             /\ ida' = ida \o <<Pedido(op, vista.editando, datos)>> /\ vuelta' = vuelta
             /\ "guardando" \in DOMAIN vista' /\ vista.guardando # TRUE /\ vista'.guardando = TRUE
    BY <1>1, <1>3 DEF Categorias!Guardar, Categorias!Pedido, Pedido, CG
  <2>1. PICK datos :
             /\ ida' = ida \o <<Pedido(op, vista.editando, datos)>> /\ vuelta' = vuelta
             /\ "guardando" \in DOMAIN vista' /\ vista.guardando # TRUE /\ vista'.guardando = TRUE
    BY <2>0
  <2> DEFINE q == Pedido(op, vista.editando, datos)
  <2>2. EsPedido(q, CO) /\ Marcada(q, CG, CF)
    BY DEF EsPedido, Marcada, Pedido, CO, CG
  <2> HIDE DEF q
  <2> QED BY <2>1, <2>2, Clic DEF CategoriasInv, q
<1>4. CASE Categorias!ConfirmarBaja \/ Categorias!Reactivar
  <2>0. PICK op \in {"desactivar", "reactivar"} : \E id :
             /\ ida' = ida \o <<Pedido(op, id, Nada)>> /\ vuelta' = vuelta /\ vista' = vista
    BY <1>4 DEF Categorias!ConfirmarBaja, Categorias!Reactivar, Categorias!Pedido, Pedido
  <2>1. PICK id :
             /\ ida' = ida \o <<Pedido(op, id, Nada)>> /\ vuelta' = vuelta /\ vista' = vista
    BY <2>0
  <2> DEFINE q == Pedido(op, id, Nada)
  <2>2. EsPedido(q, CO) /\ ~Marcada(q, CG, CF)
    BY DEF EsPedido, Marcada, Pedido, CO, CG, CF
  <2> HIDE DEF q
  <2> QED BY <1>1, <2>1, <2>2, Clic DEF CategoriasInv, q
<1>5. CASE Categorias!Montar(Categorias!VistaInicial, Categorias!Listar)
  <2> DEFINE q == Pedido("listar", Nadie, Nada)
  <2>1. /\ ida' = Huerfanos(ida) \o <<q>> /\ vuelta' = HuerfanasDe(vuelta)
        /\ "guardando" \in DOMAIN vista'
    BY <1>5 DEF Categorias!Montar, Categorias!VistaInicial, Categorias!Listar, Categorias!Huerfanos, Huerfanos,
       Categorias!HuerfanasDe, HuerfanasDe, Categorias!Pedido, Pedido, Categorias!Nadie, Nadie
  <2>2. EsPedido(q, CO) /\ ~Marcada(q, CG, CF)
    BY DEF EsPedido, Marcada, Pedido, CO, CG, CF
  <2> HIDE DEF q
  <2> QED BY <2>1, <2>2, Monta DEF CategoriasInv
<1> QED BY <1>2, <1>3, <1>4, <1>5, CategoriasResponde, CategoriasRecibe DEF Categorias!Next

LEMMA CategoriasUna == CategoriasInv => UnaDeCada(Categorias!Guardados)
BY GuardaUna DEF CategoriasInv, UnaDeCada, Categorias!Guardados, CG

-----------------------------------------------------------------------------
\* The page of the promotions.
PO == {"cargar", "crear", "actualizar", "eliminar"}
PGuarda == {"crear", "actualizar"}
PSigue == {<<"cargar", "guardar">>}
PBorra == {"eliminar"}
PBorrado == {<<"cargar", "eliminar">>}
PromocionesInv ==
    Correo(PO) /\ Guarda(PGuarda, PSigue, "guardando") /\ Guarda(PBorra, PBorrado, "borrando")

LEMMA PromocionesEmpieza == Promociones!Init => PromocionesInv
<1> SUFFICES ASSUME Promociones!Init PROVE PromocionesInv
  OBVIOUS
<1> DEFINE q == Pedido("cargar", Nadie, Nada)
<1>1. ida = <<q>> /\ vuelta = <<>> /\ {"guardando", "borrando"} \subseteq DOMAIN vista
  BY DEF Promociones!Init, Promociones!PeticionesInit, Promociones!Cargar, Promociones!Pedido, Pedido,
         Promociones!Nadie, Nadie, Promociones!VistaInicial
<1>2. EsPedido(q, PO) /\ ~Marcada(q, PGuarda, PSigue) /\ ~Marcada(q, PBorra, PBorrado)
  BY DEF EsPedido, Marcada, Pedido, PO, PGuarda, PSigue, PBorra, PBorrado
<1> HIDE DEF q
<1> QED BY <1>1, <1>2, Empieza DEF PromocionesInv

LEMMA PromocionesResponde ==
    ASSUME PromocionesInv, NEW i, Promociones!Responde(i)
    PROVE  PromocionesInv'
<1>1. PICK ok, datos : /\ i \in DOMAIN ida /\ vista' = vista /\ ida' = Sin(ida, i)
                       /\ vuelta' = Append(vuelta, [q |-> ida[i], ok |-> ok, datos |-> datos])
  BY DEF Promociones!Responde, Promociones!Atiende, Promociones!Sin, Sin
<1> QED BY <1>1, GuardaToma DEF PromocionesInv

LEMMA PromocionesRecibe ==
    ASSUME PromocionesInv, NEW i, Promociones!Recibe(i)
    PROVE  PromocionesInv'
<1> DEFINE m == vuelta[i]
           r == Promociones!Recibir(m)
<1>1. /\ i \in DOMAIN vuelta
      /\ r.va = FALSE => Oye(i, r.vista, r.pide)
  BY DEF Oye, Promociones!Recibe, Promociones!Llega, Promociones!Sin, Sin,
         Promociones!Huerfanos, Huerfanos
<1>2. m.q.op \in PO /\ {"guardando", "borrando"} \subseteq DOMAIN vista
  BY <1>1 DEF PromocionesInv, Correo, SonRespuestas, EsRespuesta, EsPedido, Guarda
<1> USE DEF Promociones!Recibir, Promociones!Queda, Promociones!Pide, Promociones!Releer
<1>3. CASE m.q.op = "cargar"
  <2>1. /\ r.va = FALSE /\ r.pide = <<>> /\ {"guardando", "borrando"} \subseteq DOMAIN r.vista
        /\ (vista.guardando = TRUE /\ m.q.tras # "guardar" => r.vista.guardando = TRUE)
        /\ (vista.borrando = TRUE /\ m.q.tras # "eliminar" => r.vista.borrando = TRUE)
    BY <1>2, <1>3
  <2>2. /\ m.q.tras = "guardar" => Toma(m.q, PGuarda, PSigue)
        /\ m.q.tras = "eliminar" => Toma(m.q, PBorra, PBorrado)
    BY <1>3 DEF Toma, PSigue, PBorrado
  <2> HIDE DEF r, Promociones!Recibir, Promociones!Queda, Promociones!Pide, Promociones!Releer
  <2>3. Oye(i, r.vista, <<>>)
    BY <1>1, <2>1
  <2>4. Correo(PO)' /\ Guarda(PGuarda, PSigue, "guardando")'
    BY <1>3, <2>1, <2>2, <2>3, OyeSolo DEF PromocionesInv
  <2>5. Correo(PO)' /\ Guarda(PBorra, PBorrado, "borrando")'
    BY <1>3, <2>1, <2>2, <2>3, OyeSolo DEF PromocionesInv
  <2> QED BY <2>4, <2>5 DEF PromocionesInv
<1>4. CASE m.q.op \in {"crear", "actualizar", "eliminar"} /\ m.ok
  <2> DEFINE t == IF m.q.op = "eliminar" THEN "eliminar" ELSE "guardar"
             q == Tras(Pedido("cargar", Nadie, Nada), t)
  <2>1. /\ r.va = FALSE /\ r.pide = <<q>> /\ {"guardando", "borrando"} \subseteq DOMAIN r.vista
        /\ r.vista.guardando = vista.guardando /\ r.vista.borrando = vista.borrando
    BY <1>2, <1>4 DEF Promociones!Tras, Tras, Promociones!Pedido, Pedido, Promociones!Nadie, Nadie
  <2>2. EsPedido(q, PO)
    BY DEF EsPedido, PO, Pedido, Tras
  <2>3. /\ Marcada(q, PGuarda, PSigue) => Toma(m.q, PGuarda, PSigue)
        /\ Marcada(q, PBorra, PBorrado) => Toma(m.q, PBorra, PBorrado)
    BY <1>4 DEF Toma, Marcada, PGuarda, PSigue, PBorra, PBorrado, Pedido, Tras
  <2> HIDE DEF r, q, t, Promociones!Recibir, Promociones!Queda, Promociones!Pide, Promociones!Releer
  <2>4. Oye(i, r.vista, <<q>>)
    BY <1>1, <2>1
  <2>5. Correo(PO)' /\ Guarda(PGuarda, PSigue, "guardando")'
    BY <2>1, <2>2, <2>3, <2>4, OyeYPide DEF PromocionesInv
  <2>6. Correo(PO)' /\ Guarda(PBorra, PBorrado, "borrando")'
    BY <2>1, <2>2, <2>3, <2>4, OyeYPide DEF PromocionesInv
  <2> QED BY <2>5, <2>6 DEF PromocionesInv
<1>5. CASE m.q.op \in {"crear", "actualizar", "eliminar"} /\ ~m.ok
  <2>1. /\ r.va = FALSE /\ r.pide = <<>> /\ {"guardando", "borrando"} \subseteq DOMAIN r.vista
        /\ m.q.op # "eliminar" => r.vista.borrando = vista.borrando
        /\ m.q.op = "eliminar" => r.vista.guardando = vista.guardando
    BY <1>2, <1>5
  <2>2. /\ m.q.op # "eliminar" => Toma(m.q, PGuarda, PSigue)
        /\ m.q.op = "eliminar" => Toma(m.q, PBorra, PBorrado)
    BY <1>5 DEF Toma, PGuarda, PBorra
  <2> HIDE DEF r, Promociones!Recibir, Promociones!Queda, Promociones!Pide, Promociones!Releer
  <2>3. Oye(i, r.vista, <<>>)
    BY <1>1, <2>1
  <2>4. Correo(PO)' /\ Guarda(PGuarda, PSigue, "guardando")'
    BY <1>5, <2>1, <2>2, <2>3, OyeSolo DEF PromocionesInv
  <2>5. Correo(PO)' /\ Guarda(PBorra, PBorrado, "borrando")'
    BY <1>5, <2>1, <2>2, <2>3, OyeSolo DEF PromocionesInv
  <2> QED BY <2>4, <2>5 DEF PromocionesInv
<1> QED BY <1>2, <1>3, <1>4, <1>5 DEF PO

LEMMA PromocionesSigue == PromocionesInv /\ Promociones!Next => PromocionesInv'
<1> SUFFICES ASSUME PromocionesInv, Promociones!Next PROVE PromocionesInv'
  OBVIOUS
<1>1. {"guardando", "borrando"} \subseteq DOMAIN vista
  BY DEF PromocionesInv, Guarda
<1> USE DEF Promociones!Toque
<1>2. CASE \/ Promociones!AbrirAlta \/ Promociones!AbrirEdicion \/ Promociones!CerrarModal
           \/ Promociones!PedirBaja \/ Promociones!CancelarBaja
  <2>1. /\ ida' = ida \o <<>> /\ vuelta' = vuelta /\ {"guardando", "borrando"} \subseteq DOMAIN vista'
        /\ vista'.guardando = vista.guardando /\ vista'.borrando = vista.borrando
    BY <1>1, <1>2 DEF Promociones!AbrirAlta, Promociones!AbrirEdicion, Promociones!CerrarModal,
       Promociones!PedirBaja, Promociones!CancelarBaja
  <2> QED BY <2>1, ClicSolo DEF PromocionesInv
<1>3. CASE Promociones!Guardar
  <2>0. PICK op \in PGuarda : \E datos :
             /\ ida' = ida \o <<Pedido(op, vista.editando, datos)>> /\ vuelta' = vuelta
             /\ {"guardando", "borrando"} \subseteq DOMAIN vista' /\ vista'.borrando = vista.borrando
             /\ vista.guardando # TRUE /\ vista'.guardando = TRUE
    BY <1>1, <1>3 DEF Promociones!Guardar, Promociones!Pedido, Pedido, PGuarda
  <2>1. PICK datos :
             /\ ida' = ida \o <<Pedido(op, vista.editando, datos)>> /\ vuelta' = vuelta
             /\ {"guardando", "borrando"} \subseteq DOMAIN vista' /\ vista'.borrando = vista.borrando
             /\ vista.guardando # TRUE /\ vista'.guardando = TRUE
    BY <2>0
  <2> DEFINE q == Pedido(op, vista.editando, datos)
  <2>2. EsPedido(q, PO) /\ Marcada(q, PGuarda, PSigue) /\ ~Marcada(q, PBorra, PBorrado)
    BY DEF EsPedido, Marcada, Pedido, PO, PGuarda, PBorra, PBorrado
  <2> HIDE DEF q
  <2> QED BY <2>1, <2>2, Clic DEF PromocionesInv, q
<1>4. CASE Promociones!ConfirmarBaja
  <2> DEFINE q == Pedido("eliminar", vista.borrar, Nada)
  <2>1. /\ ida' = ida \o <<q>> /\ vuelta' = vuelta
        /\ {"guardando", "borrando"} \subseteq DOMAIN vista' /\ vista'.guardando = vista.guardando
        /\ vista.borrando # TRUE /\ vista'.borrando = TRUE
    BY <1>1, <1>4 DEF Promociones!ConfirmarBaja, Promociones!Pedido, Pedido
  <2>2. EsPedido(q, PO) /\ ~Marcada(q, PGuarda, PSigue) /\ Marcada(q, PBorra, PBorrado)
    BY DEF EsPedido, Marcada, Pedido, PO, PGuarda, PSigue, PBorra
  <2> HIDE DEF q
  <2> QED BY <2>1, <2>2, Clic DEF PromocionesInv
<1>5. CASE Promociones!Montar(Promociones!VistaInicial, Promociones!Cargar)
  <2> DEFINE q == Pedido("cargar", Nadie, Nada)
  <2>1. /\ ida' = Huerfanos(ida) \o <<q>> /\ vuelta' = HuerfanasDe(vuelta)
        /\ {"guardando", "borrando"} \subseteq DOMAIN vista'
    BY <1>5 DEF Promociones!Montar, Promociones!VistaInicial, Promociones!Cargar, Promociones!Huerfanos, Huerfanos,
       Promociones!HuerfanasDe, HuerfanasDe, Promociones!Pedido, Pedido, Promociones!Nadie, Nadie
  <2>2. EsPedido(q, PO) /\ ~Marcada(q, PGuarda, PSigue) /\ ~Marcada(q, PBorra, PBorrado)
    BY DEF EsPedido, Marcada, Pedido, PO, PGuarda, PSigue, PBorra, PBorrado
  <2> HIDE DEF q
  <2> QED BY <2>1, <2>2, Monta DEF PromocionesInv
<1> QED BY <1>2, <1>3, <1>4, <1>5, PromocionesResponde, PromocionesRecibe DEF Promociones!Next

LEMMA PromocionesUna == PromocionesInv => UnaDeCada(Promociones!Guardados)
BY GuardaUna DEF PromocionesInv, UnaDeCada, Promociones!Guardados, PGuarda, PBorra

-----------------------------------------------------------------------------
\* The page of the suppliers.
VO == {"listar", "crear", "actualizar", "leer", "importar"}
VG == {"importar"}
ProveedoresInv == Correo(VO) /\ Guarda(VG, {}, "importando")

LEMMA ProveedoresEmpieza == Proveedores!Init => ProveedoresInv
<1> SUFFICES ASSUME Proveedores!Init PROVE ProveedoresInv
  OBVIOUS
<1> DEFINE q == Pedido("listar", Nadie, Nada)
<1>1. ida = <<q>> /\ vuelta = <<>> /\ "importando" \in DOMAIN vista
  BY DEF Proveedores!Init, Proveedores!PeticionesInit, Proveedores!Listar, Proveedores!Pedido, Pedido,
         Proveedores!Nadie, Nadie, Proveedores!VistaInicial
<1>2. EsPedido(q, VO) /\ ~Marcada(q, VG, {})
  BY DEF EsPedido, Marcada, Pedido, VO, VG
<1> HIDE DEF q
<1> QED BY <1>1, <1>2, Empieza DEF ProveedoresInv

LEMMA ProveedoresResponde ==
    ASSUME ProveedoresInv, NEW i, Proveedores!Responde(i)
    PROVE  ProveedoresInv'
<1>1. PICK ok, datos : /\ i \in DOMAIN ida /\ vista' = vista /\ ida' = Sin(ida, i)
                       /\ vuelta' = Append(vuelta, [q |-> ida[i], ok |-> ok, datos |-> datos])
  BY DEF Proveedores!Responde, Proveedores!Atiende, Proveedores!Sin, Sin
<1> QED BY <1>1, GuardaToma DEF ProveedoresInv

LEMMA ProveedoresRecibe ==
    ASSUME ProveedoresInv, NEW i, Proveedores!Recibe(i)
    PROVE  ProveedoresInv'
<1> DEFINE m == vuelta[i]
           r == Proveedores!Recibir(m)
<1>1. /\ i \in DOMAIN vuelta
      /\ r.va = FALSE => Oye(i, r.vista, r.pide)
  BY DEF Oye, Proveedores!Recibe, Proveedores!Llega, Proveedores!Sin, Sin,
         Proveedores!Huerfanos, Huerfanos
<1>2. m.q.op \in VO /\ "importando" \in DOMAIN vista
  BY <1>1 DEF ProveedoresInv, Correo, SonRespuestas, EsRespuesta, EsPedido, Guarda
<1> USE DEF Proveedores!Recibir, Proveedores!Queda, Proveedores!Pide
<1>3. CASE m.q.op \in {"listar", "leer", "importar"} \/ ~m.ok
  <2>1. /\ r.va = FALSE /\ r.pide = <<>> /\ "importando" \in DOMAIN r.vista
        /\ m.q.op # "importar" => r.vista.importando = vista.importando
    BY <1>2, <1>3 DEF VO
  <2>2. m.q.op = "importar" => Toma(m.q, VG, {})
    BY DEF Toma, VG
  <2> HIDE DEF r
  <2> QED BY <1>1, <2>1, <2>2, OyeSolo DEF ProveedoresInv
<1>4. CASE m.q.op \in {"crear", "actualizar"} /\ m.ok
  <2> DEFINE q == Pedido("listar", Nadie, Nada)
  <2>1. /\ r.va = FALSE /\ r.pide = <<q>> /\ "importando" \in DOMAIN r.vista
        /\ r.vista.importando = vista.importando
    BY <1>2, <1>4 DEF Proveedores!Listar, Proveedores!Pedido, Pedido, Proveedores!Nadie, Nadie
  <2>2. EsPedido(q, VO) /\ ~Marcada(q, VG, {})
    BY DEF EsPedido, Marcada, Pedido, VO, VG
  <2> HIDE DEF r, q
  <2> QED BY <1>1, <2>1, <2>2, OyeYPide DEF ProveedoresInv
<1> QED BY <1>2, <1>3, <1>4 DEF VO

LEMMA ProveedoresSigue == ProveedoresInv /\ Proveedores!Next => ProveedoresInv'
<1> SUFFICES ASSUME ProveedoresInv, Proveedores!Next PROVE ProveedoresInv'
  OBVIOUS
<1>1. "importando" \in DOMAIN vista
  BY DEF ProveedoresInv, Guarda
<1> USE DEF Proveedores!Toque, Proveedores!Tropiezo
<1>2. CASE \/ Proveedores!AbrirAlta \/ Proveedores!AbrirEdicion \/ Proveedores!Expandir
           \/ Proveedores!CerrarModal \/ Proveedores!CambiarPestana \/ Proveedores!ElegirProveedor
           \/ Proveedores!QuitarArchivo \/ Proveedores!ImportarOtro
  <2>1. /\ ida' = ida \o <<>> /\ vuelta' = vuelta
        /\ "importando" \in DOMAIN vista' /\ vista'.importando = vista.importando
    BY <1>1, <1>2 DEF Proveedores!AbrirAlta, Proveedores!AbrirEdicion, Proveedores!Expandir,
       Proveedores!CerrarModal, Proveedores!CambiarPestana, Proveedores!ElegirProveedor,
       Proveedores!QuitarArchivo, Proveedores!ImportarOtro
  <2> QED BY <2>1, ClicSolo DEF ProveedoresInv
<1>3. CASE Proveedores!Guardar \/ Proveedores!SoltarArchivo
  <2>0. PICK op \in {"crear", "actualizar", "leer"} : \E id, datos :
             /\ ida' = ida \o <<Pedido(op, id, datos)>> /\ vuelta' = vuelta
             /\ "importando" \in DOMAIN vista' /\ vista'.importando = vista.importando
    <3>1. CASE Proveedores!Guardar
      BY <1>1, <3>1 DEF Proveedores!Guardar, Proveedores!Pedido, Pedido
    <3>2. CASE Proveedores!SoltarArchivo
      BY <1>1, <3>2 DEF Proveedores!SoltarArchivo, Proveedores!Pedido, Pedido
    <3> QED BY <1>3, <3>1, <3>2
  <2>1. PICK id, datos :
             /\ ida' = ida \o <<Pedido(op, id, datos)>> /\ vuelta' = vuelta
             /\ "importando" \in DOMAIN vista' /\ vista'.importando = vista.importando
    BY <2>0
  <2> DEFINE q == Pedido(op, id, datos)
  <2>2. EsPedido(q, VO) /\ ~Marcada(q, VG, {})
    BY DEF EsPedido, Marcada, Pedido, VO, VG
  <2> HIDE DEF q
  <2> QED BY <2>1, <2>2, Clic DEF ProveedoresInv, q
<1>4. CASE Proveedores!AplicarCSV
  <2> DEFINE q == Pedido("importar", vista.proveedor, vista.archivo)
  <2>1. /\ ida' = ida \o <<q>> /\ vuelta' = vuelta
        /\ "importando" \in DOMAIN vista' /\ vista.importando # TRUE /\ vista'.importando = TRUE
    BY <1>1, <1>4 DEF Proveedores!AplicarCSV, Proveedores!Pedido, Pedido
  <2>2. EsPedido(q, VO) /\ Marcada(q, VG, {})
    BY DEF EsPedido, Marcada, Pedido, VO, VG
  <2> HIDE DEF q
  <2> QED BY <2>1, <2>2, Clic DEF ProveedoresInv
<1>5. CASE Proveedores!Montar(Proveedores!VistaInicial, Proveedores!Listar)
  <2> DEFINE q == Pedido("listar", Nadie, Nada)
  <2>1. /\ ida' = Huerfanos(ida) \o <<q>> /\ vuelta' = HuerfanasDe(vuelta)
        /\ "importando" \in DOMAIN vista'
    BY <1>5 DEF Proveedores!Montar, Proveedores!VistaInicial, Proveedores!Listar, Proveedores!Huerfanos, Huerfanos,
       Proveedores!HuerfanasDe, HuerfanasDe, Proveedores!Pedido, Pedido, Proveedores!Nadie, Nadie
  <2>2. EsPedido(q, VO) /\ ~Marcada(q, VG, {})
    BY DEF EsPedido, Marcada, Pedido, VO, VG
  <2> HIDE DEF q
  <2> QED BY <2>1, <2>2, Monta DEF ProveedoresInv
<1> QED BY <1>2, <1>3, <1>4, <1>5, ProveedoresResponde, ProveedoresRecibe DEF Proveedores!Next

LEMMA ProveedoresUna == ProveedoresInv => UnaDeCada(Proveedores!Guardados)
BY GuardaUna DEF ProveedoresInv, UnaDeCada, Proveedores!Guardados, VG

-----------------------------------------------------------------------------
\* The page of the products.
DO == {"listar", "crear", "actualizar", "desactivar", "reactivar", "sumar", "restar", "borrar"}
DG == {"borrar"}
DF == {<<"listar", "borrar">>}
ProductosInv == Correo(DO) /\ Guarda(DG, DF, "borrando")

LEMMA ProductosEmpieza == Productos!Init => ProductosInv
<1> SUFFICES ASSUME Productos!Init PROVE ProductosInv
  OBVIOUS
<1> DEFINE q == Pedido("listar", Nadie, Nada)
<1>1. ida = <<q>> /\ vuelta = <<>> /\ "borrando" \in DOMAIN vista
  BY DEF Productos!Init, Productos!PeticionesInit, Productos!Listar, Productos!Pedido, Pedido,
         Productos!Nadie, Nadie, Productos!VistaInicial
<1>2. EsPedido(q, DO) /\ ~Marcada(q, DG, DF)
  BY DEF EsPedido, Marcada, Pedido, DO, DG, DF
<1> HIDE DEF q
<1> QED BY <1>1, <1>2, Empieza DEF ProductosInv

LEMMA ProductosResponde ==
    ASSUME ProductosInv, NEW i, Productos!Responde(i)
    PROVE  ProductosInv'
<1>1. PICK ok, datos : /\ i \in DOMAIN ida /\ vista' = vista /\ ida' = Sin(ida, i)
                       /\ vuelta' = Append(vuelta, [q |-> ida[i], ok |-> ok, datos |-> datos])
  BY DEF Productos!Responde, Productos!Atiende, Productos!Sin, Sin
<1> QED BY <1>1, GuardaToma DEF ProductosInv

\* The next product to go, or the list once they all went: who borrows the flag has it still.
LEMMA ProductosBorra ==
    ASSUME NEW S
    PROVE  \E q : Productos!BorrarDesde(S) = <<q>> /\ EsPedido(q, DO) /\ Marcada(q, DG, DF)
<1>1. CASE S = {}
  <2> DEFINE q == Tras(Pedido("listar", Nadie, Nada), "borrar")
  <2>1. Productos!BorrarDesde(S) = <<q>>
    BY <1>1 DEF Productos!BorrarDesde, Productos!Tras, Tras, Productos!Pedido, Pedido, Productos!Nadie, Nadie
  <2>2. EsPedido(q, DO) /\ Marcada(q, DG, DF)
    BY DEF EsPedido, Marcada, Pedido, Tras, DO, DF
  <2> QED BY <2>1, <2>2
<1>2. CASE S # {}
  <2> DEFINE x == CHOOSE x \in S : \A y \in S : x <= y
             q == Pedido("borrar", x, S \ {x})
  <2>1. Productos!BorrarDesde(S) = <<q>>
    BY <1>2 DEF Productos!BorrarDesde, Productos!Pedido, Pedido
  <2> HIDE DEF x
  <2>2. EsPedido(q, DO) /\ Marcada(q, DG, DF)
    BY DEF EsPedido, Marcada, Pedido, DO, DG
  <2> QED BY <2>1, <2>2
<1> QED BY <1>1, <1>2

LEMMA ProductosRecibe ==
    ASSUME ProductosInv, NEW i, Productos!Recibe(i)
    PROVE  ProductosInv'
<1> DEFINE m == vuelta[i]
           r == Productos!Recibir(m)
<1>1. /\ i \in DOMAIN vuelta
      /\ r.va = FALSE => Oye(i, r.vista, r.pide)
  BY DEF Oye, Productos!Recibe, Productos!Llega, Productos!Sin, Sin,
         Productos!Huerfanos, Huerfanos
<1>2. m.q.op \in DO /\ "borrando" \in DOMAIN vista
  BY <1>1 DEF ProductosInv, Correo, SonRespuestas, EsRespuesta, EsPedido, Guarda
<1> USE DEF Productos!Recibir, Productos!Queda, Productos!Pide
<1>3. CASE m.q.op = "listar"
  <2>1. /\ r.va = FALSE /\ r.pide = <<>> /\ "borrando" \in DOMAIN r.vista
        /\ m.q.tras # "borrar" => r.vista.borrando = vista.borrando
    BY <1>2, <1>3
  <2>2. m.q.tras = "borrar" => Toma(m.q, DG, DF)
    BY <1>3 DEF Toma, DF
  <2> HIDE DEF r
  <2> QED BY <1>1, <2>1, <2>2, OyeSolo DEF ProductosInv
<1>4. CASE m.q.op \in {"crear", "actualizar"} /\ m.ok
  <2> DEFINE q == Pedido("listar", Nadie, Nada)
  <2>1. /\ r.va = FALSE /\ r.pide = <<q>> /\ "borrando" \in DOMAIN r.vista
        /\ r.vista.borrando = vista.borrando
    BY <1>2, <1>4 DEF Productos!Listar, Productos!Pedido, Pedido, Productos!Nadie, Nadie
  <2>2. EsPedido(q, DO) /\ ~Marcada(q, DG, DF)
    BY DEF EsPedido, Marcada, Pedido, DO, DG, DF
  <2> HIDE DEF r, q
  <2> QED BY <1>1, <2>1, <2>2, OyeYPide DEF ProductosInv
<1>5. CASE \/ m.q.op \in {"crear", "actualizar"} /\ ~m.ok
           \/ m.q.op \in {"desactivar", "reactivar", "sumar", "restar"}
  <2>1. /\ r.va = FALSE /\ r.pide = <<>> /\ "borrando" \in DOMAIN r.vista
        /\ r.vista.borrando = vista.borrando
    BY <1>2, <1>5
  <2> HIDE DEF r
  <2> QED BY <1>1, <2>1, OyeSolo DEF ProductosInv
<1>6. CASE m.q.op = "borrar"
  <2>1. PICK q : /\ Productos!BorrarDesde(m.q.datos) = <<q>>
                 /\ EsPedido(q, DO) /\ Marcada(q, DG, DF)
    BY ProductosBorra
  <2>2. /\ r.va = FALSE /\ r.pide = Productos!BorrarDesde(m.q.datos) /\ "borrando" \in DOMAIN r.vista
        /\ r.vista.borrando = vista.borrando
    BY <1>2, <1>6
  <2>3. Toma(m.q, DG, DF)
    BY <1>6 DEF Toma, DG
  <2> HIDE DEF r
  <2> QED BY <1>1, <2>1, <2>2, <2>3, OyeYPide DEF ProductosInv
<1> QED BY <1>2, <1>3, <1>4, <1>5, <1>6 DEF DO

LEMMA ProductosSigue == ProductosInv /\ Productos!Next => ProductosInv'
<1> SUFFICES ASSUME ProductosInv, Productos!Next PROVE ProductosInv'
  OBVIOUS
<1>1. "borrando" \in DOMAIN vista
  BY DEF ProductosInv, Guarda
<1> USE DEF Productos!Toque, Productos!Tropiezo
<1>2. CASE \/ Productos!AbrirAlta \/ Productos!AbrirEdicion \/ Productos!AbrirStock
           \/ Productos!CerrarModal \/ Productos!Marcar \/ Productos!AbrirBorrado
  <2>1. /\ ida' = ida \o <<>> /\ vuelta' = vuelta
        /\ "borrando" \in DOMAIN vista' /\ vista'.borrando = vista.borrando
    BY <1>1, <1>2 DEF Productos!AbrirAlta, Productos!AbrirEdicion, Productos!AbrirStock,
       Productos!CerrarModal, Productos!Marcar, Productos!AbrirBorrado
  <2> QED BY <2>1, ClicSolo DEF ProductosInv
<1>3. CASE Productos!Guardar \/ Productos!AjustarStock \/ Productos!AlternarActivo
  <2>0. PICK op \in DO \ DG : \E id, datos :
             /\ op # "listar" /\ ida' = ida \o <<Pedido(op, id, datos)>> /\ vuelta' = vuelta
             /\ vista' = vista
    <3>1. CASE Productos!Guardar
      BY <3>1 DEF Productos!Guardar, Productos!Pedido, Pedido, DO, DG
    <3>2. CASE Productos!AjustarStock
      BY <3>2 DEF Productos!AjustarStock, Productos!Pedido, Pedido, DO, DG
    <3>3. CASE Productos!AlternarActivo
      BY <3>3 DEF Productos!AlternarActivo, Productos!Pedido, Pedido, DO, DG
    <3> QED BY <1>3, <3>1, <3>2, <3>3
  <2>1. PICK id, datos :
             /\ op # "listar" /\ ida' = ida \o <<Pedido(op, id, datos)>> /\ vuelta' = vuelta
             /\ vista' = vista
    BY <2>0
  <2> DEFINE q == Pedido(op, id, datos)
  <2>2. EsPedido(q, DO) /\ ~Marcada(q, DG, DF)
    BY <2>1 DEF EsPedido, Marcada, Pedido, DF
  <2> HIDE DEF q
  <2> QED BY <1>1, <2>1, <2>2, Clic DEF ProductosInv, q
<1>4. CASE Productos!BorrarMarcados
  <2>1. PICK q : /\ Productos!BorrarDesde(vista.seleccion) = <<q>>
                 /\ EsPedido(q, DO) /\ Marcada(q, DG, DF)
    BY ProductosBorra
  <2>2. /\ ida' = ida \o <<q>> /\ vuelta' = vuelta
        /\ "borrando" \in DOMAIN vista' /\ vista.borrando # TRUE /\ vista'.borrando = TRUE
    BY <1>1, <1>4, <2>1 DEF Productos!BorrarMarcados
  <2> QED BY <2>1, <2>2, Clic DEF ProductosInv
<1>5. CASE Productos!Montar(Productos!VistaInicial, Productos!Listar)
  <2> DEFINE q == Pedido("listar", Nadie, Nada)
  <2>1. /\ ida' = Huerfanos(ida) \o <<q>> /\ vuelta' = HuerfanasDe(vuelta)
        /\ "borrando" \in DOMAIN vista'
    BY <1>5 DEF Productos!Montar, Productos!VistaInicial, Productos!Listar, Productos!Huerfanos, Huerfanos,
       Productos!HuerfanasDe, HuerfanasDe, Productos!Pedido, Pedido, Productos!Nadie, Nadie
  <2>2. EsPedido(q, DO) /\ ~Marcada(q, DG, DF)
    BY DEF EsPedido, Marcada, Pedido, DO, DG, DF
  <2> HIDE DEF q
  <2> QED BY <2>1, <2>2, Monta DEF ProductosInv
<1> QED BY <1>2, <1>3, <1>4, <1>5, ProductosResponde, ProductosRecibe DEF Productos!Next

LEMMA ProductosUna == ProductosInv => UnaDeCada(Productos!Guardados)
BY GuardaUna DEF ProductosInv, UnaDeCada, Productos!Guardados, DG

-----------------------------------------------------------------------------
\* The page of the inventory: the flags are the members of a set.
IO == {"cargar", "alertas", "ajustar", "crear", "editar", "eliminar", "desarmar"}
IG == {"crear", "editar", "eliminar"}
Seguidas(x) == {<<"cargar", x>>}
Ocupa(x) == Cabe(EnCurso({x}, Seguidas(x)), x \in vista.guardando)
InventarioInv == Correo(IO) /\ "guardando" \in DOMAIN vista /\ \A x \in IG : Ocupa(x)

LEMMA OcupaCursor ==
    ASSUME NEW x
    PROVE  Ocupa(x)' <=> Cabe(EnCurso({x}, Seguidas(x))', x \in vista'.guardando)
BY DEF Ocupa, Cabe

\* A click that asks for q, which takes no flag or that of q.op.
LEMMA OcupaClic ==
    ASSUME InventarioInv, NEW q, EsPedido(q, IO), q.op # "cargar", "guardando" \in DOMAIN vista',
           ida' = ida \o <<q>>, vuelta' = vuelta,
           \/ q.op \notin IG /\ vista'.guardando = vista.guardando
           \/ q.op \in IG /\ q.viva = TRUE /\ q.op \notin vista.guardando
              /\ vista'.guardando = vista.guardando \cup {q.op}
    PROVE  InventarioInv'
<1>1. SonPedidos(<<q>>, IO)
  BY PedidosUno
<1>2. ASSUME NEW x \in IG PROVE Correo(IO)' /\ Ocupa(x)'
  <2> DEFINE antes == x \in vista.guardando
             luego == x \in vista'.guardando
             p == <<q>>
  <2>1. Carga(p, {x}, Seguidas(x)) = IF Marcada(q, {x}, Seguidas(x)) THEN 1 ELSE 0
    BY CargaUna DEF Peso
  <2>2. Marcada(q, {x}, Seguidas(x)) <=> q.viva = TRUE /\ q.op = x
    BY DEF Marcada, Seguidas
  <2>3. \/ Carga(p, {x}, Seguidas(x)) = 0 /\ (antes = TRUE => luego = TRUE)
        \/ Carga(p, {x}, Seguidas(x)) = 1 /\ antes # TRUE /\ luego = TRUE
    BY <2>1, <2>2
  <2>4. Cabe(EnCurso({x}, Seguidas(x)), antes) /\ Correo(IO)
    BY DEF InventarioInv, Ocupa
  <2>5. SonPedidos(p, IO) /\ ida' = ida \o p
    BY <1>1
  <2> HIDE DEF antes, luego, p
  <2>6. Correo(IO)' /\ Cabe(EnCurso({x}, Seguidas(x))', luego)
    BY <2>3, <2>4, <2>5, PasoPide
  <2> QED BY <2>6, OcupaCursor DEF luego
<1>3. "crear" \in IG
  BY DEF IG
<1> QED BY <1>2, <1>3 DEF InventarioInv

\* A click that asks for nothing.
LEMMA OcupaClicSolo ==
    ASSUME InventarioInv, ida' = ida \o <<>>, vuelta' = vuelta,
           "guardando" \in DOMAIN vista', vista'.guardando = vista.guardando
    PROVE  InventarioInv'
<1>1. ASSUME NEW x \in IG PROVE Correo(IO)' /\ Ocupa(x)'
  <2> DEFINE antes == x \in vista.guardando
             luego == x \in vista'.guardando
             p == <<>>
  <2>1. SonPedidos(p, IO) /\ ida' = ida \o p /\ Carga(p, {x}, Seguidas(x)) = 0
    BY NadaPedido
  <2>2. Cabe(EnCurso({x}, Seguidas(x)), antes) /\ Correo(IO) /\ (antes = TRUE => luego = TRUE)
    BY DEF InventarioInv, Ocupa
  <2> HIDE DEF antes, luego, p
  <2>3. Correo(IO)' /\ Cabe(EnCurso({x}, Seguidas(x))', luego)
    BY <2>1, <2>2, PasoPide
  <2> QED BY <2>3, OcupaCursor DEF luego
<1>2. "crear" \in IG
  BY DEF IG
<1> QED BY <1>1, <1>2 DEF InventarioInv

\* An answer after which p is asked for: the flags that go down are those of the request
\* answered, and so are those that what is asked for holds.
LEMMA OcupaOye ==
    ASSUME InventarioInv, NEW i, NEW w, "guardando" \in DOMAIN w,
           NEW p, SonPedidos(p, IO), Oye(i, w, p),
           \A x \in IG :
               \/ Carga(p, {x}, Seguidas(x)) = 0 /\ (x \in vista.guardando => x \in w.guardando)
               \/ Toma(vuelta[i].q, {x}, Seguidas(x)) /\ Carga(p, {x}, Seguidas(x)) = 0
               \/ /\ Toma(vuelta[i].q, {x}, Seguidas(x)) /\ Carga(p, {x}, Seguidas(x)) = 1
                  /\ x \in vista.guardando => x \in w.guardando
    PROVE  InventarioInv'
<1> USE DEF Oye
<1>1. ASSUME NEW x \in IG PROVE Correo(IO)' /\ Ocupa(x)'
  <2> DEFINE antes == x \in vista.guardando
             luego == x \in vista'.guardando
             G == {x}
             F == Seguidas(x)
  <2>1. Cabe(EnCurso(G, F), antes) /\ Correo(IO)
    BY DEF InventarioInv, Ocupa
  <2>2. CASE vuelta[i].q.viva = TRUE
    <3>1. Marcada(vuelta[i].q, G, F) <=> Toma(vuelta[i].q, G, F)
      BY <2>2 DEF Marcada, Toma
    <3>2. \/ Carga(p, G, F) = 0 /\ (antes = TRUE => luego = TRUE)
          \/ Marcada(vuelta[i].q, G, F) /\ Carga(p, G, F) = 0
          \/ Marcada(vuelta[i].q, G, F) /\ Carga(p, G, F) = 1 /\ (antes = TRUE => luego = TRUE)
      BY <2>2, <3>1
    <3>3. i \in DOMAIN vuelta /\ vuelta' = Sin(vuelta, i) /\ ida' = ida \o p
      BY <2>2
    <3> HIDE DEF antes, luego, G, F, Oye
    <3>4. Correo(IO)' /\ Cabe(EnCurso(G, F)', luego)
      BY <2>1, <3>2, <3>3, PasoLlega
    <3> QED BY <3>4, OcupaCursor DEF luego, G, F
  <2>3. CASE vuelta[i].q.viva # TRUE
    <3> DEFINE o == Huerfanos(p)
    <3>1. SonPedidos(o, IO) /\ Carga(o, G, F) = 0
      <4> HIDE DEF G, F
      <4> QED BY Huerfana
    <3>2. i \in DOMAIN vuelta /\ vuelta' = Sin(vuelta, i) /\ ida' = ida \o o /\ (antes = TRUE => luego = TRUE)
      BY <2>3
    <3> HIDE DEF antes, luego, G, F, Oye, o
    <3>3. Correo(IO)' /\ Cabe(EnCurso(G, F)', luego)
      BY <2>1, <3>1, <3>2, PasoLlega
    <3> QED BY <3>3, OcupaCursor DEF luego, G, F
  <2> QED BY <2>2, <2>3
<1>2. "crear" \in IG
  BY DEF IG
<1>3. "guardando" \in DOMAIN vista'
  BY DEF InventarioInv
<1> QED BY <1>1, <1>2, <1>3 DEF InventarioInv

LEMMA InventarioEmpieza == Inventario!Init => InventarioInv
<1> SUFFICES ASSUME Inventario!Init PROVE InventarioInv
  OBVIOUS
<1> DEFINE q == Pedido("cargar", Nadie, Nada)
           p == <<q>>
<1>1. ida = p /\ vuelta = <<>> /\ "guardando" \in DOMAIN vista
  BY DEF Inventario!Init, Inventario!PeticionesInit, Inventario!Cargar, Inventario!Pedido, Pedido,
         Inventario!Nadie, Nadie, Inventario!VistaInicial
<1>2. EsPedido(q, IO)
  BY DEF EsPedido, Pedido, IO
<1>3. SonPedidos(p, IO)
  BY <1>2, PedidosUno
<1>4. ASSUME NEW x \in IG PROVE Correo(IO) /\ Ocupa(x)
  <2>1. ~Marcada(q, {x}, Seguidas(x))
    BY DEF Marcada, Pedido, Seguidas, IG
  <2>2. Carga(p, {x}, Seguidas(x)) = 0
    BY <2>1, CargaUna DEF Peso
  <2> HIDE DEF p
  <2>3. Correo(IO) /\ EnCurso({x}, Seguidas(x)) = 0
    BY <1>1, <1>3, <2>2, CorreoEmpieza
  <2> QED BY <2>3, CabeNadie DEF Ocupa
<1>5. "crear" \in IG
  BY DEF IG
<1> QED BY <1>1, <1>4, <1>5 DEF InventarioInv

LEMMA InventarioResponde ==
    ASSUME InventarioInv, NEW i, Inventario!Responde(i)
    PROVE  InventarioInv'
<1>1. PICK ok, datos : /\ i \in DOMAIN ida /\ vista' = vista /\ ida' = Sin(ida, i)
                       /\ vuelta' = Append(vuelta, [q |-> ida[i], ok |-> ok, datos |-> datos])
  BY DEF Inventario!Responde, Inventario!Atiende, Inventario!Sin, Sin
<1>2. ASSUME NEW x \in IG PROVE Correo(IO)' /\ Ocupa(x)'
  <2>1. Correo(IO)' /\ EnCurso({x}, Seguidas(x))' = EnCurso({x}, Seguidas(x))
    BY <1>1, CorreoToma DEF InventarioInv
  <2> QED BY <1>1, <2>1, OcupaCursor DEF InventarioInv, Ocupa
<1>3. "crear" \in IG
  BY DEF IG
<1> QED BY <1>1, <1>2, <1>3 DEF InventarioInv

LEMMA InventarioRecibe ==
    ASSUME InventarioInv, NEW i, Inventario!Recibe(i)
    PROVE  InventarioInv'
<1> DEFINE m == vuelta[i]
           r == Inventario!Recibir(m)
<1>1. /\ i \in DOMAIN vuelta
      /\ r.va = FALSE => Oye(i, r.vista, r.pide)
  BY DEF Oye, Inventario!Recibe, Inventario!Llega, Inventario!Sin, Sin,
         Inventario!Huerfanos, Huerfanos
<1>2. m.q.op \in IO /\ "guardando" \in DOMAIN vista
  BY <1>1 DEF InventarioInv, Correo, SonRespuestas, EsRespuesta, EsPedido
<1>3. CASE \/ m.q.op \in {"cargar", "alertas"}
           \/ m.q.op \in {"ajustar", "crear", "editar", "eliminar", "desarmar"} /\ ~m.ok
  <2> DEFINE p == <<>>
  <2>1. /\ r.va = FALSE /\ r.pide = p /\ "guardando" \in DOMAIN r.vista
        /\ r.vista.guardando = vista.guardando
                               \ (CASE m.q.op = "cargar" -> {m.q.tras}
                                    [] m.q.op \in {"crear", "editar", "eliminar", "desarmar"} -> {m.q.op}
                                    [] OTHER -> {})
    <3> USE DEF Inventario!Recibir, Inventario!Queda, Inventario!Pide, Inventario!Inventa
    <3>1. CASE m.q.op = "cargar" /\ m.ok
      BY <1>2, <3>1 DEF IG
    <3>2. CASE m.q.op = "cargar" /\ ~m.ok
      BY <1>2, <3>2 DEF IG
    <3>3. CASE m.q.op \in {"alertas", "ajustar"}
      BY <1>2, <1>3, <3>3 DEF IG
    <3>4. CASE m.q.op \in {"crear", "editar", "eliminar", "desarmar"}
      BY <1>2, <1>3, <3>4 DEF IG
    <3> HIDE DEF r, Inventario!Recibir
    <3> QED BY <1>3, <3>1, <3>2, <3>3, <3>4
  <2>2. ASSUME NEW x \in IG
        PROVE  /\ Carga(p, {x}, Seguidas(x)) = 0
               /\ (x \in vista.guardando => x \in r.vista.guardando) \/ Toma(m.q, {x}, Seguidas(x))
    <3>1. Carga(p, {x}, Seguidas(x)) = 0
      BY NadaPedido
    <3>2. (x \in vista.guardando => x \in r.vista.guardando) \/ Toma(m.q, {x}, Seguidas(x))
      <4> HIDE DEF r
      <4> QED BY <2>1 DEF Toma, Seguidas
    <3> QED BY <3>1, <3>2
  <2>3. SonPedidos(p, IO)
    BY NadaPedido
  <2> HIDE DEF r, p
  <2>4. Oye(i, r.vista, p)
    BY <1>1, <2>1
  <2> QED BY <2>1, <2>2, <2>3, <2>4, OcupaOye
<1>4. CASE m.q.op \in {"ajustar", "crear", "editar", "eliminar", "desarmar"} /\ m.ok
  <2> DEFINE q == IF m.q.op = "ajustar" THEN Pedido("alertas", Nadie, Nada)
                  ELSE Tras(Pedido("cargar", Nadie, Nada), m.q.op)
             p == <<q>>
  <2>1. /\ r.va = FALSE /\ r.pide = p /\ "guardando" \in DOMAIN r.vista
        /\ r.vista.guardando = vista.guardando
    <3> USE DEF Inventario!Recibir, Inventario!Queda, Inventario!Pide, Inventario!Inventa
    <3>1. CASE m.q.op = "ajustar"
      BY <1>2, <1>4, <3>1 DEF Inventario!Pedido, Pedido, Inventario!Nadie, Nadie
    <3>2. CASE m.q.op \in {"crear", "editar", "eliminar", "desarmar"}
      BY <1>2, <1>4, <3>2 DEF Inventario!Pedido, Pedido, Inventario!Nadie, Nadie, Inventario!Tras, Tras, IG
    <3> HIDE DEF r, Inventario!Recibir
    <3> QED BY <1>4, <3>1, <3>2
  <2>2. EsPedido(q, IO)
    BY DEF EsPedido, Pedido, Tras, IO
  <2>3. SonPedidos(p, IO)
    BY <2>2, PedidosUno
  <2>4. ASSUME NEW x \in IG
        PROVE  \/ Carga(p, {x}, Seguidas(x)) = 0
               \/ Carga(p, {x}, Seguidas(x)) = 1 /\ Toma(m.q, {x}, Seguidas(x))
    <3>1. Carga(p, {x}, Seguidas(x)) = IF Marcada(q, {x}, Seguidas(x)) THEN 1 ELSE 0
      BY CargaUna DEF Peso
    <3>2. CASE m.q.op = "ajustar"
      <4>1. q.op = "alertas"
        BY <3>2 DEF Pedido
      <4> HIDE DEF q
      <4>2. ~Marcada(q, {x}, Seguidas(x))
        BY <4>1 DEF Marcada, Seguidas, IG
      <4> QED BY <3>1, <4>2
    <3>3. CASE m.q.op # "ajustar"
      <4>1. q.op = "cargar" /\ q.tras = m.q.op
        BY <3>3 DEF Pedido, Tras
      <4> HIDE DEF q
      <4>2. Marcada(q, {x}, Seguidas(x)) => m.q.op = x
        BY <4>1 DEF Marcada, Seguidas, IG
      <4> QED BY <3>1, <4>2 DEF Toma
    <3> QED BY <3>2, <3>3
  <2> HIDE DEF r, p
  <2>5. Oye(i, r.vista, p)
    BY <1>1, <2>1
  <2> HIDE DEF q
  <2> QED BY <2>1, <2>3, <2>4, <2>5, OcupaOye
<1> HIDE DEF m
<1> QED BY <1>2, <1>3, <1>4 DEF IO

LEMMA InventarioSigue == InventarioInv /\ Inventario!Next => InventarioInv'
<1> SUFFICES ASSUME InventarioInv, Inventario!Next PROVE InventarioInv'
  OBVIOUS
<1>1. "guardando" \in DOMAIN vista
  BY DEF InventarioInv
<1> USE DEF Inventario!Toque
<1>2. CASE Inventario!AbrirDesarme \/ Inventario!AbrirVinculo \/ Inventario!CerrarModal
  <2>1. /\ ida' = ida \o <<>> /\ vuelta' = vuelta
        /\ "guardando" \in DOMAIN vista' /\ vista'.guardando = vista.guardando
    BY <1>1, <1>2 DEF Inventario!AbrirDesarme, Inventario!AbrirVinculo, Inventario!CerrarModal
  <2> QED BY <2>1, OcupaClicSolo
<1>3. CASE Inventario!Desarmar \/ Inventario!Ajustar
  <2>0. PICK op \in {"desarmar", "ajustar"} : \E id, datos :
             /\ ida' = ida \o <<Pedido(op, id, datos)>> /\ vuelta' = vuelta /\ vista' = vista
    <3>1. CASE Inventario!Desarmar
      BY <3>1 DEF Inventario!Desarmar, Inventario!Pedido, Pedido
    <3>2. CASE Inventario!Ajustar
      BY <3>2 DEF Inventario!Ajustar, Inventario!Pedido, Pedido
    <3> QED BY <1>3, <3>1, <3>2
  <2>1. PICK id, datos :
             /\ ida' = ida \o <<Pedido(op, id, datos)>> /\ vuelta' = vuelta /\ vista' = vista
    BY <2>0
  <2> DEFINE q == Pedido(op, id, datos)
  <2>2. EsPedido(q, IO) /\ q.op \notin IG /\ q.op # "cargar"
    BY DEF EsPedido, Pedido, IO, IG
  <2> HIDE DEF q
  <2> QED BY <1>1, <2>1, <2>2, OcupaClic DEF q
<1>4. CASE Inventario!GuardarVinculo
  <2>0. PICK op \in IG : \E id, datos :
             /\ ida' = ida \o <<Pedido(op, id, datos)>> /\ vuelta' = vuelta
             /\ "guardando" \in DOMAIN vista' /\ op \notin vista.guardando
             /\ vista'.guardando = vista.guardando \cup {op}
    BY <1>1, <1>4 DEF Inventario!GuardarVinculo, Inventario!Libre, Inventario!Ocupar, Inventario!Pedido, Pedido, IG
  <2>1. PICK id, datos :
             /\ ida' = ida \o <<Pedido(op, id, datos)>> /\ vuelta' = vuelta
             /\ "guardando" \in DOMAIN vista' /\ op \notin vista.guardando
             /\ vista'.guardando = vista.guardando \cup {op}
    BY <2>0
  <2> DEFINE q == Pedido(op, id, datos)
  <2>2. EsPedido(q, IO) /\ q.op = op /\ q.op # "cargar" /\ q.viva = TRUE
    BY DEF EsPedido, Pedido, IO, IG
  <2> HIDE DEF q
  <2> QED BY <2>1, <2>2, OcupaClic DEF q
<1>5. CASE Inventario!Montar(Inventario!VistaInicial, Inventario!Cargar)
  <2> DEFINE q == Pedido("cargar", Nadie, Nada)
             p == <<q>>
  <2>1. /\ ida' = Huerfanos(ida) \o p /\ vuelta' = HuerfanasDe(vuelta)
        /\ "guardando" \in DOMAIN vista'
    BY <1>5 DEF Inventario!Montar, Inventario!VistaInicial, Inventario!Cargar, Inventario!Huerfanos, Huerfanos,
       Inventario!HuerfanasDe, HuerfanasDe, Inventario!Pedido, Pedido, Inventario!Nadie, Nadie
  <2>2. EsPedido(q, IO)
    BY DEF EsPedido, Pedido, IO
  <2>3. SonPedidos(p, IO)
    BY <2>2, PedidosUno
  <2>4. ASSUME NEW x \in IG PROVE Correo(IO)' /\ Ocupa(x)'
    <3>1. ~Marcada(q, {x}, Seguidas(x))
      BY DEF Marcada, Pedido, Seguidas, IG
    <3>2. Carga(p, {x}, Seguidas(x)) = 0
      BY <3>1, CargaUna DEF Peso
    <3>3. Correo(IO) /\ SonRespuestas(vuelta, IO)
      BY DEF InventarioInv, Correo
    <3> HIDE DEF p, q
    <3>4. Correo(IO)' /\ EnCurso({x}, Seguidas(x))' = 0
      BY <2>1, <2>3, <3>2, <3>3, CorreoMonta
    <3> QED BY <3>4, CabeNadie, OcupaCursor
  <2>5. "crear" \in IG
    BY DEF IG
  <2> QED BY <2>1, <2>4, <2>5 DEF InventarioInv
<1> QED BY <1>2, <1>3, <1>4, <1>5, InventarioResponde, InventarioRecibe DEF Inventario!Next

LEMMA InventarioUna == InventarioInv => UnaDeCada(Inventario!Guardados)
<1>1. ASSUME InventarioInv, NEW x \in IG PROVE EnVuelo({x}) <= 1
  <2>1. /\ EnCurso({x}, Seguidas(x)) \in Nat /\ EnVuelo({x}) \in Nat
        /\ EnVuelo({x}) <= EnCurso({x}, Seguidas(x))
    BY <1>1, CursoNatural DEF InventarioInv
  <2> QED BY <1>1, <2>1 DEF InventarioInv, Ocupa, Cabe
<1> QED BY <1>1 DEF UnaDeCada, Inventario!Guardados, IG

-----------------------------------------------------------------------------
\* The page of the price lists.
LO == {"listar", "crear", "actualizar", "eliminar", "obtener", "agregar", "descuento", "quitar", "masivo"}
LGuarda == {"crear", "actualizar", "agregar"}
LSigue == {<<"listar", "guardar">>, <<"obtener", "agregar">>}
LMasivo == {"masivo"}
LAplica == {<<"listar", "masivo">>}
ListasInv ==
    Correo(LO) /\ Guarda(LGuarda, LSigue, "guardando") /\ Guarda(LMasivo, LAplica, "aplicando")
Marcas2 == {"guardando", "aplicando"}

LEMMA ListasEmpieza == Listas!Init => ListasInv
<1> SUFFICES ASSUME Listas!Init PROVE ListasInv
  OBVIOUS
<1> DEFINE q == Pedido("listar", Nadie, Nada)
<1>1. ida = <<q>> /\ vuelta = <<>> /\ Marcas2 \subseteq DOMAIN vista
  BY DEF Listas!Init, Listas!PeticionesInit, Listas!Listar, Listas!Pedido, Pedido, Listas!Todas,
         Listas!Nadie, Nadie, Listas!VistaInicial, Marcas2
<1>2. EsPedido(q, LO) /\ ~Marcada(q, LGuarda, LSigue) /\ ~Marcada(q, LMasivo, LAplica)
  BY DEF EsPedido, Marcada, Pedido, LO, LGuarda, LSigue, LMasivo, LAplica
<1> HIDE DEF q
<1> QED BY <1>1, <1>2, Empieza DEF ListasInv, Marcas2

LEMMA ListasResponde ==
    ASSUME ListasInv, NEW i, Listas!Responde(i)
    PROVE  ListasInv'
<1>1. PICK ok, datos : /\ i \in DOMAIN ida /\ vista' = vista /\ ida' = Sin(ida, i)
                       /\ vuelta' = Append(vuelta, [q |-> ida[i], ok |-> ok, datos |-> datos])
  BY DEF Listas!Responde, Listas!Atiende, Listas!Sin, Sin
<1> QED BY <1>1, GuardaToma DEF ListasInv

LEMMA ListasRecibe ==
    ASSUME ListasInv, NEW i, Listas!Recibe(i)
    PROVE  ListasInv'
<1> DEFINE m == vuelta[i]
           r == Listas!Recibir(m)
<1>1. /\ i \in DOMAIN vuelta
      /\ r.va = FALSE => Oye(i, r.vista, r.pide)
  BY DEF Oye, Listas!Recibe, Listas!Llega, Listas!Sin, Sin,
         Listas!Huerfanos, Huerfanos
<1>2. m.q.op \in LO /\ Marcas2 \subseteq DOMAIN vista
  BY <1>1 DEF ListasInv, Correo, SonRespuestas, EsRespuesta, EsPedido, Guarda, Marcas2
<1> USE DEF Listas!Queda, Listas!Pide
<1>3. CASE m.q.op \in {"listar", "obtener"}
  <2>1. /\ r.va = FALSE /\ r.pide = <<>> /\ Marcas2 \subseteq DOMAIN r.vista
        /\ vista.guardando = TRUE /\ <<m.q.op, m.q.tras>> \notin LSigue => r.vista.guardando = TRUE
        /\ vista.aplicando = TRUE /\ <<m.q.op, m.q.tras>> \notin LAplica => r.vista.aplicando = TRUE
    <3>1. CASE m.q.op = "listar"
      BY <1>2, <3>1 DEF Listas!Recibir, Marcas2, LSigue, LAplica
    <3>2. CASE m.q.op = "obtener"
      BY <1>2, <3>2 DEF Listas!Recibir, Marcas2, LSigue, LAplica
    <3> QED BY <1>3, <3>1, <3>2
  <2>2. /\ <<m.q.op, m.q.tras>> \in LSigue => Toma(m.q, LGuarda, LSigue)
        /\ <<m.q.op, m.q.tras>> \in LAplica => Toma(m.q, LMasivo, LAplica)
    BY DEF Toma
  <2> HIDE DEF r
  <2> QED BY <1>1, <2>1, <2>2, OyeSolo DEF ListasInv, Marcas2
<1>4. CASE m.q.op \in {"crear", "actualizar", "eliminar", "agregar", "descuento", "quitar", "masivo"} /\ ~m.ok
  <2>1. /\ r.va = FALSE /\ r.pide = <<>> /\ Marcas2 \subseteq DOMAIN r.vista
        /\ m.q.op \notin LGuarda => r.vista.guardando = vista.guardando
        /\ m.q.op \notin LMasivo => r.vista.aplicando = vista.aplicando
    <3>1. CASE m.q.op \in {"crear", "actualizar", "eliminar"}
      BY <1>2, <1>4, <3>1 DEF Listas!Recibir, Marcas2, LGuarda, LMasivo
    <3>2. CASE m.q.op \in {"agregar", "descuento", "quitar", "masivo"}
      BY <1>2, <1>4, <3>2 DEF Listas!Recibir, Marcas2, LGuarda, LMasivo
    <3> HIDE DEF r, m
    <3> QED BY <1>4, <3>1, <3>2
  <2>2. /\ m.q.op \in LGuarda => Toma(m.q, LGuarda, LSigue)
        /\ m.q.op \in LMasivo => Toma(m.q, LMasivo, LAplica)
    BY DEF Toma
  <2> HIDE DEF r
  <2> QED BY <1>1, <2>1, <2>2, OyeSolo DEF ListasInv, Marcas2
<1>5. CASE m.q.op \in {"crear", "actualizar", "eliminar", "agregar", "descuento", "quitar", "masivo"} /\ m.ok
  <2>1. PICK q :
             /\ r.va = FALSE /\ r.pide = <<q>> /\ Marcas2 \subseteq DOMAIN r.vista
             /\ r.vista.guardando = vista.guardando /\ r.vista.aplicando = vista.aplicando
             /\ EsPedido(q, LO)
             /\ Marcada(q, LGuarda, LSigue) => m.q.op \in LGuarda
             /\ Marcada(q, LMasivo, LAplica) => m.q.op \in LMasivo
    <3> DEFINE b == IF m.q.tras = "filtrada" THEN Listas!Buscado ELSE Listas!Todas
    <3>1. CASE m.q.op \in {"crear", "actualizar", "eliminar", "masivo"}
      <4> DEFINE t == CASE m.q.op = "eliminar" -> "" [] m.q.op = "masivo" -> "masivo" [] OTHER -> "guardar"
                 q == Tras(Pedido("listar", Nadie, b), t)
      <4>1. /\ r.va = FALSE /\ r.pide = <<q>> /\ Marcas2 \subseteq DOMAIN r.vista
            /\ r.vista.guardando = vista.guardando /\ r.vista.aplicando = vista.aplicando
        BY <1>2, <1>5, <3>1 DEF Listas!Recibir, Marcas2, Listas!Pedido, Pedido, Listas!Tras, Tras,
           Listas!Nadie, Nadie
      <4>2. EsPedido(q, LO) /\ q.op = "listar" /\ q.tras = t
        BY DEF EsPedido, Pedido, Tras, LO
      <4> HIDE DEF q, r
      <4>3. /\ Marcada(q, LGuarda, LSigue) => m.q.op \in LGuarda
            /\ Marcada(q, LMasivo, LAplica) => m.q.op \in LMasivo
        BY <3>1, <4>2 DEF Marcada, LGuarda, LSigue, LMasivo, LAplica
      <4> QED BY <4>1, <4>2, <4>3
    <3>2. CASE m.q.op \in {"agregar", "descuento", "quitar"}
      <4> DEFINE q == Tras(Pedido("obtener", m.q.id, Nada), m.q.op)
      <4>1. /\ r.va = FALSE /\ r.pide = <<q>> /\ Marcas2 \subseteq DOMAIN r.vista
            /\ r.vista.guardando = vista.guardando /\ r.vista.aplicando = vista.aplicando
        BY <1>2, <1>5, <3>2 DEF Listas!Recibir, Marcas2, Listas!Pedido, Pedido, Listas!Tras, Tras
      <4>2. EsPedido(q, LO) /\ q.op = "obtener" /\ q.tras = m.q.op
        BY DEF EsPedido, Pedido, Tras, LO
      <4> HIDE DEF q, r
      <4>3. /\ Marcada(q, LGuarda, LSigue) => m.q.op \in LGuarda
            /\ Marcada(q, LMasivo, LAplica) => m.q.op \in LMasivo
        BY <3>2, <4>2 DEF Marcada, LGuarda, LSigue, LMasivo, LAplica
      <4> QED BY <4>1, <4>2, <4>3
    <3> HIDE DEF r, m
    <3> QED BY <1>5, <3>1, <3>2
  <2>2. /\ m.q.op \in LGuarda => Toma(m.q, LGuarda, LSigue)
        /\ m.q.op \in LMasivo => Toma(m.q, LMasivo, LAplica)
    BY DEF Toma
  <2> HIDE DEF r
  <2> QED BY <1>1, <2>1, <2>2, OyeYPide DEF ListasInv, Marcas2
<1> HIDE DEF m
<1> QED BY <1>2, <1>3, <1>4, <1>5 DEF LO

LEMMA ListasSigue == ListasInv /\ Listas!Next => ListasInv'
<1> SUFFICES ASSUME ListasInv, Listas!Next PROVE ListasInv'
  OBVIOUS
<1>1. Marcas2 \subseteq DOMAIN vista
  BY DEF ListasInv, Guarda, Marcas2
<1> USE DEF Listas!Toque, Listas!Tropiezo, Listas!Recarga, Marcas2
<1>2. CASE \/ Listas!AbrirForm \/ Listas!PedirBaja \/ Listas!CerrarModal \/ Listas!Volver
           \/ Listas!AbrirDialogo \/ Listas!CerrarDialogo \/ Listas!ContinuarMasivo
  <2>1. /\ ida' = ida \o <<>> /\ vuelta' = vuelta /\ Marcas2 \subseteq DOMAIN vista'
        /\ vista'.guardando = vista.guardando /\ vista'.aplicando = vista.aplicando
    BY <1>1, <1>2 DEF Listas!AbrirForm, Listas!PedirBaja, Listas!CerrarModal, Listas!Volver,
       Listas!AbrirDialogo, Listas!CerrarDialogo, Listas!ContinuarMasivo
  <2> QED BY <2>1, ClicSolo DEF ListasInv
<1>3. CASE Listas!Buscar \/ Listas!AbrirDetalle
  <2>0. PICK op \in {"listar", "obtener"} : \E id, datos :
             /\ ida' = ida \o <<Pedido(op, id, datos)>> /\ vuelta' = vuelta
             /\ Marcas2 \subseteq DOMAIN vista'
             /\ vista'.guardando = vista.guardando /\ vista'.aplicando = vista.aplicando
    <3>1. CASE Listas!Buscar
      BY <1>1, <3>1 DEF Listas!Buscar, Listas!Listar, Listas!Pedido, Pedido
    <3>2. CASE Listas!AbrirDetalle
      BY <1>1, <3>2 DEF Listas!AbrirDetalle, Listas!Pedido, Pedido
    <3> QED BY <1>3, <3>1, <3>2
  <2>1. PICK id, datos :
             /\ ida' = ida \o <<Pedido(op, id, datos)>> /\ vuelta' = vuelta
             /\ Marcas2 \subseteq DOMAIN vista'
             /\ vista'.guardando = vista.guardando /\ vista'.aplicando = vista.aplicando
    BY <2>0
  <2> DEFINE q == Pedido(op, id, datos)
  <2>2. EsPedido(q, LO) /\ ~Marcada(q, LGuarda, LSigue) /\ ~Marcada(q, LMasivo, LAplica)
    BY DEF EsPedido, Marcada, Pedido, LO, LGuarda, LSigue, LMasivo, LAplica
  <2> HIDE DEF q
  <2> QED BY <2>1, <2>2, Clic DEF ListasInv, q
<1>4. CASE Listas!ConfirmarBaja \/ Listas!Quitar \/ Listas!CambiarDescuento
  <2>0. PICK op \in {"eliminar", "quitar", "descuento"} : \E id, datos, t :
             /\ ida' = ida \o <<Tras(Pedido(op, id, datos), t)>> /\ vuelta' = vuelta /\ vista' = vista
    <3>1. CASE Listas!ConfirmarBaja
      BY <3>1 DEF Listas!ConfirmarBaja, Listas!Cambia, Listas!ConBusqueda, Listas!Tras, Tras, Listas!Pedido, Pedido
    <3>2. CASE Listas!Quitar
      BY <3>2 DEF Listas!Quitar, Listas!DelDetalle, Listas!ConBusqueda, Listas!Tras, Tras, Listas!Pedido, Pedido
    <3>3. CASE Listas!CambiarDescuento
      BY <3>3 DEF Listas!CambiarDescuento, Listas!DelDetalle, Listas!ConBusqueda, Listas!Tras, Tras, Listas!Pedido, Pedido
    <3> QED BY <1>4, <3>1, <3>2, <3>3
  <2>1. PICK id, datos, t :
             /\ ida' = ida \o <<Tras(Pedido(op, id, datos), t)>> /\ vuelta' = vuelta /\ vista' = vista
    BY <2>0
  <2> DEFINE q == Tras(Pedido(op, id, datos), t)
  <2>2. EsPedido(q, LO) /\ ~Marcada(q, LGuarda, LSigue) /\ ~Marcada(q, LMasivo, LAplica)
    BY DEF EsPedido, Marcada, Pedido, Tras, LO, LGuarda, LSigue, LMasivo, LAplica
  <2> HIDE DEF q
  <2> QED BY <1>1, <2>1, <2>2, Clic DEF ListasInv, q
<1>5. CASE Listas!Guardar \/ Listas!Agregar
  <2>0. PICK op \in LGuarda : \E id, datos, t :
             /\ ida' = ida \o <<Tras(Pedido(op, id, datos), t)>> /\ vuelta' = vuelta
             /\ Marcas2 \subseteq DOMAIN vista' /\ vista'.aplicando = vista.aplicando
             /\ vista.guardando # TRUE /\ vista'.guardando = TRUE
    <3>1. CASE Listas!Guardar
      <4>1. PICK nombre \in Nombres :
                 Listas!Cambia([vista EXCEPT !.guardando = TRUE],
                               <<Listas!ConBusqueda(Listas!Pedido(
                                     IF vista.editando = Listas!Nadie THEN "crear" ELSE "actualizar",
                                     vista.editando, nombre))>>)
        BY <3>1 DEF Listas!Guardar
      <4> DEFINE op == IF vista.editando = Listas!Nadie THEN "crear" ELSE "actualizar"
                 t == IF vista.filtro = Listas!Todas THEN "" ELSE "filtrada"
      <4>2. op \in LGuarda
        BY DEF LGuarda
      <4>3. /\ ida' = ida \o <<Tras(Pedido(op, vista.editando, nombre), t)>> /\ vuelta' = vuelta
            /\ Marcas2 \subseteq DOMAIN vista' /\ vista'.aplicando = vista.aplicando
            /\ vista.guardando # TRUE /\ vista'.guardando = TRUE
        BY <1>1, <3>1, <4>1 DEF Listas!Guardar, Listas!Cambia, Listas!ConBusqueda, Listas!Tras, Tras,
           Listas!Pedido, Pedido
      <4> HIDE DEF op, t
      <4> QED BY <4>2, <4>3
    <3>2. CASE Listas!Agregar
      BY <1>1, <3>2 DEF Listas!Agregar, Listas!DelDetalle, Listas!ConBusqueda, Listas!Tras, Tras, Listas!Pedido, Pedido,
         LGuarda
    <3> QED BY <1>5, <3>1, <3>2
  <2>1. PICK id, datos, t :
             /\ ida' = ida \o <<Tras(Pedido(op, id, datos), t)>> /\ vuelta' = vuelta
             /\ Marcas2 \subseteq DOMAIN vista' /\ vista'.aplicando = vista.aplicando
             /\ vista.guardando # TRUE /\ vista'.guardando = TRUE
    BY <2>0
  <2> DEFINE q == Tras(Pedido(op, id, datos), t)
  <2>2. EsPedido(q, LO) /\ Marcada(q, LGuarda, LSigue) /\ ~Marcada(q, LMasivo, LAplica)
    BY DEF EsPedido, Marcada, Pedido, Tras, LO, LGuarda, LMasivo, LAplica
  <2> HIDE DEF q
  <2> QED BY <2>1, <2>2, Clic DEF ListasInv, q
<1>6. CASE Listas!AplicarMasivo
  <2>1. PICK id, datos, t :
             /\ ida' = ida \o <<Tras(Pedido("masivo", id, datos), t)>> /\ vuelta' = vuelta
             /\ Marcas2 \subseteq DOMAIN vista' /\ vista'.guardando = vista.guardando
             /\ vista.aplicando # TRUE /\ vista'.aplicando = TRUE
    BY <1>1, <1>6 DEF Listas!AplicarMasivo, Listas!DelDetalle, Listas!ConBusqueda, Listas!Tras, Tras, Listas!Pedido, Pedido
  <2> DEFINE q == Tras(Pedido("masivo", id, datos), t)
  <2>2. EsPedido(q, LO) /\ ~Marcada(q, LGuarda, LSigue) /\ Marcada(q, LMasivo, LAplica)
    BY DEF EsPedido, Marcada, Pedido, Tras, LO, LGuarda, LSigue, LMasivo
  <2> HIDE DEF q
  <2> QED BY <2>1, <2>2, Clic DEF ListasInv, q
<1>7. CASE Listas!Montar(Listas!VistaInicial, Listas!Listar(Listas!Todas))
  <2> DEFINE q == Pedido("listar", Nadie, Nada)
  <2>1. /\ ida' = Huerfanos(ida) \o <<q>> /\ vuelta' = HuerfanasDe(vuelta)
        /\ Marcas2 \subseteq DOMAIN vista'
    BY <1>7 DEF Listas!Montar, Listas!VistaInicial, Listas!Listar, Listas!Todas, Listas!Huerfanos, Huerfanos,
       Listas!HuerfanasDe, HuerfanasDe, Listas!Pedido, Pedido, Listas!Nadie, Nadie
  <2>2. EsPedido(q, LO) /\ ~Marcada(q, LGuarda, LSigue) /\ ~Marcada(q, LMasivo, LAplica)
    BY DEF EsPedido, Marcada, Pedido, LO, LGuarda, LSigue, LMasivo, LAplica
  <2> HIDE DEF q
  <2> QED BY <2>1, <2>2, Monta DEF ListasInv
<1> QED BY <1>2, <1>3, <1>4, <1>5, <1>6, <1>7, ListasResponde, ListasRecibe DEF Listas!Next

LEMMA ListasUna == ListasInv => UnaDeCada(Listas!Guardados)
BY GuardaUna DEF ListasInv, UnaDeCada, Listas!Guardados, LGuarda, LMasivo

-----------------------------------------------------------------------------
\* The pages of the purchases: one flag for the button of each.
KO == {"listar", "crear", "obtener", "estado", "estadoDetalle", "eliminar"}
KG == {"crear", "eliminar", "estadoDetalle"}
ComprasInv == Correo(KO) /\ Guarda(KG, {}, "ocupada")

LEMMA ComprasListar ==
    ASSUME NEW t
    PROVE  \E q : Compras!Listar(t) = <<q>> /\ EsPedido(q, KO) /\ ~Marcada(q, KG, {})
<1> DEFINE q == Tras(Pedido("listar", Nadie, Nada), t)
<1>1. Compras!Listar(t) = <<q>>
  BY DEF Compras!Listar, Compras!Tras, Tras, Compras!Pedido, Pedido, Compras!Nadie, Nadie
<1>2. EsPedido(q, KO) /\ ~Marcada(q, KG, {})
  BY DEF EsPedido, Marcada, Pedido, Tras, KO, KG
<1> QED BY <1>1, <1>2

LEMMA ComprasEmpieza == Compras!Init => ComprasInv
<1> SUFFICES ASSUME Compras!Init PROVE ComprasInv
  OBVIOUS
<1>1. PICK q : Compras!Listar(Compras!Todas) = <<q>> /\ EsPedido(q, KO) /\ ~Marcada(q, KG, {})
  BY ComprasListar
<1>2. ida = <<q>> /\ vuelta = <<>> /\ "ocupada" \in DOMAIN vista
  BY <1>1 DEF Compras!Init, Compras!PeticionesInit, Compras!Lista, Compras!Vacia
<1> QED BY <1>1, <1>2, Empieza DEF ComprasInv

LEMMA ComprasResponde ==
    ASSUME ComprasInv, NEW i, Compras!Responde(i)
    PROVE  ComprasInv'
<1>1. PICK ok, datos : /\ i \in DOMAIN ida /\ vista' = vista /\ ida' = Sin(ida, i)
                       /\ vuelta' = Append(vuelta, [q |-> ida[i], ok |-> ok, datos |-> datos])
  BY DEF Compras!Responde, Compras!Atiende, Compras!Sin, Sin
<1> QED BY <1>1, GuardaToma DEF ComprasInv

LEMMA ComprasRecibe ==
    ASSUME ComprasInv, NEW i, Compras!Recibe(i)
    PROVE  ComprasInv'
<1> DEFINE m == vuelta[i]
           r == Compras!Recibir(m)
<1>1. /\ i \in DOMAIN vuelta
      /\ r.va = FALSE => Oye(i, r.vista, r.pide)
      /\ r.va = TRUE => /\ vista' = r.vista /\ ida' = Huerfanos(ida) \o r.pide
                        /\ vuelta' = HuerfanasDe(Sin(vuelta, i))
  BY DEF Oye, Compras!Recibe, Compras!Llega, Compras!Sin, Sin,
         Compras!Huerfanos, Huerfanos, Compras!HuerfanasDe, HuerfanasDe
<1>2. m.q.op \in KO /\ "ocupada" \in DOMAIN vista
  BY <1>1 DEF ComprasInv, Correo, SonRespuestas, EsRespuesta, EsPedido, Guarda
<1> USE DEF Compras!Queda, Compras!Pide, Compras!Inventa
<1>3. CASE m.q.op \in {"listar", "estado", "obtener"}
  <2>1. /\ r.va = FALSE /\ r.pide = <<>> /\ "ocupada" \in DOMAIN r.vista
        /\ r.vista.ocupada = vista.ocupada
    <3>1. CASE m.q.op = "listar"
      BY <1>2, <3>1 DEF Compras!Recibir
    <3>2. CASE m.q.op = "obtener"
      BY <1>2, <3>2 DEF Compras!Recibir
    <3>3. CASE m.q.op = "estado"
      BY <1>2, <3>3 DEF Compras!Recibir
    <3> QED BY <1>3, <3>1, <3>2, <3>3
  <2> HIDE DEF r
  <2> QED BY <1>1, <2>1, OyeSolo DEF ComprasInv
<1>4. CASE m.q.op \in KG /\ r.va = FALSE
  <2>1. r.pide = <<>> /\ "ocupada" \in DOMAIN r.vista
    <3>1. CASE m.q.op = "crear"
      BY <1>2, <1>4, <3>1 DEF Compras!Recibir, Compras!LlevaA
    <3>2. CASE m.q.op = "eliminar"
      BY <1>2, <3>2 DEF Compras!Recibir
    <3>3. CASE m.q.op = "estadoDetalle"
      BY <1>2, <3>3 DEF Compras!Recibir
    <3> QED BY <1>4, <3>1, <3>2, <3>3 DEF KG
  <2>2. Toma(m.q, KG, {})
    BY <1>4 DEF Toma
  <2> HIDE DEF r
  <2> QED BY <1>1, <1>4, <2>1, <2>2, OyeSolo DEF ComprasInv
<1>5. CASE m.q.op \in KG /\ r.va # FALSE
  <2>1. /\ r.va = TRUE /\ r.pide = Compras!Listar(Compras!Todas)
        /\ r.vista = Compras!Lista
    <3>1. CASE m.q.op = "crear"
      BY <1>2, <1>5, <3>1 DEF Compras!Recibir, Compras!LlevaA
    <3>2. CASE m.q.op = "eliminar"
      BY <1>2, <1>5, <3>2 DEF Compras!Recibir
    <3>3. CASE m.q.op = "estadoDetalle"
      BY <1>2, <1>5, <3>3 DEF Compras!Recibir
    <3> QED BY <1>5, <3>1, <3>2, <3>3 DEF KG
  <2>2. "ocupada" \in DOMAIN Compras!Lista
    BY DEF Compras!Lista, Compras!Vacia
  <2>3. PICK q : Compras!Listar(Compras!Todas) = <<q>> /\ EsPedido(q, KO) /\ ~Marcada(q, KG, {})
    BY ComprasListar
  <2> HIDE DEF r
  <2> QED BY <1>1, <2>1, <2>2, <2>3, Lleva DEF ComprasInv
<1> HIDE DEF m
<1> QED BY <1>2, <1>3, <1>4, <1>5 DEF KO, KG

LEMMA ComprasSigue == ComprasInv /\ Compras!Next => ComprasInv'
<1> SUFFICES ASSUME ComprasInv, Compras!Next PROVE ComprasInv'
  OBVIOUS
<1>1. "ocupada" \in DOMAIN vista
  BY DEF ComprasInv, Guarda
<1> USE DEF Compras!Toque, Compras!Tropiezo, Compras!Recarga
<1>2. CASE Compras!PedirBaja \/ Compras!CancelarBaja
  <2>1. /\ ida' = ida \o <<>> /\ vuelta' = vuelta
        /\ "ocupada" \in DOMAIN vista' /\ vista'.ocupada = vista.ocupada
    BY <1>1, <1>2 DEF Compras!PedirBaja, Compras!CancelarBaja
  <2> QED BY <2>1, ClicSolo DEF ComprasInv
<1>3. CASE Compras!Filtrar \/ Compras!Actualizar
  <2>1. PICK t : /\ ida' = ida \o Compras!Listar(t) /\ vuelta' = vuelta
                 /\ "ocupada" \in DOMAIN vista' /\ vista'.ocupada = vista.ocupada
    BY <1>1, <1>3 DEF Compras!Filtrar, Compras!Actualizar
  <2>2. PICK q : Compras!Listar(t) = <<q>> /\ EsPedido(q, KO) /\ ~Marcada(q, KG, {})
    BY ComprasListar
  <2> QED BY <2>1, <2>2, Clic DEF ComprasInv
<1>4. CASE Compras!CambiarEstado
  <2>1. PICK id, t :
             /\ ida' = ida \o <<Tras(Pedido("estado", id, Nada), t)>> /\ vuelta' = vuelta /\ vista' = vista
    BY <1>4 DEF Compras!CambiarEstado, Compras!Cambia, Compras!Tras, Tras, Compras!Pedido, Pedido
  <2> DEFINE q == Tras(Pedido("estado", id, Nada), t)
  <2>2. EsPedido(q, KO) /\ ~Marcada(q, KG, {})
    BY DEF EsPedido, Marcada, Pedido, Tras, KO, KG
  <2> HIDE DEF q
  <2> QED BY <1>1, <2>1, <2>2, Clic DEF ComprasInv, q
<1>5. CASE Compras!ConfirmarBaja \/ Compras!GuardarCompra \/ Compras!CambiarEstadoDetalle
  <2>1. PICK q :
             /\ ida' = ida \o <<q>> /\ vuelta' = vuelta /\ EsPedido(q, KO) /\ Marcada(q, KG, {})
             /\ "ocupada" \in DOMAIN vista' /\ vista.ocupada # TRUE /\ vista'.ocupada = TRUE
    <3>1. CASE Compras!ConfirmarBaja
      <4> DEFINE q == Pedido("eliminar", vista.borrar, Nada)
      <4>1. /\ ida' = ida \o <<q>> /\ vuelta' = vuelta
            /\ "ocupada" \in DOMAIN vista' /\ vista.ocupada # TRUE /\ vista'.ocupada = TRUE
        BY <1>1, <3>1 DEF Compras!ConfirmarBaja, Compras!Cambia, Compras!Pedido, Pedido
      <4>2. EsPedido(q, KO) /\ Marcada(q, KG, {})
        BY DEF EsPedido, Marcada, Pedido, KO, KG
      <4> QED BY <4>1, <4>2
    <3>2. CASE Compras!GuardarCompra
      <4>1. PICK renglones, pagos, vence :
                 /\ vista.ocupada # TRUE
                 /\ Compras!Toque([vista EXCEPT !.ocupada = TRUE],
                        <<Compras!Pedido("crear", Compras!Nadie,
                            [renglones |-> Compras!Llenos(renglones), vence |-> vence,
                             pagos |-> SelectSeq(pagos, LAMBDA x : x > 0)])>>)
        BY <3>2 DEF Compras!GuardarCompra
      <4> DEFINE datos == [renglones |-> Compras!Llenos(renglones), vence |-> vence,
                           pagos |-> SelectSeq(pagos, LAMBDA x : x > 0)]
                 q == Pedido("crear", Nadie, datos)
      <4>2. Compras!Toque([vista EXCEPT !.ocupada = TRUE], <<q>>)
        BY <4>1 DEF Compras!Pedido, Pedido, Compras!Nadie, Nadie
      <4> HIDE DEF datos
      <4>3. EsPedido(q, KO) /\ Marcada(q, KG, {})
        BY DEF EsPedido, Marcada, Pedido, KO, KG
      <4> HIDE DEF q
      <4> QED BY <1>1, <4>1, <4>2, <4>3
    <3>3. CASE Compras!CambiarEstadoDetalle
      <4>1. PICK t :
                 /\ ida' = ida \o <<Tras(Pedido("estadoDetalle", vista.id, Nada), t)>> /\ vuelta' = vuelta
                 /\ "ocupada" \in DOMAIN vista' /\ vista.ocupada # TRUE /\ vista'.ocupada = TRUE
        BY <1>1, <3>3 DEF Compras!CambiarEstadoDetalle, Compras!Tras, Tras, Compras!Pedido, Pedido
      <4> DEFINE q == Tras(Pedido("estadoDetalle", vista.id, Nada), t)
      <4>2. EsPedido(q, KO) /\ Marcada(q, KG, {})
        BY DEF EsPedido, Marcada, Pedido, Tras, KO, KG
      <4> HIDE DEF q
      <4> QED BY <4>1, <4>2 DEF q
    <3> QED BY <1>5, <3>1, <3>2, <3>3
  <2> QED BY <2>1, Clic DEF ComprasInv
<1>6. CASE Compras!IrANueva
  <2>1. /\ ida' = Huerfanos(ida) \o <<>> /\ vuelta' = HuerfanasDe(vuelta) /\ "ocupada" \in DOMAIN vista'
    BY <1>6 DEF Compras!IrANueva, Compras!Montar, Compras!Nueva, Compras!Vacia,
       Compras!Huerfanos, Huerfanos, Compras!HuerfanasDe, HuerfanasDe
  <2> QED BY <2>1, MontaSolo DEF ComprasInv
<1>7. CASE Compras!IrADetalle
  <2>1. PICK id : /\ ida' = Huerfanos(ida) \o <<Pedido("obtener", id, Nada)>> /\ vuelta' = HuerfanasDe(vuelta)
                  /\ "ocupada" \in DOMAIN vista'
    BY <1>7 DEF Compras!IrADetalle, Compras!Montar, Compras!Detalle, Compras!Vacia, Compras!Pedido, Pedido,
       Compras!Huerfanos, Huerfanos, Compras!HuerfanasDe, HuerfanasDe
  <2> DEFINE q == Pedido("obtener", id, Nada)
  <2>2. EsPedido(q, KO) /\ ~Marcada(q, KG, {})
    BY DEF EsPedido, Marcada, Pedido, KO, KG
  <2> HIDE DEF q
  <2> QED BY <2>1, <2>2, Monta DEF ComprasInv, q
<1>8. CASE Compras!Volver
  <2>1. /\ ida' = Huerfanos(ida) \o Compras!Listar(Compras!Todas) /\ vuelta' = HuerfanasDe(vuelta)
        /\ "ocupada" \in DOMAIN vista'
    BY <1>8 DEF Compras!Volver, Compras!Montar, Compras!Lista, Compras!Vacia,
       Compras!Huerfanos, Huerfanos, Compras!HuerfanasDe, HuerfanasDe
  <2>2. PICK q : Compras!Listar(Compras!Todas) = <<q>> /\ EsPedido(q, KO) /\ ~Marcada(q, KG, {})
    BY ComprasListar
  <2> QED BY <2>1, <2>2, Monta DEF ComprasInv
<1> QED BY <1>2, <1>3, <1>4, <1>5, <1>6, <1>7, <1>8, ComprasResponde, ComprasRecibe DEF Compras!Next

LEMMA ComprasUna == ComprasInv => UnaDeCada(Compras!Guardados)
<1> SUFFICES ASSUME ComprasInv PROVE UnaDeCada(Compras!Guardados)
  OBVIOUS
<1>1. EnVuelo(KG) <= 1
  BY GuardaUna DEF ComprasInv
<1>2. ASSUME NEW K \in SUBSET KG PROVE EnVuelo(K) <= 1
  BY <1>1, <1>2, MenosVuelan DEF ComprasInv
<1> QED BY <1>2 DEF UnaDeCada, Compras!Guardados, KG

-----------------------------------------------------------------------------
\* The session: one renewal, one restoration of the user, one form of the login; the
\* request of a form may also be waiting for the renewal.
SE == {"entrar", "clave", "datos", "salir"}
SO == SE \cup {"refrescar", "restaurar"}
SR == {"refrescar"}
SI == {"restaurar"}
SG == {"entrar", "clave"}
SCampos == {"renovando", "ingresando", "esperan"}
Aguardan(s) == SonPedidos(s, SE) /\ \A k \in DOMAIN s : s[k].viva = TRUE
Formularios == EnCurso(SG, {}) + Carga(vista.esperan, SG, {})
SesionInv ==
    /\ Correo(SO)
    /\ SCampos \subseteq DOMAIN vista
    /\ Aguardan(vista.esperan)
    /\ Cabe(EnCurso(SI, {}), TRUE)
    /\ Cabe(EnCurso(SR, {}), vista.renovando)
    /\ Cabe(Formularios, vista.ingresando)

LEMMA SesionCursor ==
    ASSUME Correo(SO)', SCampos \subseteq DOMAIN vista', Aguardan(vista'.esperan),
           Cabe(EnCurso(SI, {})', TRUE), Cabe(EnCurso(SR, {})', vista'.renovando),
           Cabe(EnCurso(SG, {})' + Carga(vista'.esperan, SG, {}), vista'.ingresando)
    PROVE  SesionInv'
<1>1. Formularios' = EnCurso(SG, {})' + Carga(vista'.esperan, SG, {})
  BY DEF Formularios, Carga, Marcas, Marcada
<1>2. Aguardan(vista.esperan)'
  BY DEF Aguardan, SonPedidos, EsPedido, Sucesion
<1>3. /\ Cabe(EnCurso(SI, {}), TRUE)' /\ Cabe(EnCurso(SR, {}), vista.renovando)'
      /\ Cabe(Formularios, vista.ingresando)'
  BY <1>1 DEF Cabe
<1> QED BY <1>2, <1>3 DEF SesionInv

LEMMA SesionNumeros ==
    ASSUME SesionInv
    PROVE  /\ EnCurso(SI, {}) \in Nat /\ EnCurso(SR, {}) \in Nat /\ EnCurso(SG, {}) \in Nat
           /\ Carga(vista.esperan, SG, {}) \in Nat
<1>1. Correo(SO) /\ Sucesion(vista.esperan)
  BY DEF SesionInv, Aguardan, SonPedidos
<1> QED BY <1>1, CursoNatural, CargaNatural

\* A click that asks for p.
LEMMA SesionPide ==
    ASSUME SesionInv, SCampos \subseteq DOMAIN vista', vista'.esperan = vista.esperan,
           NEW p, SonPedidos(p, SO), ida' = ida \o p, vuelta' = vuelta,
           Carga(p, SI, {}) = 0,
           \/ Carga(p, SR, {}) = 0 /\ (vista.renovando = TRUE => vista'.renovando = TRUE)
           \/ Carga(p, SR, {}) = 1 /\ vista.renovando # TRUE /\ vista'.renovando = TRUE,
           \/ Carga(p, SG, {}) = 0 /\ (vista.ingresando = TRUE => vista'.ingresando = TRUE)
           \/ Carga(p, SG, {}) = 1 /\ vista.ingresando # TRUE /\ vista'.ingresando = TRUE
    PROVE  SesionInv'
<1>1. Correo(SO) /\ Cabe(EnCurso(SI, {}), TRUE) /\ Cabe(EnCurso(SR, {}), vista.renovando)
      /\ Cabe(Formularios, vista.ingresando) /\ Aguardan(vista.esperan)
  BY DEF SesionInv
<1>2. Correo(SO)' /\ Cabe(EnCurso(SI, {})', TRUE)
  BY <1>1, PasoPide
<1>3. Cabe(EnCurso(SR, {})', vista'.renovando)
  BY <1>1, PasoPide
<1>4. EnCurso(SG, {})' = EnCurso(SG, {}) + Carga(p, SG, {})
  BY <1>1, CorreoPide
<1>5. EnCurso(SG, {}) \in Nat /\ Carga(vista.esperan, SG, {}) \in Nat /\ Carga(p, SG, {}) \in Nat
  BY SesionNumeros, CargaNatural DEF SonPedidos
<1> DEFINE m == Formularios
           c == Carga(p, SG, {})
           antes == vista.ingresando
           luego == vista'.ingresando
<1>6. m \in Nat /\ EnCurso(SG, {})' + Carga(vista'.esperan, SG, {}) = m + c
  BY <1>4, <1>5 DEF Formularios
<1>7. /\ Cabe(m, antes)
      /\ \/ c = 0 /\ (antes = TRUE => luego = TRUE)
         \/ c = 1 /\ antes # TRUE /\ luego = TRUE
  BY <1>1
<1> HIDE DEF m, c, antes, luego
<1>8. Cabe(m + c, luego)
  BY <1>6, <1>7, CabeMas
<1> QED BY <1>1, <1>2, <1>3, <1>6, <1>8, SesionCursor DEF luego

\* What is kept, against what was held: with less of it the flag may go down.
Pasa(guardado, tenido, antes, luego) ==
    \/ guardado <= tenido /\ (antes = TRUE => luego = TRUE)
    \/ guardado < tenido

LEMMA CabeTodo ==
    ASSUME NEW n \in Nat, NEW e \in Nat, NEW b \in {0, 1}, NEW c \in Nat, NEW d \in Nat,
           n - b + c \in Nat, NEW antes, NEW luego, Cabe(n + e, antes),
           Pasa(c + d, b + e, antes, luego)
    PROVE  Cabe(n - b + c + d, luego)
<1> USE DEF Pasa
<1>1. CASE c + d <= b + e /\ (antes = TRUE => luego = TRUE)
  <2>1. n + e <= 1 /\ (antes = TRUE \/ n + e = 0)
    BY DEF Cabe
  <2>2. n - b + c + d <= 1 /\ (n + e = 0 => n - b + c + d = 0)
    BY <1>1, <2>1
  <2> QED BY <1>1, <2>1, <2>2 DEF Cabe
<1>2. CASE c + d < b + e
  <2>1. n + e <= 1
    BY DEF Cabe
  <2>2. n - b + c + d = 0
    BY <1>2, <2>1
  <2> QED BY <2>2 DEF Cabe
<1> QED BY <1>1, <1>2

\* An answer, after which p is asked for.
LEMMA SesionOye ==
    ASSUME SesionInv, NEW i \in DOMAIN vuelta, vuelta' = Sin(vuelta, i),
           NEW p, SonPedidos(p, SO), ida' = ida \o p,
           SCampos \subseteq DOMAIN vista', Aguardan(vista'.esperan),
           Carga(p, SI, {}) = 0,
           \/ Carga(p, SR, {}) = 0 /\ (vista.renovando = TRUE => vista'.renovando = TRUE)
           \/ Marcada(vuelta[i].q, SR, {}) /\ Carga(p, SR, {}) = 0
           \/ Carga(p, SR, {}) = 1 /\ vista.renovando # TRUE /\ vista'.renovando = TRUE,
           Pasa(Carga(p, SG, {}) + Carga(vista'.esperan, SG, {}),
                Peso(vuelta[i].q, SG, {}) + Carga(vista.esperan, SG, {}),
                vista.ingresando, vista'.ingresando)
    PROVE  SesionInv'
<1>1. Correo(SO) /\ Cabe(EnCurso(SI, {}), TRUE) /\ Cabe(EnCurso(SR, {}), vista.renovando)
      /\ Cabe(Formularios, vista.ingresando)
  BY DEF SesionInv
<1>2. Correo(SO)' /\ Cabe(EnCurso(SI, {})', TRUE)
  BY <1>1, PasoLlega
<1>4. Cabe(EnCurso(SR, {})', vista'.renovando)
  BY <1>1, PasoLlega
<1>0. /\ EnCurso(SG, {})' = EnCurso(SG, {}) - Peso(vuelta[i].q, SG, {}) + Carga(p, SG, {})
      /\ EnCurso(SG, {})' \in Nat
  <2>1. Correo(SO) /\ i \in DOMAIN vuelta /\ vuelta' = Sin(vuelta, i) /\ SonPedidos(p, SO) /\ ida' = ida \o p
    BY <1>1
  <2>2. ASSUME NEW G, NEW F
        PROVE  /\ EnCurso(G, F)' = EnCurso(G, F) - Peso(vuelta[i].q, G, F) + Carga(p, G, F)
               /\ EnCurso(G, F)' \in Nat
    BY <2>1, CorreoLlega
  <2> QED BY <2>2
<1> DEFINE n == EnCurso(SG, {})
           e == Carga(vista.esperan, SG, {})
           b == Peso(vuelta[i].q, SG, {})
           c == Carga(p, SG, {})
           d == Carga(vista'.esperan, SG, {})
           antes == vista.ingresando
           luego == vista'.ingresando
<1>5. EnCurso(SG, {})' = n - b + c /\ n - b + c \in Nat
  BY <1>0
<1>6. n \in Nat /\ e \in Nat
  BY SesionNumeros
<1>7. c \in Nat /\ d \in Nat
  BY CargaNatural DEF SonPedidos, Aguardan
<1>8. b \in {0, 1}
  BY DEF Peso
<1>9. Cabe(n + e, antes)
  BY <1>1 DEF Formularios
<1>10. Pasa(c + d, b + e, antes, luego)
  OBVIOUS
<1>11. n - b + c \in Nat
  BY <1>5
<1> HIDE DEF n, e, b, c, d, antes, luego
<1>12. Cabe(n - b + c + d, luego)
  BY <1>6, <1>7, <1>8, <1>9, <1>10, <1>11, CabeTodo
<1> QED BY <1>2, <1>4, <1>5, <1>12, SesionCursor DEF luego, d

\* A page that has just been loaded.
LEMMA SesionCarga ==
    ASSUME Correo(SO), NEW t, SonRespuestas(t, SO), vuelta' = HuerfanasDe(t),
           NEW p, SonPedidos(p, SO), ida' = Huerfanos(ida) \o p,
           Carga(p, SI, {}) \in {0, 1}, Carga(p, SR, {}) = 0, Carga(p, SG, {}) = 0,
           SCampos \subseteq DOMAIN vista', vista'.esperan = <<>>
    PROVE  SesionInv'
<1>1. Correo(SO)' /\ EnCurso(SI, {})' = Carga(p, SI, {})
  BY CorreoMonta
<1>2. EnCurso(SR, {})' = 0 /\ EnCurso(SG, {})' = 0
  BY CorreoMonta
<1>3. Cabe(EnCurso(SI, {})', TRUE)
  BY <1>1 DEF Cabe
<1>4. Aguardan(<<>>)
  BY SucesionUna DEF Aguardan, SonPedidos
<1>5. Carga(vista'.esperan, SG, {}) = 0
  BY CargaUna
<1>6. EnCurso(SG, {})' + Carga(vista'.esperan, SG, {}) = 0
  BY <1>2, <1>5
<1> QED BY <1>1, <1>2, <1>3, <1>4, <1>6, CabeNadie, SesionCursor

LEMMA UnoDeSesion ==
    ASSUME NEW op \in SO, NEW id, NEW datos
    PROVE  /\ SonPedidos(<<Pedido(op, id, datos)>>, SO)
           /\ Carga(<<Pedido(op, id, datos)>>, SI, {}) = IF op \in SI THEN 1 ELSE 0
           /\ Carga(<<Pedido(op, id, datos)>>, SR, {}) = IF op \in SR THEN 1 ELSE 0
           /\ Carga(<<Pedido(op, id, datos)>>, SG, {}) = IF op \in SG THEN 1 ELSE 0
<1> DEFINE q == Pedido(op, id, datos)
<1>1. EsPedido(q, SO) /\ \A G : Marcada(q, G, {}) <=> op \in G
  BY DEF EsPedido, Marcada, Pedido
<1> HIDE DEF q
<1>2. SonPedidos(<<q>>, SO)
  BY <1>1, PedidosUno
<1>3. \A G : Carga(<<q>>, G, {}) = IF op \in G THEN 1 ELSE 0
  BY <1>1, CargaUna DEF Peso
<1> QED BY <1>2, <1>3 DEF q

\* What a page that is loaded asks for.
LEMMA SesionRestaurar ==
    ASSUME NEW v, NEW p, p = Sesion!Restaurar(v)
    PROVE  /\ SonPedidos(p, SO) /\ Carga(p, SI, {}) \in {0, 1}
           /\ Carga(p, SR, {}) = 0 /\ Carga(p, SG, {}) = 0
<1>1. CASE p = <<Pedido("restaurar", v.refresco, Nada)>>
  <2>1. "restaurar" \in SO /\ "restaurar" \in SI /\ "restaurar" \notin SR /\ "restaurar" \notin SG
    BY DEF SO, SI, SR, SG
  <2> QED BY <1>1, <2>1, UnoDeSesion
<1>2. CASE p = <<>>
  <2>1. SonPedidos(<<>>, SO) /\ \A G : Carga(<<>>, G, {}) = 0
    BY NadaPedido
  <2> QED BY <1>2, <2>1
<1> QED BY <1>1, <1>2 DEF Sesion!Restaurar, Sesion!Pedido, Pedido

LEMMA SesionArrancar ==
    ASSUME NEW v
    PROVE  SCampos \subseteq DOMAIN Sesion!Arrancar(v) /\ Sesion!Arrancar(v).esperan = <<>>
BY DEF Sesion!Arrancar, Sesion!Cargada, Sesion!Fuera, Sesion!SinTokens, SCampos

LEMMA SesionEmpieza == Sesion!Init => SesionInv
<1> SUFFICES ASSUME Sesion!Init PROVE SesionInv
  OBVIOUS
<1> DEFINE p == <<>>
<1>1. ida = p /\ vuelta = <<>> /\ SCampos \subseteq DOMAIN vista /\ vista.esperan = <<>>
  BY DEF Sesion!Init, Sesion!PeticionesInit, Sesion!VistaInicial, Sesion!Cargada, SCampos
<1>2. SonPedidos(p, SO) /\ Carga(p, SI, {}) = 0 /\ Carga(p, SR, {}) = 0 /\ Carga(p, SG, {}) = 0
  BY NadaPedido
<1> HIDE DEF p
<1>3. Correo(SO) /\ EnCurso(SI, {}) = 0 /\ EnCurso(SR, {}) = 0 /\ EnCurso(SG, {}) = 0
  BY <1>1, <1>2, CorreoEmpieza
<1>4. Aguardan(<<>>) /\ Carga(<<>>, SG, {}) = 0
  BY SucesionUna, CargaUna DEF Aguardan, SonPedidos
<1>5. Formularios = 0
  BY <1>1, <1>3, <1>4 DEF Formularios
<1> QED BY <1>1, <1>3, <1>4, <1>5, CabeNadie DEF SesionInv

LEMMA SesionResponde ==
    ASSUME SesionInv, NEW i, Sesion!Responde(i)
    PROVE  SesionInv'
<1>1. PICK ok, datos : /\ i \in DOMAIN ida /\ vista' = vista /\ ida' = Sin(ida, i)
                       /\ vuelta' = Append(vuelta, [q |-> ida[i], ok |-> ok, datos |-> datos])
  BY DEF Sesion!Responde, Sesion!Atiende, Sesion!Sin, Sin
<1>2. Correo(SO)' /\ \A G : EnCurso(G, {})' = EnCurso(G, {})
  <2>1. Correo(SO)
    BY DEF SesionInv
  <2>2. ASSUME NEW G PROVE Correo(SO)' /\ EnCurso(G, {})' = EnCurso(G, {})
    BY <1>1, <2>1, CorreoToma
  <2> QED BY <2>2
<1>3. EnCurso(SG, {})' + Carga(vista'.esperan, SG, {}) = Formularios
  BY <1>1, <1>2 DEF Formularios
<1> QED BY <1>1, <1>2, <1>3, SesionCursor DEF SesionInv

\* The end of a handler: a form is free again, and nothing else is.
LEMMA SesionFin ==
    ASSUME NEW v, SCampos \subseteq DOMAIN v, NEW q, q.op \in SE, NEW ok, NEW datos,
           NEW w, w = Sesion!Fin(v, q, ok, datos)
    PROVE  /\ SCampos \subseteq DOMAIN w /\ w.esperan = v.esperan /\ w.renovando = v.renovando
           /\ q.op \notin SG => w.ingresando = v.ingresando
<1> USE DEF Sesion!ConPar, Sesion!Fuera, Sesion!SinTokens, SCampos, SG
<1>1. CASE q.op = "entrar"
  BY <1>1 DEF Sesion!Fin
<1>2. CASE q.op = "clave"
  BY <1>2 DEF Sesion!Fin
<1>3. CASE q.op = "salir"
  BY <1>3 DEF Sesion!Fin
<1>4. CASE q.op = "datos"
  BY <1>4 DEF Sesion!Fin
<1> QED BY <1>1, <1>2, <1>3, <1>4 DEF SE

LEMMA SesionFallan ==
    ASSUME NEW v, SCampos \subseteq DOMAIN v, NEW qs,
           NEW w, w = Sesion!Fallan(Sesion!SinTokens(v), qs)
    PROVE  /\ SCampos \subseteq DOMAIN w /\ w.esperan = v.esperan /\ w.renovando = v.renovando
           /\ (\A k \in DOMAIN qs : qs[k].op \notin SG) => w.ingresando = v.ingresando
BY DEF Sesion!Fallan, Sesion!Fuera, Sesion!SinTokens, SCampos, SG

\* Those that waited, asked again.
LEMMA SesionReintentar ==
    ASSUME NEW v, Aguardan(v.esperan), NEW p, p = Sesion!Reintentar(v)
    PROVE  /\ SonPedidos(p, SO) /\ Carga(p, SI, {}) = 0 /\ Carga(p, SR, {}) = 0
           /\ Carga(p, SG, {}) = Carga(v.esperan, SG, {})
<1> DEFINE s == v.esperan
<1>1. Sucesion(s) /\ Len(s) \in Nat /\ DOMAIN s = 1 .. Len(s)
      /\ \A k \in DOMAIN s : EsPedido(s[k], SE) /\ s[k].viva = TRUE
  BY SucesionLarga DEF Aguardan, SonPedidos
<1>2. p = [k \in DOMAIN s |-> Tras(Pedido(s[k].op, v.acceso, s[k].datos), "reintento")]
  BY DEF Sesion!Reintentar, Sesion!Tras, Tras, Sesion!Con, Sesion!Pedido, Pedido
<1> HIDE DEF s
<1>3. \A k \in DOMAIN p : EsPedido(p[k], SE) /\ p[k].op = s[k].op /\ p[k].viva = TRUE
  <2> SUFFICES ASSUME NEW k \in DOMAIN p
               PROVE  EsPedido(p[k], SE) /\ p[k].op = s[k].op /\ p[k].viva = TRUE
    OBVIOUS
  <2> DEFINE op == s[k].op
             q == Tras(Pedido(op, v.acceso, s[k].datos), "reintento")
  <2>1. p[k] = q /\ op \in SE
    BY <1>1, <1>2 DEF EsPedido
  <2> HIDE DEF op
  <2>2. EsPedido(q, SE) /\ q.op = op /\ q.viva = TRUE
    BY <2>1 DEF EsPedido, Tras, Pedido
  <2> QED BY <2>1, <2>2 DEF op
<1>4. DOMAIN p = DOMAIN s /\ p = [k \in 1 .. Len(s) |-> p[k]]
  BY <1>1, <1>2
<1>5. Sucesion(p)
  BY <1>1, <1>4, SucesionDe
<1>6. SonPedidos(p, SO)
  BY <1>3, <1>5 DEF SonPedidos, EsPedido, SO
<1>7. Marcas(p, SI, {}) = {} /\ Marcas(p, SR, {}) = {}
  BY <1>3 DEF Marcas, Marcada, EsPedido, SE, SI, SR
<1>8. Marcas(p, SG, {}) = Marcas(s, SG, {})
  BY <1>1, <1>3, <1>4 DEF Marcas, Marcada
<1> QED BY <1>6, <1>7, <1>8, FS_EmptySet DEF Carga, s

LEMMA SesionCuantos ==
    ASSUME NEW s, Aguardan(s)
    PROVE  /\ (\A k \in DOMAIN s : s[k].op \notin SG) => Carga(s, SG, {}) = 0
           /\ (\E k \in DOMAIN s : s[k].op \in SG) => Carga(s, SG, {}) >= 1
           /\ Carga(s, SG, {}) \in Nat
<1> DEFINE M == Marcas(s, SG, {})
<1>1. Len(s) \in Nat /\ DOMAIN s = 1 .. Len(s)
  BY SucesionLarga DEF Aguardan, SonPedidos
<1>2. M \in SUBSET (1 .. Len(s)) /\ \A k \in DOMAIN s : k \in M <=> s[k].op \in SG
  BY <1>1 DEF Marcas, Marcada, Aguardan
<1> HIDE DEF M
<1>3. IsFiniteSet(M) /\ Cardinality(M) \in Nat
  BY <1>1, <1>2, DelUnoAl
<1>4. Cardinality(M) = 0 <=> M = {}
  BY <1>3, FS_EmptySet
<1>5. (\A k \in DOMAIN s : s[k].op \notin SG) => M = {}
  BY <1>1, <1>2
<1>6. (\E k \in DOMAIN s : s[k].op \in SG) => M # {}
  BY <1>2
<1>7. Carga(s, SG, {}) = Cardinality(M)
  BY DEF Carga, M
<1> QED BY <1>3, <1>4, <1>5, <1>6, <1>7

LEMMA PasaIgual == ASSUME NEW n \in Nat, NEW b \in {0, 1}, NEW f PROVE Pasa(n, b + n, f, f)
BY DEF Pasa

\* An answer after which nothing is asked for.
LEMMA SesionOyeSolo ==
    ASSUME SesionInv, NEW i \in DOMAIN vuelta, vuelta' = Sin(vuelta, i),
           ida' = ida \o <<>> \/ ida' = ida \o Huerfanos(<<>>),
           SCampos \subseteq DOMAIN vista', Aguardan(vista'.esperan),
           (vista.renovando = TRUE => vista'.renovando = TRUE) \/ Marcada(vuelta[i].q, SR, {}),
           Pasa(Carga(vista'.esperan, SG, {}), Peso(vuelta[i].q, SG, {}) + Carga(vista.esperan, SG, {}),
                vista.ingresando, vista'.ingresando)
    PROVE  SesionInv'
<1>1. PICK p : p \in {<<>>, Huerfanos(<<>>)} /\ ida' = ida \o p
  OBVIOUS
<1>2. SonPedidos(p, SO) /\ Carga(p, SI, {}) = 0 /\ Carga(p, SR, {}) = 0 /\ Carga(p, SG, {}) = 0
  <2>1. SonPedidos(<<>>, SO) /\ \A G : Carga(<<>>, G, {}) = 0
    BY NadaPedido
  <2>2. SonPedidos(Huerfanos(<<>>), SO) /\ \A G : Carga(Huerfanos(<<>>), G, {}) = 0
    BY <2>1, Huerfana
  <2> QED BY <1>1, <2>1, <2>2
<1> DEFINE d == Carga(vista'.esperan, SG, {})
           c == Carga(p, SG, {})
<1>3. c + d = d
  <2>1. d \in Nat
    BY SesionCuantos
  <2> HIDE DEF d
  <2> QED BY <1>2, <2>1
<1>4. Pasa(c + d, Peso(vuelta[i].q, SG, {}) + Carga(vista.esperan, SG, {}), vista.ingresando, vista'.ingresando)
  BY <1>3
<1> QED BY <1>1, <1>2, <1>4, SesionOye

LEMMA AguardanJuntos ==
    ASSUME NEW s, Aguardan(s), NEW t, Aguardan(t)
    PROVE  Aguardan(s \o t)
<1>1. SonPedidos(s \o t, SE)
  BY PedidosJuntos DEF Aguardan
<1>2. /\ DOMAIN (s \o t) = 1 .. Len(s) + Len(t)
      /\ \A k \in 1 .. Len(s) : (s \o t)[k] = s[k]
      /\ \A k \in 1 .. Len(t) : (s \o t)[Len(s) + k] = t[k]
  BY SucesionJunta DEF Aguardan, SonPedidos
<1>3. Len(s) \in Nat /\ Len(t) \in Nat /\ DOMAIN s = 1 .. Len(s) /\ DOMAIN t = 1 .. Len(t)
  BY SucesionLarga DEF Aguardan, SonPedidos
<1>4. ASSUME NEW k \in DOMAIN (s \o t) PROVE (s \o t)[k].viva = TRUE
  <2>1. CASE k \in 1 .. Len(s)
    BY <1>2, <1>3, <2>1 DEF Aguardan
  <2>2. CASE k \notin 1 .. Len(s)
    <3>1. k - Len(s) \in 1 .. Len(t) /\ Len(s) + (k - Len(s)) = k
      BY <1>2, <1>3, <2>2
    <3>2. (s \o t)[k] = t[k - Len(s)]
      BY <1>2, <3>1
    <3> QED BY <1>3, <3>1, <3>2 DEF Aguardan
  <2> QED BY <2>1, <2>2
<1> QED BY <1>1, <1>4 DEF Aguardan

\* An answer after which the page is loaded again.
LEMMA SesionLleva ==
    ASSUME SesionInv, NEW i \in DOMAIN vuelta, vuelta' = HuerfanasDe(Sin(vuelta, i)), NEW w,
           vista' = Sesion!Arrancar(w), ida' = Huerfanos(ida) \o Sesion!Restaurar(w)
    PROVE  SesionInv'
<1>1. Correo(SO) /\ SonRespuestas(Sin(vuelta, i), SO)
  BY CorreoSin DEF SesionInv, Correo
<1> DEFINE p == Sesion!Restaurar(w)
<1>2. /\ SonPedidos(p, SO) /\ Carga(p, SI, {}) \in {0, 1}
      /\ Carga(p, SR, {}) = 0 /\ Carga(p, SG, {}) = 0
  BY SesionRestaurar
<1>3. SCampos \subseteq DOMAIN vista' /\ vista'.esperan = <<>>
  BY SesionArrancar
<1> HIDE DEF p
<1> QED BY <1>1, <1>2, <1>3, SesionCarga DEF p

\* The page changes, and asks for nothing more.
SoloQueda(r, w) == r.va = FALSE /\ r.pide = <<>> /\ r.vista = w

\* What the page makes of the answer to a request that is not for tokens.
LEMMA SesionOpciones ==
    ASSUME NEW m, m.q.op \in SE, m.q.viva = TRUE, NEW r, r = Sesion!Recibir(m)
    PROVE  \/ \E ok, datos : SoloQueda(r, Sesion!Fin(vista, m.q, ok, datos))
           \/ SoloQueda(r, Sesion!Fallan(Sesion!SinTokens(vista), <<m.q>>))
           \/ \E w : r = Sesion!LlevaA(Sesion!Arrancar(w), Sesion!Restaurar(w))
           \/ r = Sesion!Queda([vista EXCEPT !.esperan = Append(@, m.q)])
           \/ /\ vista.renovando # TRUE
              /\ \E duda : r = [Sesion!Pide([vista EXCEPT !.renovando = TRUE, !.esperan = <<m.q>>],
                                            <<Pedido("refrescar", vista.refresco, Nada)>>) EXCEPT !.duda = duda]
<1>1. m.q.op # "refrescar" /\ m.q.op # "restaurar"
  BY DEF SE
<1>2. \A w : SoloQueda(Sesion!Queda(w), w)
  BY DEF Sesion!Queda, SoloQueda
<1>3. CASE ~m.ok /\ m.datos # Nada
  <2>1. r = Sesion!Caduca(vista, m.q)
    BY <1>1, <1>3 DEF Sesion!Recibir
  <2>2. ASSUME NEW qs, Sesion!Expulsar(vista, qs) = r
        PROVE  \/ r = Sesion!Queda(Sesion!Fallan(Sesion!SinTokens(vista), qs))
               \/ \E w : r = Sesion!LlevaA(Sesion!Arrancar(w), Sesion!Restaurar(w))
    BY <2>2 DEF Sesion!Expulsar
  <2>3. CASE m.q.id = Sesion!Nadie
    <3>1. r = Sesion!Queda(Sesion!Fin(vista, m.q, FALSE, Nada))
      BY <2>1, <2>3 DEF Sesion!Caduca
    <3>2. SoloQueda(r, Sesion!Fin(vista, m.q, FALSE, Nada))
      BY <1>2, <3>1
    <3> QED BY <3>2
  <2>4. CASE r = Sesion!Expulsar(vista, <<m.q>>)
    <3> DEFINE w == Sesion!Fallan(Sesion!SinTokens(vista), <<m.q>>)
    <3>1. \/ r = Sesion!Queda(w)
          \/ \E x : r = Sesion!LlevaA(Sesion!Arrancar(x), Sesion!Restaurar(x))
      BY <2>2, <2>4
    <3> HIDE DEF w
    <3>2. CASE r = Sesion!Queda(w)
      BY <1>2, <3>2 DEF w
    <3> QED BY <3>1, <3>2
  <2>5. CASE m.q.id # Sesion!Nadie /\ r # Sesion!Expulsar(vista, <<m.q>>)
    BY <2>1, <2>5 DEF Sesion!Caduca, Sesion!Pedido, Pedido
  <2> QED BY <2>3, <2>4, <2>5
<1>4. CASE ~(~m.ok /\ m.datos # Nada)
  <2> DEFINE w == Sesion!Fin(vista, m.q, m.ok, m.datos)
  <2>1. r = [Sesion!Queda(w) EXCEPT !.duda = Sesion!SinNada(m)]
    BY <1>1, <1>4 DEF Sesion!Recibir
  <2> HIDE DEF w
  <2>2. SoloQueda(r, w)
    BY <2>1 DEF Sesion!Queda, SoloQueda
  <2> QED BY <2>2 DEF w
<1> QED BY <1>3, <1>4

\* A renewal ends.
LEMMA SesionRenueva ==
    ASSUME SesionInv, NEW i, Sesion!Recibe(i), vuelta[i].q.viva = TRUE, vuelta[i].q.op = "refrescar"
    PROVE  SesionInv'
<1> DEFINE m == vuelta[i]
           e == Carga(vista.esperan, SG, {})
           b == Peso(m.q, SG, {})
           v == [vista EXCEPT !.renovando = FALSE, !.esperan = <<>>]
           r == Sesion!Renovado(m)
<1>1. /\ i \in DOMAIN vuelta
      /\ r.va = FALSE => /\ vuelta' = Sin(vuelta, i) /\ vista' = r.vista /\ ida' = ida \o r.pide
      /\ r.va = TRUE => /\ vista' = r.vista /\ ida' = Huerfanos(ida) \o r.pide
                        /\ vuelta' = HuerfanasDe(Sin(vuelta, i))
  <2>1. Sesion!Recibir(m) = r
    BY DEF Sesion!Recibir
  <2> HIDE DEF r
  <2> QED BY <2>1 DEF Sesion!Recibe, Sesion!Llega, Sesion!Sin, Sin,
             Sesion!Huerfanos, Huerfanos, Sesion!HuerfanasDe, HuerfanasDe
<1>2. SCampos \subseteq DOMAIN vista /\ Aguardan(vista.esperan)
  BY DEF SesionInv
<1>3. Marcada(m.q, SR, {}) /\ b = 0
  BY DEF Marcada, SR, Peso, SG
<1>4. SCampos \subseteq DOMAIN v /\ v.esperan = <<>> /\ v.ingresando = vista.ingresando
  BY <1>2 DEF SCampos
<1>5. e \in Nat /\ b \in {0, 1}
  BY <1>2, <1>3, SesionCuantos
<1>6. Aguardan(<<>>) /\ Carga(<<>>, SG, {}) = 0
  BY SucesionUna, CargaUna DEF Aguardan, SonPedidos
<1>7. 0 <= e /\ 0 <= b + e /\ (0 < e => 0 < b + e)
  BY <1>3, <1>5
<1>8. CASE m.ok
  <2> DEFINE w == Sesion!ConPar(v, m.datos.par)
             u == [w EXCEPT !.esperan = vista.esperan]
             p == Sesion!Reintentar(u)
  <2>1. r.va = FALSE /\ r.vista = w /\ r.pide = p
    BY <1>8 DEF Sesion!Renovado, Sesion!Pide, Sesion!Queda
  <2>2. SCampos \subseteq DOMAIN w /\ w.esperan = <<>> /\ w.ingresando = vista.ingresando
        /\ u.esperan = vista.esperan
    BY <1>4 DEF Sesion!ConPar, SCampos
  <2> HIDE DEF r, v, w, u
  <2>3. /\ SonPedidos(p, SO) /\ Carga(p, SI, {}) = 0 /\ Carga(p, SR, {}) = 0
        /\ Carga(p, SG, {}) = e
    BY <1>2, <2>2, SesionReintentar
  <2> HIDE DEF p
  <2>4. Pasa(Carga(p, SG, {}) + Carga(w.esperan, SG, {}), b + e, vista.ingresando, w.ingresando)
    <3>1. Carga(p, SG, {}) + Carga(w.esperan, SG, {}) = e
      BY <1>5, <1>6, <2>2, <2>3
    <3> HIDE DEF e, b
    <3> QED BY <1>5, <2>2, <3>1, PasaIgual
  <2>5. vista' = w /\ vuelta' = Sin(vuelta, i) /\ ida' = ida \o p
    BY <1>1, <2>1
  <2>6. Aguardan(w.esperan)
    BY <1>6, <2>2
  <2> QED BY <1>1, <1>3, <2>2, <2>3, <2>4, <2>5, <2>6, SesionOye
<1>9. CASE ~m.ok /\ (vista.esperan = <<>> \/ Sesion!EnLogin(v))
  <2>1. PICK w : /\ r.va = FALSE /\ r.vista = w /\ r.pide = <<>>
                 /\ SCampos \subseteq DOMAIN w /\ w.esperan = <<>>
                 /\ \/ w.ingresando = vista.ingresando
                    \/ \E k \in DOMAIN vista.esperan : vista.esperan[k].op \in SG
    <3>1. CASE vista.esperan = <<>>
      <4>1. r.va = FALSE /\ r.vista = v /\ r.pide = <<>>
        BY <1>9, <3>1 DEF Sesion!Renovado, Sesion!Queda
      <4> QED BY <1>4, <4>1
    <3>2. CASE vista.esperan # <<>>
      <4> DEFINE w == Sesion!Fallan(Sesion!SinTokens(v), vista.esperan)
      <4>1. r.va = FALSE /\ r.vista = w /\ r.pide = <<>>
        BY <1>9, <3>2 DEF Sesion!Renovado, Sesion!Queda, Sesion!Expulsar
      <4> HIDE DEF r, v
      <4>2. /\ SCampos \subseteq DOMAIN w /\ w.esperan = v.esperan
            /\ (\A k \in DOMAIN vista.esperan : vista.esperan[k].op \notin SG) => w.ingresando = v.ingresando
        BY <1>4, SesionFallan
      <4> HIDE DEF w
      <4> QED BY <1>4, <4>1, <4>2
    <3> QED BY <3>1, <3>2
  <2> HIDE DEF r
  <2>2. vista' = w /\ vuelta' = Sin(vuelta, i) /\ ida' = ida \o <<>>
    BY <1>1, <2>1
  <2>3. (\E k \in DOMAIN vista.esperan : vista.esperan[k].op \in SG) => 0 < e
    <3>1. (\E k \in DOMAIN vista.esperan : vista.esperan[k].op \in SG) => e >= 1
      BY <1>2, SesionCuantos
    <3> HIDE DEF e
    <3> QED BY <1>5, <3>1
  <2>4. Pasa(Carga(w.esperan, SG, {}), b + e, vista.ingresando, w.ingresando)
    <3>1. Carga(w.esperan, SG, {}) = 0
      BY <1>6, <2>1
    <3> HIDE DEF e, b
    <3> QED BY <1>7, <2>1, <2>3, <3>1 DEF Pasa
  <2>5. Aguardan(w.esperan)
    BY <1>6, <2>1
  <2> QED BY <1>1, <1>3, <2>1, <2>2, <2>4, <2>5, SesionOyeSolo
<1>10. CASE ~m.ok /\ vista.esperan # <<>> /\ ~Sesion!EnLogin(v)
  <2> DEFINE w == Sesion!SinTokens(v)
  <2>1. r.va = TRUE /\ r.vista = Sesion!Arrancar(w) /\ r.pide = Sesion!Restaurar(w)
    BY <1>10 DEF Sesion!Renovado, Sesion!Expulsar, Sesion!LlevaA, Sesion!Pide, Sesion!Queda
  <2> HIDE DEF r, w
  <2> QED BY <1>1, <2>1, SesionLleva
<1> QED BY <1>8, <1>9, <1>10

LEMMA SesionRecibe ==
    ASSUME SesionInv, NEW i, Sesion!Recibe(i)
    PROVE  SesionInv'
<1> DEFINE m == vuelta[i]
           e == Carga(vista.esperan, SG, {})
           b == Peso(m.q, SG, {})
           r == Sesion!Recibir(m)
<1>1. /\ i \in DOMAIN vuelta
      /\ r.va = FALSE => /\ vuelta' = Sin(vuelta, i)
                         /\ vista' = IF m.q.viva = TRUE THEN r.vista ELSE vista
                         /\ ida' = ida \o (IF m.q.viva = TRUE THEN r.pide ELSE Huerfanos(r.pide))
      /\ r.va = TRUE => /\ vista' = r.vista /\ ida' = Huerfanos(ida) \o r.pide
                        /\ vuelta' = HuerfanasDe(Sin(vuelta, i))
  BY DEF Sesion!Recibe, Sesion!Llega, Sesion!Sin, Sin,
         Sesion!Huerfanos, Huerfanos, Sesion!HuerfanasDe, HuerfanasDe
<1>2. SCampos \subseteq DOMAIN vista /\ Aguardan(vista.esperan)
  BY DEF SesionInv
<1>3. e \in Nat /\ b \in {0, 1}
  BY <1>2, SesionCuantos DEF Peso
<1>4. m.q.op \in SO
  BY <1>1 DEF SesionInv, Correo, SonRespuestas, EsRespuesta, EsPedido
<1>5. CASE m.q.viva # TRUE
  <2>1. r.va = FALSE /\ r.pide = <<>> /\ r.vista = vista
    BY <1>5 DEF Sesion!Recibir, Sesion!Queda
  <2> HIDE DEF r
  <2>2. vista' = vista /\ vuelta' = Sin(vuelta, i) /\ ida' = ida \o Huerfanos(<<>>)
    BY <1>1, <1>5, <2>1
  <2>3. Pasa(e, b + e, vista.ingresando, vista.ingresando)
    <3> HIDE DEF e, b
    <3> QED BY <1>3, PasaIgual
  <2>4. Carga(vista'.esperan, SG, {}) = e
    BY <2>2
  <2> QED BY <1>1, <1>2, <2>2, <2>3, <2>4, SesionOyeSolo
<1>6. CASE m.q.viva = TRUE /\ m.q.op = "refrescar"
  BY <1>6, SesionRenueva
<1>7. CASE m.q.viva = TRUE /\ m.q.op = "restaurar"
  <2>1. /\ r.va = FALSE /\ r.pide = <<>> /\ SCampos \subseteq DOMAIN r.vista /\ r.vista.esperan = vista.esperan
        /\ r.vista.renovando = vista.renovando /\ r.vista.ingresando = vista.ingresando
    <3>1. r = Sesion!Restaurado(m)
      BY <1>7 DEF Sesion!Recibir
    <3> HIDE DEF r, m
    <3> USE DEF Sesion!Restaurado, Sesion!Queda, Sesion!ConPar, Sesion!Fuera, Sesion!SinTokens, SCampos
    <3>2. CASE m.ok
      BY <1>2, <3>1, <3>2
    <3>3. CASE ~m.ok
      BY <1>2, <3>1, <3>3
    <3> QED BY <3>2, <3>3
  <2> HIDE DEF r
  <2>2. vista' = r.vista /\ vuelta' = Sin(vuelta, i) /\ ida' = ida \o <<>>
    BY <1>1, <1>7, <2>1
  <2>3. Pasa(e, b + e, vista.ingresando, vista.ingresando)
    <3> HIDE DEF e, b
    <3> QED BY <1>3, PasaIgual
  <2>4. Carga(vista'.esperan, SG, {}) = e
    BY <2>1, <2>2
  <2> QED BY <1>1, <1>2, <2>1, <2>2, <2>3, <2>4, SesionOyeSolo
<1>8. CASE m.q.viva = TRUE /\ m.q.op \in SE
  <2>1. \/ \E ok, datos : SoloQueda(r, Sesion!Fin(vista, m.q, ok, datos))
        \/ SoloQueda(r, Sesion!Fallan(Sesion!SinTokens(vista), <<m.q>>))
        \/ \E w : r = Sesion!LlevaA(Sesion!Arrancar(w), Sesion!Restaurar(w))
        \/ r = Sesion!Queda([vista EXCEPT !.esperan = Append(@, m.q)])
        \/ /\ vista.renovando # TRUE
           /\ \E duda : r = [Sesion!Pide([vista EXCEPT !.renovando = TRUE, !.esperan = <<m.q>>],
                                         <<Pedido("refrescar", vista.refresco, Nada)>>) EXCEPT !.duda = duda]
    BY <1>8, SesionOpciones
  <2>2. b = IF m.q.op \in SG THEN 1 ELSE 0
    BY <1>8 DEF Peso, Marcada
  <2> HIDE DEF r
  <2>3. CASE \/ \E ok, datos : SoloQueda(r, Sesion!Fin(vista, m.q, ok, datos))
             \/ SoloQueda(r, Sesion!Fallan(Sesion!SinTokens(vista), <<m.q>>))
    <3>1. PICK w : /\ SoloQueda(r, w)
                   /\ SCampos \subseteq DOMAIN w /\ w.esperan = vista.esperan
                   /\ w.renovando = vista.renovando
                   /\ m.q.op \notin SG => w.ingresando = vista.ingresando
      <4>1. CASE \E ok, datos : SoloQueda(r, Sesion!Fin(vista, m.q, ok, datos))
        BY <1>2, <1>8, <4>1, SesionFin
      <4>2. CASE SoloQueda(r, Sesion!Fallan(Sesion!SinTokens(vista), <<m.q>>))
        <5> DEFINE w == Sesion!Fallan(Sesion!SinTokens(vista), <<m.q>>)
                   qs == <<m.q>>
        <5>1. DOMAIN qs = {1} /\ qs[1] = m.q
          BY SucesionUna
        <5>2. /\ SCampos \subseteq DOMAIN w /\ w.esperan = vista.esperan /\ w.renovando = vista.renovando
              /\ (\A k \in DOMAIN qs : qs[k].op \notin SG) => w.ingresando = vista.ingresando
          BY <1>2, SesionFallan
        <5> HIDE DEF w, qs, m
        <5> QED BY <4>2, <5>1, <5>2 DEF w, qs
      <4> QED BY <2>3, <4>1, <4>2
    <3>2. vista' = w /\ vuelta' = Sin(vuelta, i) /\ ida' = ida \o <<>>
      BY <1>1, <1>8, <3>1 DEF SoloQueda
    <3>3. Pasa(e, b + e, vista.ingresando, w.ingresando)
      <4>1. m.q.op \in SG => e < b + e
        <5> HIDE DEF e, b
        <5> QED BY <1>3, <2>2
      <4>2. e <= b + e
        <5> HIDE DEF e, b
        <5> QED BY <1>3
      <4> HIDE DEF e, b
      <4> QED BY <3>1, <4>1, <4>2 DEF Pasa
    <3>4. Carga(vista'.esperan, SG, {}) = e /\ Aguardan(vista'.esperan)
      BY <1>2, <3>1, <3>2
    <3> QED BY <1>1, <3>1, <3>2, <3>3, <3>4, SesionOyeSolo
  <2>4. CASE \E w : r = Sesion!LlevaA(Sesion!Arrancar(w), Sesion!Restaurar(w))
    <3>1. PICK w : r = Sesion!LlevaA(Sesion!Arrancar(w), Sesion!Restaurar(w))
      BY <2>4
    <3>2. r.va = TRUE /\ r.vista = Sesion!Arrancar(w) /\ r.pide = Sesion!Restaurar(w)
      BY <3>1 DEF Sesion!LlevaA, Sesion!Pide, Sesion!Queda
    <3> QED BY <1>1, <3>2, SesionLleva
  <2>5. EsPedido(m.q, SE) /\ EsPedido(m.q, SO)
    BY <1>1, <1>8 DEF SesionInv, Correo, SonRespuestas, EsRespuesta, EsPedido
  <2>6. Aguardan(<<m.q>>) /\ Carga(<<m.q>>, SG, {}) = b /\ Sucesion(<<m.q>>)
    <3>1. SonPedidos(<<m.q>>, SE) /\ DOMAIN <<m.q>> = {1} /\ <<m.q>>[1] = m.q /\ Sucesion(<<m.q>>)
      BY <2>5, PedidosUno, SucesionUna
    <3> QED BY <1>8, <3>1, CargaUna DEF Aguardan
  <2>7. CASE r = Sesion!Queda([vista EXCEPT !.esperan = Append(@, m.q)])
    <3> DEFINE s == vista.esperan \o <<m.q>>
               w == [vista EXCEPT !.esperan = s]
    <3>1. Append(vista.esperan, m.q) = s
      BY <1>2, SucesionMas DEF Aguardan, SonPedidos
    <3>2. r = Sesion!Queda(w)
      BY <2>7, <3>1
    <3>3. vista' = w /\ vuelta' = Sin(vuelta, i) /\ ida' = ida \o <<>>
      BY <1>1, <1>8, <3>2 DEF Sesion!Queda
    <3>4. /\ SCampos \subseteq DOMAIN w /\ w.esperan = s
          /\ w.renovando = vista.renovando /\ w.ingresando = vista.ingresando
      BY <1>2 DEF SCampos
    <3> HIDE DEF w
    <3>5. Carga(s, SG, {}) = e + b
      BY <1>2, <2>6, CargaJunta DEF Aguardan, SonPedidos
    <3>6. Aguardan(s)
      BY <1>2, <2>6, AguardanJuntos
    <3> HIDE DEF s
    <3>7. Pasa(e + b, b + e, vista.ingresando, w.ingresando)
      <4>1. e + b <= b + e
        <5> HIDE DEF e, b
        <5> QED BY <1>3
      <4> HIDE DEF e, b
      <4> QED BY <3>4, <4>1 DEF Pasa
    <3> QED BY <1>1, <3>3, <3>4, <3>5, <3>6, <3>7, SesionOyeSolo
  <2>8. CASE /\ vista.renovando # TRUE
             /\ \E duda : r = [Sesion!Pide([vista EXCEPT !.renovando = TRUE, !.esperan = <<m.q>>],
                                           <<Pedido("refrescar", vista.refresco, Nada)>>) EXCEPT !.duda = duda]
    <3> DEFINE w == [vista EXCEPT !.renovando = TRUE, !.esperan = <<m.q>>]
               p == <<Pedido("refrescar", vista.refresco, Nada)>>
    <3>1. r.va = FALSE /\ r.vista = w /\ r.pide = p
      BY <2>8 DEF Sesion!Pide, Sesion!Queda
    <3>2. vista' = w /\ vuelta' = Sin(vuelta, i) /\ ida' = ida \o p
      BY <1>1, <1>8, <3>1
    <3>3. /\ SCampos \subseteq DOMAIN w /\ w.esperan = <<m.q>>
          /\ w.renovando = TRUE /\ w.ingresando = vista.ingresando
      BY <1>2 DEF SCampos
    <3>4. SonPedidos(p, SO) /\ Carga(p, SI, {}) = 0 /\ Carga(p, SR, {}) = 1 /\ Carga(p, SG, {}) = 0
      <4>1. "refrescar" \in SO /\ "refrescar" \notin SI /\ "refrescar" \in SR /\ "refrescar" \notin SG
        BY DEF SO, SI, SR, SG
      <4> QED BY <4>1, UnoDeSesion
    <3> HIDE DEF w, p
    <3>5. Carga(p, SG, {}) + Carga(w.esperan, SG, {}) = b
      <4>1. Carga(p, SG, {}) + Carga(w.esperan, SG, {}) = 0 + b
        BY <2>6, <3>3, <3>4
      <4> HIDE DEF b
      <4> QED BY <1>3, <4>1
    <3>6. Pasa(b, b + e, vista.ingresando, w.ingresando)
      <4>1. b <= b + e
        <5> HIDE DEF e, b
        <5> QED BY <1>3
      <4> HIDE DEF e, b
      <4> QED BY <3>3, <4>1 DEF Pasa
    <3>7. Aguardan(w.esperan)
      BY <2>6, <3>3
    <3> QED BY <1>1, <2>8, <3>2, <3>3, <3>4, <3>5, <3>6, <3>7, SesionOye
  <2> HIDE DEF m, e, b
  <2> QED BY <2>1, <2>3, <2>4, <2>7, <2>8
<1> HIDE DEF m
<1> QED BY <1>4, <1>5, <1>6, <1>7, <1>8 DEF SO

LEMMA SesionQuieta ==
    ASSUME SesionInv, vista' = vista, ida' = ida, vuelta' = vuelta
    PROVE  SesionInv'
<1>1. Correo(SO)' /\ \A G : EnCurso(G, {})' = EnCurso(G, {})
  <2>1. Correo(SO)'
    BY DEF SesionInv, Correo, SonPedidos, SonRespuestas, EsPedido, EsRespuesta, Sucesion
  <2>2. ASSUME NEW G PROVE EnCurso(G, {})' = EnCurso(G, {})
    BY DEF EnCurso, Carga, CargaDe, Marcas, MarcasDe, Marcada
  <2> QED BY <2>1, <2>2
<1>2. EnCurso(SG, {})' + Carga(vista'.esperan, SG, {}) = Formularios
  BY <1>1 DEF Formularios
<1> QED BY <1>1, <1>2, SesionCursor DEF SesionInv

LEMMA SesionSigue == SesionInv /\ Sesion!Next => SesionInv'
<1> SUFFICES ASSUME SesionInv, Sesion!Next PROVE SesionInv'
  OBVIOUS
<1>1. SCampos \subseteq DOMAIN vista
  BY DEF SesionInv
<1> USE DEF Sesion!Toque, Sesion!Tropiezo, Sesion!Con, Sesion!Pedido, Pedido
<1>2. CASE Sesion!Entrar \/ Sesion!CambiarClave
  <2>1. PICK op \in SG : \E id, datos :
             /\ ida' = ida \o <<Pedido(op, id, datos)>> /\ vuelta' = vuelta
             /\ SCampos \subseteq DOMAIN vista' /\ vista'.esperan = vista.esperan
             /\ vista'.renovando = vista.renovando
             /\ vista.ingresando # TRUE /\ vista'.ingresando = TRUE
    BY <1>1, <1>2 DEF Sesion!Entrar, Sesion!CambiarClave, SG, SCampos
  <2>2. PICK id, datos :
             /\ ida' = ida \o <<Pedido(op, id, datos)>> /\ vuelta' = vuelta
             /\ SCampos \subseteq DOMAIN vista' /\ vista'.esperan = vista.esperan
             /\ vista'.renovando = vista.renovando
             /\ vista.ingresando # TRUE /\ vista'.ingresando = TRUE
    BY <2>1
  <2>3. op \in SO /\ op \notin SI /\ op \notin SR
    BY DEF SG, SO, SE, SI, SR
  <2> HIDE DEF Pedido
  <2>4. /\ SonPedidos(<<Pedido(op, id, datos)>>, SO)
        /\ Carga(<<Pedido(op, id, datos)>>, SI, {}) = 0 /\ Carga(<<Pedido(op, id, datos)>>, SR, {}) = 0
        /\ Carga(<<Pedido(op, id, datos)>>, SG, {}) = 1
    BY <2>3, UnoDeSesion
  <2> QED BY <2>2, <2>4, SesionPide
<1>3. CASE Sesion!Pedir \/ (Sesion!Salir /\ vista.acceso # Sesion!Nadie)
  <2>1. PICK op \in {"datos", "salir"} : \E id :
             ida' = ida \o <<Pedido(op, id, Nada)>> /\ vuelta' = vuelta /\ vista' = vista
    BY <1>3 DEF Sesion!Pedir, Sesion!Salir
  <2>2. PICK id : ida' = ida \o <<Pedido(op, id, Nada)>> /\ vuelta' = vuelta /\ vista' = vista
    BY <2>1
  <2>3. op \in SO /\ op \notin SI /\ op \notin SR /\ op \notin SG
    BY DEF SG, SO, SE, SI, SR
  <2> HIDE DEF Pedido
  <2>4. /\ SonPedidos(<<Pedido(op, id, Nada)>>, SO)
        /\ Carga(<<Pedido(op, id, Nada)>>, SI, {}) = 0 /\ Carga(<<Pedido(op, id, Nada)>>, SR, {}) = 0
        /\ Carga(<<Pedido(op, id, Nada)>>, SG, {}) = 0
    BY <2>3, UnoDeSesion
  <2> QED BY <1>1, <2>2, <2>4, SesionPide
<1>4. ASSUME ida' = ida \o <<>>, vuelta' = vuelta, SCampos \subseteq DOMAIN vista', vista'.esperan = vista.esperan,
             vista.renovando = TRUE => vista'.renovando = TRUE, vista'.ingresando = vista.ingresando
      PROVE  SesionInv'
  <2> DEFINE p == <<>>
  <2>1. SonPedidos(p, SO) /\ \A G : Carga(p, G, {}) = 0
    BY NadaPedido
  <2>2. ida' = ida \o p
    BY <1>4
  <2> HIDE DEF p
  <2>3. SonPedidos(p, SO) /\ Carga(p, SI, {}) = 0 /\ Carga(p, SR, {}) = 0 /\ Carga(p, SG, {}) = 0
    BY <2>1
  <2>4. vista.ingresando = TRUE => vista'.ingresando = TRUE
    BY <1>4
  <2> QED BY <1>4, <2>2, <2>3, <2>4, SesionPide
<1>5. CASE Sesion!Salir /\ vista.acceso = Sesion!Nadie
  <2>1. ida' = ida \o <<>> /\ vuelta' = vuelta /\ vista' = Sesion!Fuera(vista)
    BY <1>5 DEF Sesion!Salir
  <2>2. /\ SCampos \subseteq DOMAIN vista' /\ vista'.esperan = vista.esperan
        /\ vista'.renovando = vista.renovando /\ vista'.ingresando = vista.ingresando
    BY <1>1, <2>1 DEF Sesion!Fuera, Sesion!SinTokens, SCampos
  <2> QED BY <1>4, <2>1, <2>2
<1>6. CASE Sesion!Temporizador
  <2> DEFINE renueva == ~vista.renovando /\ vista.refresco # Sesion!Nadie
             p == IF renueva THEN <<Pedido("refrescar", vista.refresco, Nada)>> ELSE <<>>
             w == [[vista EXCEPT !.timer = FALSE] EXCEPT !.renovando = @ \/ renueva]
  <2>1. vista' = w /\ ida' = ida \o p /\ vuelta' = vuelta
    BY <1>6 DEF Sesion!Temporizador
  <2>2. /\ SCampos \subseteq DOMAIN w /\ w.esperan = vista.esperan /\ w.ingresando = vista.ingresando
        /\ w.renovando = (vista.renovando \/ renueva)
    BY <1>1 DEF SCampos
  <2> HIDE DEF w
  <2>3. CASE renueva
    <3>1. "refrescar" \in SO /\ "refrescar" \notin SI /\ "refrescar" \in SR /\ "refrescar" \notin SG
      BY DEF SO, SI, SR, SG
    <3>2. p = <<Pedido("refrescar", vista.refresco, Nada)>>
      BY <2>3
    <3> HIDE DEF Pedido, p
    <3>3. SonPedidos(p, SO) /\ Carga(p, SI, {}) = 0 /\ Carga(p, SR, {}) = 1 /\ Carga(p, SG, {}) = 0
      BY <3>1, <3>2, UnoDeSesion
    <3>4. vista.renovando # TRUE /\ w.renovando = TRUE
      <4>1. ~vista.renovando /\ renueva
        BY <2>3
      <4>2. (vista.renovando \/ renueva) = TRUE
        BY <4>1
      <4> HIDE DEF renueva
      <4> QED BY <2>2, <4>1, <4>2
    <3> QED BY <2>1, <2>2, <3>3, <3>4, SesionPide
  <2>4. CASE ~renueva
    <3>1. ida' = ida \o <<>>
      BY <2>1, <2>4
    <3>2. vista.renovando = TRUE => w.renovando = TRUE
      BY <2>2
    <3> QED BY <1>4, <2>1, <2>2, <3>1, <3>2
  <2> QED BY <2>3, <2>4
<1>7. CASE Sesion!Vence
  <2>1. vista' = vista /\ ida' = ida /\ vuelta' = vuelta
    BY <1>7 DEF Sesion!Vence
  <2> QED BY <2>1, SesionQuieta
<1>8. CASE Sesion!Reabrir
  <2> DEFINE p == Sesion!Restaurar(vista)
  <2>1. vista' = Sesion!Arrancar(vista) /\ ida' = Huerfanos(ida) \o p /\ vuelta' = HuerfanasDe(vuelta)
    BY <1>8 DEF Sesion!Reabrir, Sesion!Huerfanos, Huerfanos, Sesion!HuerfanasDe, HuerfanasDe
  <2>2. /\ SonPedidos(p, SO) /\ Carga(p, SI, {}) \in {0, 1}
        /\ Carga(p, SR, {}) = 0 /\ Carga(p, SG, {}) = 0
    BY SesionRestaurar
  <2>3. SCampos \subseteq DOMAIN vista' /\ vista'.esperan = <<>>
    BY <2>1, SesionArrancar
  <2>4. Correo(SO) /\ SonRespuestas(vuelta, SO)
    BY DEF SesionInv, Correo
  <2> HIDE DEF p
  <2> QED BY <2>1, <2>2, <2>3, <2>4, SesionCarga
<1> QED BY <1>2, <1>3, <1>5, <1>6, <1>7, <1>8, SesionResponde, SesionRecibe DEF Sesion!Next

LEMMA SesionUna == SesionInv => UnaDeCada(Sesion!Guardados)
<1> SUFFICES ASSUME SesionInv PROVE UnaDeCada(Sesion!Guardados)
  OBVIOUS
<1>1. Correo(SO) /\ Cabe(EnCurso(SI, {}), TRUE) /\ Cabe(EnCurso(SR, {}), vista.renovando)
      /\ Cabe(Formularios, vista.ingresando)
  BY DEF SesionInv
<1>2. /\ EnVuelo(SI) <= EnCurso(SI, {}) /\ EnVuelo(SI) \in Nat /\ EnCurso(SI, {}) \in Nat
      /\ EnVuelo(SR) <= EnCurso(SR, {}) /\ EnVuelo(SR) \in Nat /\ EnCurso(SR, {}) \in Nat
      /\ EnVuelo(SG) <= EnCurso(SG, {}) /\ EnVuelo(SG) \in Nat /\ EnCurso(SG, {}) \in Nat
  BY <1>1, CursoNatural
<1>3. Carga(vista.esperan, SG, {}) \in Nat
  BY SesionNumeros
<1>4. EnVuelo(SI) <= 1
  BY <1>1, <1>2 DEF Cabe
<1>5. EnVuelo(SR) <= 1
  BY <1>1, <1>2 DEF Cabe
<1>6. EnVuelo(SG) <= 1
  BY <1>1, <1>2, <1>3 DEF Cabe, Formularios
<1> QED BY <1>4, <1>5, <1>6 DEF UnaDeCada, Sesion!Guardados, SI, SR, SG

-----------------------------------------------------------------------------
\* The history of the sales.

LEMMA UnaSola ==
    ASSUME NEW S, NEW x \in S
    PROVE  <<x>> \in Seq(S)
OBVIOUS

LEMMA SinUno ==
    ASSUME NEW S, NEW s \in Seq(S), NEW i \in DOMAIN s
    PROVE  SubSeq(s, 1, i - 1) \o SubSeq(s, i + 1, Len(s)) \in Seq(S)
<1>1. i \in 1 .. Len(s) /\ Len(s) \in Nat
  BY LenProperties
<1>2. SubSeq(s, 1, i - 1) \in Seq(S)
  BY <1>1, SubSeqProperties
<1>3. SubSeq(s, i + 1, Len(s)) \in Seq(S)
  BY <1>1, SubSeqProperties
<1> QED BY <1>2, <1>3, ConcatProperties

LEMMA SinDuenio ==
    ASSUME NEW S, NEW s \in Seq(S), \A x \in S : [x EXCEPT !.viva = FALSE] \in S
    PROVE  [k \in DOMAIN s |-> [s[k] EXCEPT !.viva = FALSE]] \in Seq(S)
<1>1. DOMAIN s = 1 .. Len(s) /\ Len(s) \in Nat /\ \A k \in DOMAIN s : s[k] \in S
  BY LenProperties, ElementOfSeq
<1>2. [k \in DOMAIN s |-> [s[k] EXCEPT !.viva = FALSE]] \in [1 .. Len(s) -> S]
  BY <1>1
<1> QED BY <1>1, <1>2, SeqDef

LEMMA SinDuenia ==
    ASSUME NEW S, NEW s \in Seq(S), \A x \in S : [x EXCEPT !.q.viva = FALSE] \in S
    PROVE  [k \in DOMAIN s |-> [s[k] EXCEPT !.q.viva = FALSE]] \in Seq(S)
<1>1. DOMAIN s = 1 .. Len(s) /\ Len(s) \in Nat /\ \A k \in DOMAIN s : s[k] \in S
  BY LenProperties, ElementOfSeq
<1>2. [k \in DOMAIN s |-> [s[k] EXCEPT !.q.viva = FALSE]] \in [1 .. Len(s) -> S]
  BY <1>1
<1> QED BY <1>1, <1>2, SeqDef

LEMMA SubSeqDeSubconjunto ==
    ASSUME NEW S, NEW T, \A x \in S : x \in T, NEW s \in Seq(S)
    PROVE  s \in Seq(T)
<1>1. DOMAIN s = 1 .. Len(s) /\ Len(s) \in Nat /\ \A k \in DOMAIN s : s[k] \in S
  BY LenProperties, ElementOfSeq
<1>2. s \in [1 .. Len(s) -> T]
  BY <1>1
<1> QED BY <1>1, <1>2, SeqDef

HVentas == DeHoy \cup DeAntes
HEstados == {"completada", "anulada"}
HListas == UNION {[V -> HEstados] : V \in SUBSET HVentas}
HPedidos ==
    {q \in [op : {"listar", "anular", "comprobante", "documento"}, id : HVentas \cup {Nadie},
            datos : {Nada}, tras : {"", "todas", "hoy", "ver", "imprimir", "pdf"}, viva : BOOLEAN] : q.op = "anular" => q.id \in HVentas}

\* What a list or an answer says is annulled, is in s.
Ciertas(s) == {l \in HListas : \A i \in DOMAIN l : l[i] = "anulada" => s[i] = "anulada"}
HRespuestas(s) ==
    {m \in [q : HPedidos, ok : BOOLEAN, datos : HListas \cup {Nada}] :
        m.ok => /\ m.q.op = "listar" => m.datos \in Ciertas(s)
                /\ m.q.op = "anular" => s[m.q.id] = "anulada"}

HistorialInv ==
    /\ srv \in [HVentas -> HEstados]
    /\ vista \in [ventas : HListas, periodo : {"todas", "hoy"},
                  estado : {"todos", "anulada", "completada"}, cargando : BOOLEAN,
                  abierta : HVentas \cup {Nadie}, anular : HVentas \cup {Nadie},
                  anuladas : SUBSET HVentas]
    /\ ida \in Seq(HPedidos)
    /\ vuelta \in Seq(HRespuestas(srv))
    /\ vista.ventas \in Ciertas(srv)
    /\ \A i \in vista.anuladas : srv[i] = "anulada"

LEMMA HListar ==
    ASSUME NEW p \in {"", "todas", "hoy", "ver", "imprimir", "pdf"}
    PROVE  Historial!Listar(p) \in Seq(HPedidos)
<1>1. Historial!Tras(Historial!Pedido("listar", Nadie, Nada), p) \in HPedidos
  BY DEF HPedidos, Historial!Pedido, Historial!Tras, Historial!Nadie, Nadie
<1>2. Historial!Listar(p) = <<Historial!Tras(Historial!Pedido("listar", Nadie, Nada), p)>>
  BY DEF Historial!Listar, Historial!Nadie, Nadie
<1> QED BY <1>1, <1>2, UnaSola

LEMMA HVacia == <<>> \in HListas
<1>1. <<>> \in [{} -> HEstados]
  OBVIOUS
<1> QED BY <1>1 DEF HListas

LEMMA HHuerfanos ==
    ASSUME NEW p \in Seq(HPedidos)
    PROVE  Historial!Huerfanos(p) \in Seq(HPedidos)
<1>1. \A x \in HPedidos : [x EXCEPT !.viva = FALSE] \in HPedidos
  BY DEF HPedidos
<1> QED BY <1>1, SinDuenio DEF Historial!Huerfanos

LEMMA HistorialEmpieza == Historial!Init => HistorialInv
<1> SUFFICES ASSUME Historial!Init PROVE HistorialInv
  OBVIOUS
<1> USE DEF Historial!Init, Historial!PeticionesInit
<1>1. srv \in [HVentas -> HEstados]
  BY DEF HVentas, HEstados
<1>2. ida \in Seq(HPedidos)
  <2>1. Historial!Listar("todas") \in Seq(HPedidos)
    BY HListar
  <2> QED BY <2>1 DEF Historial!Todas
<1>3. vista \in [ventas : HListas, periodo : {"todas", "hoy"},
                  estado : {"todos", "anulada", "completada"}, cargando : BOOLEAN,
                  abierta : HVentas \cup {Nadie}, anular : HVentas \cup {Nadie},
                  anuladas : SUBSET HVentas]
  BY HVacia DEF Historial!VistaInicial, Historial!Todas, Historial!Nadie, Nadie
<1>4. vista.ventas \in Ciertas(srv) /\ vista.anuladas = {} /\ vuelta = <<>>
  BY HVacia DEF Ciertas, Historial!VistaInicial
<1>5. vuelta \in Seq(HRespuestas(srv))
  BY <1>4
<1> QED BY <1>1, <1>2, <1>3, <1>4, <1>5 DEF HistorialInv

HVista ==
    [ventas : HListas, periodo : {"todas", "hoy"},
     estado : {"todos", "anulada", "completada"}, cargando : BOOLEAN,
     abierta : HVentas \cup {Nadie}, anular : HVentas \cup {Nadie},
     anuladas : SUBSET HVentas]

LEMMA HToque ==
    ASSUME HistorialInv, NEW v \in HVista, v.ventas = vista.ventas, v.anuladas = vista.anuladas,
           NEW p \in Seq(HPedidos),
           Historial!Toque(v, p) \/ Historial!Recarga(v, p) \/ Historial!Tropiezo(v, p)
    PROVE  HistorialInv'
<1>1. vista' = v /\ ida' = ida \o p /\ srv' = srv /\ vuelta' = vuelta
  BY DEF Historial!Toque, Historial!Recarga, Historial!Tropiezo
<1>2. ida' \in Seq(HPedidos)
  BY <1>1, ConcatProperties DEF HistorialInv
<1> QED BY <1>1, <1>2 DEF HistorialInv, HVista, HRespuestas

LEMMA HResponde ==
    ASSUME HistorialInv, NEW i, Historial!Responde(i)
    PROVE  HistorialInv'
<1> DEFINE q == ida[i]
           r == Historial!Servidor(srv, q)
<1>1. /\ i \in DOMAIN ida
      /\ ida' = Historial!Sin(ida, i)
      /\ vista' = vista
      /\ \/ srv' = r.srv /\ vuelta' = Append(vuelta, [q |-> q, ok |-> r.ok, datos |-> r.datos])
         \/ srv' \in {srv, r.srv} /\ vuelta' = Append(vuelta, [q |-> q, ok |-> FALSE, datos |-> Nada])
  BY DEF Historial!Responde, Historial!Atiende
<1>2. q \in HPedidos
  BY <1>1, ElementOfSeq DEF HistorialInv
<1>3. ida' \in Seq(HPedidos)
  BY <1>1, SinUno DEF HistorialInv, Historial!Sin
<1>4. /\ r.srv \in [HVentas -> HEstados]
      /\ \A j \in HVentas : srv[j] = "anulada" => r.srv[j] = "anulada"
  <2>1. CASE q.op = "anular"
    BY <1>2, <2>1 DEF HPedidos, HistorialInv, HEstados, Historial!Servidor, Historial!Acepta, Historial!Rechaza
  <2>2. CASE q.op # "anular"
    BY <1>2, <2>2 DEF HPedidos, HistorialInv, Historial!Servidor, Historial!Acepta, Historial!Rechaza
  <2> QED BY <2>1, <2>2
<1>5. ASSUME NEW m \in HRespuestas(srv), NEW s \in {srv, r.srv} PROVE m \in HRespuestas(s)
  <2> HIDE DEF r
  <2>1. Ciertas(srv) \subseteq Ciertas(s)
    <3> SUFFICES ASSUME NEW l \in Ciertas(srv) PROVE l \in Ciertas(s)
      OBVIOUS
    <3>1. l \in HListas /\ DOMAIN l \subseteq HVentas
      BY DEF Ciertas, HListas
    <3> QED BY <1>4, <1>5, <3>1 DEF Ciertas
  <2>2. m.q \in HPedidos /\ (m.q.op = "anular" => m.q.id \in HVentas)
    BY DEF HRespuestas, HPedidos
  <2> QED BY <1>4, <2>1, <2>2 DEF HRespuestas
<1>6. [q |-> q, ok |-> r.ok, datos |-> r.datos] \in HRespuestas(r.srv)
  <2>1. CASE q.op = "anular"
    BY <1>2, <2>1 DEF HPedidos, HistorialInv, HRespuestas, Historial!Servidor, Historial!Acepta, Historial!Rechaza
  <2>2. CASE q.op = "listar"
    <3> DEFINE l == Historial!DelPeriodo(srv, q.tras)
    <3>1. r = [srv |-> srv, ok |-> TRUE, datos |-> l]
      BY <2>2 DEF Historial!Servidor, Historial!Acepta
    <3>2. /\ l \in [DOMAIN l -> HEstados] /\ DOMAIN l \subseteq HVentas
          /\ \A j \in DOMAIN l : l[j] = srv[j]
      BY DEF HistorialInv, Historial!DelPeriodo
    <3> HIDE DEF l, r
    <3>3. l \in HListas
      BY <3>2 DEF HListas
    <3>4. l \in Ciertas(srv)
      BY <3>2, <3>3 DEF Ciertas
    <3> QED BY <1>2, <2>2, <3>1, <3>3, <3>4 DEF HRespuestas
  <2>3. CASE q.op \in {"comprobante", "documento"}
    BY <1>2, <2>3 DEF HPedidos, HistorialInv, HRespuestas, Historial!Servidor, Historial!Acepta, Historial!Rechaza
  <2> QED BY <1>2, <2>1, <2>2, <2>3 DEF HPedidos
<1>7. ASSUME NEW s PROVE [q |-> q, ok |-> FALSE, datos |-> Nada] \in HRespuestas(s)
  BY <1>2 DEF HRespuestas
<1> HIDE DEF r
<1>8. /\ srv' \in {srv, r.srv}
      /\ vuelta' \in Seq(HRespuestas(srv'))
  <2>1. srv' \in {srv, r.srv}
    BY <1>1
  <2>2. vuelta \in Seq(HRespuestas(srv'))
    BY <1>5, <2>1, SubSeqDeSubconjunto DEF HistorialInv
  <2>3. CASE srv' = r.srv /\ vuelta' = Append(vuelta, [q |-> q, ok |-> r.ok, datos |-> r.datos])
    BY <1>6, <2>1, <2>2, <2>3, AppendProperties
  <2>4. CASE vuelta' = Append(vuelta, [q |-> q, ok |-> FALSE, datos |-> Nada])
    BY <1>7, <2>1, <2>2, <2>4, AppendProperties
  <2> QED BY <1>1, <2>1, <2>3, <2>4
<1>9. vista' = vista /\ Ciertas(srv) \subseteq Ciertas(srv')
  <2>1. ASSUME NEW l \in Ciertas(srv) PROVE l \in Ciertas(srv')
    <3>1. l \in HListas /\ DOMAIN l \subseteq HVentas
      BY DEF Ciertas, HListas
    <3> QED BY <1>4, <1>8, <3>1 DEF Ciertas
  <2> QED BY <1>1, <2>1
<1> QED BY <1>3, <1>4, <1>8, <1>9 DEF HistorialInv

LEMMA HRecibe ==
    ASSUME HistorialInv, NEW i, Historial!Recibe(i)
    PROVE  HistorialInv'
<1> DEFINE m == vuelta[i]
           r == Historial!Recibir(m)
<1>1. i \in DOMAIN vuelta /\ srv' = srv
  BY DEF Historial!Recibe, Historial!Llega
<1>2. m \in HRespuestas(srv)
  BY <1>1, ElementOfSeq DEF HistorialInv
<1>3. m.q \in HPedidos
  BY <1>2 DEF HRespuestas
<1>4. /\ r.va = FALSE
      /\ r.pide \in Seq(HPedidos)
      /\ r.vista \in HVista
      /\ r.vista.ventas \in Ciertas(srv)
      /\ \A x \in r.vista.anuladas : srv[x] = "anulada"
  <2>0. vista \in HVista /\ vista.ventas \in Ciertas(srv) /\ <<>> \in Seq(HPedidos)
        /\ \A x \in vista.anuladas : srv[x] = "anulada"
    BY DEF HistorialInv, HVista
  <2> USE DEF Historial!Queda, Historial!Pide
  <2>1. CASE m.q.op = "listar"
    <3>1. r = [vista |-> [vista EXCEPT !.cargando = FALSE,
                                       !.ventas = IF m.ok THEN m.datos ELSE vista.ventas],
               pide |-> <<>>, duda |-> FALSE, va |-> FALSE]
      BY <2>1 DEF Historial!Recibir
    <3> HIDE DEF r, m
    <3>2. m.ok => m.datos \in HListas /\ m.datos \in Ciertas(srv)
      BY <1>2, <2>1 DEF HRespuestas, Ciertas
    <3> QED BY <2>0, <3>1, <3>2 DEF HVista
  <2>2. CASE m.q.op = "anular" /\ m.ok
    <3>1. r = [vista |-> [vista EXCEPT !.anuladas = vista.anuladas \cup {m.q.id}, !.cargando = TRUE, !.anular = Nadie],
               pide |-> Historial!Listar(m.q.tras), duda |-> FALSE, va |-> FALSE]
      BY <2>2 DEF Historial!Recibir, Historial!AlAnular, Historial!Releer, Historial!Nadie, Nadie
    <3> HIDE DEF r, m
    <3>2. srv[m.q.id] = "anulada" /\ m.q.id \in HVentas
          /\ m.q.tras \in {"", "todas", "hoy", "ver", "imprimir", "pdf"}
      BY <1>2, <1>3, <2>2 DEF HRespuestas, HPedidos
    <3>3. Historial!Listar(m.q.tras) \in Seq(HPedidos)
      BY <3>2, HListar
    <3> QED BY <2>0, <3>1, <3>2, <3>3 DEF HVista
  <2>3. CASE m.q.op = "anular" /\ ~m.ok
    <3>1. r = [vista |-> [vista EXCEPT !.anular = Nadie], pide |-> <<>>, duda |-> FALSE, va |-> FALSE]
      BY <2>3 DEF Historial!Recibir, Historial!AlAnular, Historial!Nadie, Nadie
    <3> HIDE DEF r, m
    <3> QED BY <2>0, <3>1 DEF HVista
  <2>4. CASE m.q.op = "comprobante" /\ m.ok
    <3> DEFINE d == Historial!Tras(Historial!Pedido("documento", m.q.id, Nada), m.q.tras)
    <3>1. r = [vista |-> vista, pide |-> <<d>>, duda |-> FALSE, va |-> FALSE]
      BY <2>4 DEF Historial!Recibir
    <3>2. d \in HPedidos
      BY <1>3 DEF HPedidos, Historial!Tras, Historial!Pedido
    <3> HIDE DEF r, m, d
    <3> QED BY <2>0, <3>1, <3>2
  <2>5. CASE m.q.op = "documento" \/ (m.q.op = "comprobante" /\ ~m.ok)
    <3>1. r = [vista |-> vista, pide |-> <<>>, duda |-> FALSE, va |-> FALSE]
      BY <2>5 DEF Historial!Recibir
    <3> HIDE DEF r, m
    <3> QED BY <2>0, <3>1
  <2> QED BY <1>3, <2>1, <2>2, <2>3, <2>4, <2>5 DEF HPedidos
<1>5. /\ vista' \in {vista, r.vista}
      /\ ida' = ida \o (IF m.q.viva THEN r.pide ELSE Historial!Huerfanos(r.pide))
      /\ vuelta' = Historial!Sin(vuelta, i)
  BY <1>4 DEF Historial!Recibe, Historial!Llega
<1> HIDE DEF r
<1>6. Historial!Huerfanos(r.pide) \in Seq(HPedidos)
  BY <1>4, HHuerfanos
<1>7. ida' \in Seq(HPedidos)
  BY <1>4, <1>5, <1>6, ConcatProperties DEF HistorialInv
<1>8. vuelta' \in Seq(HRespuestas(srv'))
  BY <1>1, <1>5, SinUno DEF HistorialInv, Historial!Sin
<1> QED BY <1>1, <1>4, <1>5, <1>7, <1>8 DEF HistorialInv, HVista

LEMMA HistorialSigue == HistorialInv /\ Historial!Next => HistorialInv'
<1> SUFFICES ASSUME HistorialInv, Historial!Next PROVE HistorialInv'
  OBVIOUS
<1>1. vista \in HVista /\ <<>> \in Seq(HPedidos) /\ DOMAIN vista.ventas \subseteq HVentas
  BY DEF HistorialInv, HVista, HListas
<1>2. CASE Historial!CambiarPeriodo
  <2>1. PICK p \in {"todas", "hoy"} :
             \/ Historial!Recarga([vista EXCEPT !.periodo = p, !.cargando = TRUE], Historial!Listar(p))
             \/ Historial!Tropiezo([vista EXCEPT !.periodo = p, !.cargando = TRUE], Historial!Listar(p))
    BY <1>2 DEF Historial!CambiarPeriodo, Historial!Todas, Historial!Hoy
  <2> QED BY <1>1, <2>1, HToque, HListar DEF HVista
<1>3. CASE Historial!FiltrarEstado
  BY <1>1, <1>3, HToque DEF Historial!FiltrarEstado, HVista
<1>4. CASE Historial!Actualizar
  BY <1>1, <1>4, HToque, HListar DEF Historial!Actualizar, HVista
<1>5. CASE Historial!Desplegar
  <2>1. PICK x \in HVentas \cup {Nadie} : Historial!Toque([vista EXCEPT !.abierta = x], <<>>)
    BY <1>1, <1>5 DEF Historial!Desplegar, Historial!Filas, Historial!Nadie, Nadie
  <2> QED BY <1>1, <2>1, HToque DEF HVista
<1>6. CASE Historial!PedirDocumento
  <2>1. PICK j \in HVentas, para \in {"ver", "imprimir", "pdf"} :
             Historial!Toque(vista, <<Historial!Tras(Historial!Pedido("comprobante", j, Nada), para)>>)
    BY <1>1, <1>6 DEF Historial!PedirDocumento, Historial!Filas
  <2>2. Historial!Tras(Historial!Pedido("comprobante", j, Nada), para) \in HPedidos
    BY DEF HPedidos, Historial!Tras, Historial!Pedido
  <2>3. <<Historial!Tras(Historial!Pedido("comprobante", j, Nada), para)>> \in Seq(HPedidos)
    BY <2>2, UnaSola
  <2> QED BY <1>1, <2>1, <2>3, HToque
<1>7. CASE Historial!PedirAnulacion \/ Historial!CancelarAnulacion
  <2>1. PICK x \in HVentas \cup {Nadie} : Historial!Toque([vista EXCEPT !.anular = x], <<>>)
    BY <1>1, <1>7 DEF Historial!PedirAnulacion, Historial!CancelarAnulacion, Historial!Filas, Historial!Nadie, Nadie
  <2> QED BY <1>1, <2>1, HToque DEF HVista
<1>8. CASE Historial!Anular
  <2>1. Historial!Tras(Historial!Pedido("anular", vista.anular, Nada), vista.periodo) \in HPedidos
    BY <1>1, <1>8 DEF Historial!Anular, Historial!Confirmacion, Historial!Nadie, Nadie, HVista, HPedidos, Historial!Tras, Historial!Pedido
  <2>2. <<Historial!Tras(Historial!Pedido("anular", vista.anular, Nada), vista.periodo)>> \in Seq(HPedidos)
    BY <2>1, UnaSola
  <2> QED BY <1>1, <1>8, <2>2, HToque DEF Historial!Anular
<1>9. CASE Historial!Montar(Historial!VistaInicial, Historial!Listar(Historial!Todas))
  <2>1. /\ vista' = Historial!VistaInicial
        /\ ida' = Historial!Huerfanos(ida) \o Historial!Listar("todas")
        /\ vuelta' = Historial!HuerfanasDe(vuelta)
        /\ srv' = srv
    BY <1>9 DEF Historial!Montar, Historial!Todas
  <2>2. ida' \in Seq(HPedidos)
    BY <2>1, HHuerfanos, HListar, ConcatProperties DEF HistorialInv
  <2>3. \A x \in HRespuestas(srv) : [x EXCEPT !.q.viva = FALSE] \in HRespuestas(srv)
    <3> SUFFICES ASSUME NEW x \in HRespuestas(srv)
                 PROVE  [x EXCEPT !.q.viva = FALSE] \in HRespuestas(srv)
      OBVIOUS
    <3> DEFINE c == [x.q EXCEPT !.viva = FALSE]
    <3>1. x \in [q : HPedidos, ok : BOOLEAN, datos : HListas \cup {Nada}]
      BY DEF HRespuestas
    <3>2. c \in HPedidos /\ c.op = x.q.op /\ c.id = x.q.id
      BY <3>1 DEF HPedidos
    <3>3. [x EXCEPT !.q.viva = FALSE] = [x EXCEPT !.q = c]
      OBVIOUS
    <3> HIDE DEF c
    <3> QED BY <3>1, <3>2, <3>3 DEF HRespuestas
  <2>4. vuelta' \in Seq(HRespuestas(srv'))
    BY <2>1, <2>3, SinDuenia DEF HistorialInv, Historial!HuerfanasDe
  <2>5. vista' \in HVista /\ vista'.ventas \in Ciertas(srv') /\ vista'.anuladas = {}
    BY <2>1, HVacia DEF Historial!VistaInicial, HVista, Ciertas, Historial!Todas, Historial!Nadie, Nadie
  <2> QED BY <2>1, <2>2, <2>4, <2>5 DEF HistorialInv, HVista
<1> QED BY <1>2, <1>3, <1>4, <1>5, <1>6, <1>7, <1>8, <1>9, HResponde, HRecibe DEF Historial!Next

LEMMA HistorialDice == HistorialInv => Historial!NoMiente
<1> SUFFICES ASSUME HistorialInv, NEW i \in Historial!Filas, Historial!Anulada(i)
             PROVE  srv[i] = "anulada"
  BY DEF Historial!NoMiente
<1> QED BY DEF HistorialInv, Ciertas, Historial!Filas, Historial!Anulada

-----------------------------------------------------------------------------
\* The till: the sessions of the backend, and what is known of them.

TEstados == {"abierta", "cerrada"}
TCierres == [desvio : Int, contado : Int, sobre : [id : Nat, movs : Nat]]
TSesiones == [estado : TEstados, propia : BOOLEAN, efectivo : Int, digital : Int, movs : Nat,
              cierre : TCierres \cup {Nada}]

\* Session i: without sales nothing was paid, and who closed it declared what it had.
TBien(s, i) ==
    /\ s[i].movs = 0 => s[i].digital = 0
    /\ s[i].cierre # Nada =>
          /\ s[i].estado = "cerrada"
          /\ s[i].cierre.sobre = [id |-> i, movs |-> s[i].movs] /\ s[i].cierre.contado = s[i].efectivo
             => s[i].cierre.desvio = 0
TBanco(s) == s \in Seq(TSesiones) /\ \A i \in DOMAIN s : TBien(s, i)

\* digital is what session i had, with movs sales in it.
TSabe(s, i, movs, digital) ==
    i \in DOMAIN s /\ movs <= s[i].movs /\ (movs = s[i].movs => digital = s[i].digital)

TReportes == [id : Nat, estado : TEstados, efectivo : Int, digital : Int, movs : Nat]
TInformes(s) == {x \in TReportes : TSabe(s, x.id, x.movs, x.digital)}
TDeclara(s) ==
    {d \in [efectivo : Conteos, motivo : BOOLEAN, digital : Int, sobre : [id : Nat, movs : Nat]] :
        TSabe(s, d.sobre.id, d.sobre.movs, d.digital)}
TDatos(s) == TDeclara(s) \cup [fondo : Fondos] \cup [efectivo : {0, 1}, digital : {0, 1}] \cup {Nada}
TPide(s) == [op : {"reporte", "activa", "abrir", "venta", "arqueo", "historial"}, id : Nat,
             datos : TDatos(s), tras : {"", "restaurar", "cierre", "olvidada"}, viva : BOOLEAN]
TPedidos(s) ==
    {q \in TPide(s) :
        /\ q.op = "reporte" => q.tras # ""
        /\ q.op \in {"reporte", "venta", "arqueo"} => q.id \in DOMAIN s
        /\ q.op = "abrir" => q.datos \in [fondo : Fondos]
        /\ q.op = "venta" => q.datos \in [efectivo : {0, 1}, digital : {0, 1}]
        /\ q.op = "arqueo" => q.datos \in TDeclara(s)}
TContestado(s) ==
    TInformes(s) \cup [desvio : Int, contado : Int] \cup [critico : {TRUE}]
        \cup [sesiones : Seq(TReportes)] \cup {Nada}
TRespuestas(s) ==
    {m \in [q : TPedidos(s), ok : BOOLEAN, datos : TContestado(s)] :
        m.ok /\ m.q.op \in {"reporte", "activa", "abrir"} => m.datos \in TInformes(s)}
TVista(s, v) ==
    /\ {"tienda", "informe"} \subseteq DOMAIN v /\ "sesion" \in DOMAIN v.tienda
    /\ v.tienda.sesion \in DOMAIN s \cup {Nadie}
    /\ v.informe \in TInformes(s) \cup {Nada}

(* Whatever waits, is remembered or is shown of a session was so once: no   *)
(* sale of it is taken back, and without another sale nothing changed.      *)
CajaInv ==
    /\ TBanco(srv)
    /\ TVista(srv, vista)
    /\ ida \in Seq(TPedidos(srv))
    /\ vuelta \in Seq(TRespuestas(srv))

\* The sessions go on: more of them, with more sales.
TCrece(s, t) ==
    /\ DOMAIN s \subseteq DOMAIN t
    /\ \A i \in DOMAIN s : s[i].movs <= t[i].movs /\ (s[i].movs = t[i].movs => s[i].digital = t[i].digital)

LEMMA TEnteros == (\A x \in Fondos : x \in Int) /\ (\A x \in Conteos : x \in Int)
BY AdministracionConstantes

LEMMA TBancoTipos ==
    ASSUME NEW s, TBanco(s)
    PROVE  Len(s) \in Nat /\ DOMAIN s = 1 .. Len(s) /\ \A i \in DOMAIN s : s[i] \in TSesiones
BY LenProperties, ElementOfSeq DEF TBanco

LEMMA TSigueSabiendo ==
    ASSUME NEW s, NEW t, TBanco(s), TBanco(t), TCrece(s, t),
           NEW i, NEW movs \in Nat, NEW digital, TSabe(s, i, movs, digital)
    PROVE  TSabe(t, i, movs, digital)
<1>1. s[i].movs \in Nat /\ t[i].movs \in Nat /\ i \in DOMAIN t
  BY TBancoTipos DEF TSabe, TCrece, TSesiones
<1>2. movs <= s[i].movs /\ s[i].movs <= t[i].movs
  BY DEF TSabe, TCrece
<1>3. movs <= t[i].movs /\ (movs = t[i].movs => movs = s[i].movs /\ s[i].movs = t[i].movs)
  BY <1>1, <1>2
<1> QED BY <1>1, <1>3 DEF TSabe, TCrece

LEMMA TMonotonos ==
    ASSUME NEW s, NEW t, TBanco(s), TBanco(t), TCrece(s, t)
    PROVE  /\ \A x \in TInformes(s) : x \in TInformes(t)
           /\ \A x \in TPedidos(s) : x \in TPedidos(t)
           /\ \A x \in TRespuestas(s) : x \in TRespuestas(t)
           /\ \A v : TVista(s, v) => TVista(t, v)
<1>1. ASSUME NEW x \in TInformes(s) PROVE x \in TInformes(t)
  BY TSigueSabiendo DEF TInformes, TReportes
<1>2. ASSUME NEW x \in TDeclara(s) PROVE x \in TDeclara(t)
  BY TSigueSabiendo DEF TDeclara
<1>3. DOMAIN s \subseteq DOMAIN t
  BY DEF TCrece
<1>4. ASSUME NEW x \in TPedidos(s) PROVE x \in TPedidos(t)
  <2>1. x.datos \in TDatos(t)
    BY <1>2 DEF TPide, TPedidos, TDatos
  <2> QED BY <1>2, <1>3, <2>1 DEF TPide, TPedidos
<1>5. ASSUME NEW x \in TRespuestas(s) PROVE x \in TRespuestas(t)
  <2>1. x.datos \in TContestado(t)
    BY <1>1 DEF TRespuestas, TContestado
  <2> QED BY <1>1, <1>4, <2>1 DEF TRespuestas
<1>6. ASSUME NEW v, TVista(s, v) PROVE TVista(t, v)
  BY <1>1, <1>3, <1>6 DEF TVista
<1> QED BY <1>1, <1>4, <1>5, <1>6

LEMMA TConsulta ==
    ASSUME NEW s, TBanco(s), NEW i \in DOMAIN s \cup {Nadie}
    PROVE  Caja!Leer(i) \in Seq(TPedidos(s)) /\ Caja!Consultar(i) \in Seq(TPedidos(s))
<1> DEFINE r(tras) == Caja!Tras(Caja!Pedido("reporte", i, Nada), tras)
           a == Caja!Pedido("activa", Nadie, Nada)
<1>1. a \in TPedidos(s)
  BY DEF TPide, TPedidos, TDatos, Caja!Pedido, Nadie
<1>2. ASSUME i # Nadie, NEW x \in {"restaurar", "cierre"} PROVE r(x) \in TPedidos(s)
  <2>1. i \in DOMAIN s /\ i \in Nat
    BY <1>2, TBancoTipos
  <2>2. Caja!Pedido("reporte", i, Nada) \in TPide(s)
    BY <2>1 DEF TPide, TDatos, Caja!Pedido
  <2>3. Caja!Pedido("reporte", i, Nada).op = "reporte" /\ Caja!Pedido("reporte", i, Nada).id = i
    BY DEF Caja!Pedido
  <2> QED BY <2>1, <2>2, <2>3 DEF TPide, TPedidos, Caja!Tras
<1>3. /\ Caja!Leer(i) = IF i = Nadie THEN <<>> ELSE <<r("cierre")>>
      /\ Caja!Consultar(i) = IF i # Nadie THEN <<r("restaurar")>> ELSE <<a>>
  BY DEF Caja!Leer, Caja!Consultar, Caja!Nadie, Nadie
<1> HIDE DEF r, a
<1> QED BY <1>1, <1>2, <1>3, UnaSola

LEMMA CajaEmpieza == Caja!Init => CajaInv
<1> SUFFICES ASSUME Caja!Init PROVE CajaInv
  OBVIOUS
<1>1. /\ vista = Caja!EnPos(Caja!Tienda(Nadie)) /\ ida = Caja!Consultar(Nadie) /\ vuelta = <<>>
  BY DEF Caja!Init, Caja!PeticionesInit, Caja!Nadie, Nadie
<1> DEFINE a == [estado |-> "abierta", propia |-> FALSE, efectivo |-> 0, digital |-> 0,
                 movs |-> 0, cierre |-> Nada]
<1>2. srv \in {<<>>, <<a>>}
  BY DEF Caja!Init
<1>3. a \in TSesiones /\ a.movs = 0 /\ a.digital = 0 /\ a.cierre = Nada
  BY DEF TSesiones, TEstados
<1> HIDE DEF a
<1>4. ASSUME srv = <<>> PROVE TBanco(srv)
  BY <1>4 DEF TBanco
<1>5. ASSUME srv = <<a>> PROVE TBanco(srv)
  <2>1. srv \in Seq(TSesiones) /\ DOMAIN srv = {1} /\ srv[1] = a
    BY <1>3, <1>5
  <2> QED BY <1>3, <2>1 DEF TBanco, TBien
<1>6. TBanco(srv)
  BY <1>2, <1>4, <1>5
<1>7. TVista(srv, vista)
  BY <1>1 DEF TVista, Caja!EnPos, Caja!Tienda
<1>8. ida \in Seq(TPedidos(srv)) /\ vuelta \in Seq(TRespuestas(srv))
  BY <1>1, <1>6, TConsulta
<1> QED BY <1>6, <1>7, <1>8 DEF CajaInv

LEMMA TCursor ==
    ASSUME TBanco(srv'), TVista(srv', vista'), ida' \in Seq(TPedidos(srv')), vuelta' \in Seq(TRespuestas(srv'))
    PROVE  CajaInv'
BY DEF CajaInv, TBanco, TBien, TVista, TPide, TPedidos, TRespuestas, TInformes, TDeclara, TDatos, TContestado, TSabe

\* A click that asks for p.
LEMMA TClic ==
    ASSUME CajaInv, NEW p \in Seq(TPedidos(srv)), TVista(srv, vista'),
           ida' = ida \o p, srv' = srv, vuelta' = vuelta
    PROVE  CajaInv'
<1>1. ida' \in Seq(TPedidos(srv))
  BY ConcatProperties DEF CajaInv
<1>2. TBanco(srv') /\ TVista(srv', vista') /\ ida' \in Seq(TPedidos(srv')) /\ vuelta' \in Seq(TRespuestas(srv'))
  BY <1>1 DEF CajaInv
<1> QED BY <1>2, TCursor

\* The page is left.
LEMMA THuerfanos ==
    ASSUME NEW s
    PROVE  /\ \A p \in Seq(TPedidos(s)) : Caja!Huerfanos(p) \in Seq(TPedidos(s))
           /\ \A p \in Seq(TRespuestas(s)) : Caja!HuerfanasDe(p) \in Seq(TRespuestas(s))
<1>1. ASSUME NEW x \in TPedidos(s) PROVE [x EXCEPT !.viva = FALSE] \in TPedidos(s)
  BY DEF TPide, TPedidos
<1>2. ASSUME NEW x \in TRespuestas(s) PROVE [x EXCEPT !.q.viva = FALSE] \in TRespuestas(s)
  <2> DEFINE c == [x.q EXCEPT !.viva = FALSE]
  <2>1. x \in [q : TPedidos(s), ok : BOOLEAN, datos : TContestado(s)]
    BY DEF TRespuestas
  <2>2. x.q \in TPedidos(s)
    BY <2>1
  <2>3. c \in TPedidos(s)
    BY <1>1, <2>2
  <2>4. c.op = x.q.op
    BY <2>2 DEF TPide, TPedidos
  <2>5. [x EXCEPT !.q.viva = FALSE] = [x EXCEPT !.q = c]
    OBVIOUS
  <2> HIDE DEF c
  <2> QED BY <2>1, <2>3, <2>4, <2>5 DEF TRespuestas
<1>3. ASSUME NEW p \in Seq(TPedidos(s)) PROVE Caja!Huerfanos(p) \in Seq(TPedidos(s))
  BY <1>1, SinDuenio DEF Caja!Huerfanos
<1>4. ASSUME NEW p \in Seq(TRespuestas(s)) PROVE Caja!HuerfanasDe(p) \in Seq(TRespuestas(s))
  BY <1>2, SinDuenia DEF Caja!HuerfanasDe
<1> QED BY <1>3, <1>4

LEMMA TMonta ==
    ASSUME CajaInv, NEW v, TVista(srv, v), NEW p \in Seq(TPedidos(srv)), Caja!Montar(v, p)
    PROVE  CajaInv'
<1>1. vista' = v /\ ida' = Caja!Huerfanos(ida) \o p /\ vuelta' = Caja!HuerfanasDe(vuelta) /\ srv' = srv
  BY DEF Caja!Montar
<1>2. Caja!Huerfanos(ida) \in Seq(TPedidos(srv)) /\ vuelta' \in Seq(TRespuestas(srv))
  BY <1>1, THuerfanos DEF CajaInv
<1>3. ida' \in Seq(TPedidos(srv))
  BY <1>1, <1>2, ConcatProperties
<1>4. TBanco(srv') /\ TVista(srv', vista') /\ ida' \in Seq(TPedidos(srv')) /\ vuelta' \in Seq(TRespuestas(srv'))
  BY <1>1, <1>2, <1>3 DEF CajaInv
<1> QED BY <1>4, TCursor

LEMMA TReporte ==
    ASSUME NEW s, TBanco(s), NEW i \in DOMAIN s
    PROVE  Caja!Reporte(s, i) \in TInformes(s) /\ Caja!Reporte(s, i) \in TReportes
<1>1. s[i] \in TSesiones /\ i \in Nat
  BY TBancoTipos
<1> QED BY <1>1 DEF Caja!Reporte, TInformes, TReportes, TSabe, TSesiones

\* One session changes to x.
LEMMA TCambia ==
    ASSUME NEW s, TBanco(s), NEW i \in DOMAIN s, NEW x \in TSesiones, NEW t, t = [s EXCEPT ![i] = x],
           s[i].movs <= x.movs, s[i].movs = x.movs => s[i].digital = x.digital, TBien(t, i)
    PROVE  TBanco(t) /\ TCrece(s, t)
<1>1. Len(s) \in Nat /\ DOMAIN s = 1 .. Len(s) /\ \A j \in DOMAIN s : s[j] \in TSesiones
  BY TBancoTipos
<1>2. DOMAIN t = DOMAIN s /\ t[i] = x /\ \A j \in DOMAIN s : j # i => t[j] = s[j]
  OBVIOUS
<1>3. t \in Seq(TSesiones)
  <2>1. t \in [1 .. Len(s) -> TSesiones]
    BY <1>1
  <2> QED BY <1>1, <2>1, SeqDef
<1>4. ASSUME NEW j \in DOMAIN t PROVE TBien(t, j)
  <2>1. CASE j = i
    BY <2>1
  <2>2. CASE j # i
    <3>1. TBien(s, j) /\ t[j] = s[j]
      BY <1>2, <2>2 DEF TBanco
    <3> QED BY <3>1 DEF TBien
  <2> QED BY <2>1, <2>2
<1>5. ASSUME NEW j \in DOMAIN s
      PROVE  s[j].movs <= t[j].movs /\ (s[j].movs = t[j].movs => s[j].digital = t[j].digital)
  <2>1. CASE j = i
    BY <1>2, <2>1
  <2>2. CASE j # i
    BY <1>1, <1>2, <2>2 DEF TSesiones
  <2> QED BY <2>1, <2>2
<1> QED BY <1>2, <1>3, <1>4, <1>5 DEF TBanco, TCrece

LEMMA TIgual == ASSUME NEW s, TBanco(s) PROVE TCrece(s, s)
BY TBancoTipos DEF TCrece, TSesiones

\* Session i with one sale more.
TVendida(s, i, e, d) == [s EXCEPT ![i].efectivo = @ + e, ![i].digital = @ + d, ![i].movs = @ + 1]

LEMMA TVenta ==
    ASSUME NEW s, TBanco(s), NEW i \in DOMAIN s, s[i].estado = "abierta",
           NEW e \in Int, NEW d \in Int
    PROVE  TBanco(TVendida(s, i, e, d)) /\ TCrece(s, TVendida(s, i, e, d))
<1> DEFINE t == TVendida(s, i, e, d)
           x == [s[i] EXCEPT !.efectivo = @ + e, !.digital = @ + d, !.movs = @ + 1]
<1>1. s[i] \in TSesiones /\ TBien(s, i)
  BY TBancoTipos DEF TBanco
<1>2. x \in TSesiones /\ x.movs = s[i].movs + 1 /\ x.cierre = s[i].cierre
  <2>1. s[i].efectivo + e \in Int /\ s[i].digital + d \in Int /\ s[i].movs + 1 \in Nat
    BY <1>1 DEF TSesiones
  <2> HIDE DEF t
  <2> QED BY <1>1, <2>1 DEF TSesiones
<1>3. t = [s EXCEPT ![i] = x]
  <2>1. ASSUME NEW u, u = [s EXCEPT ![i].efectivo = @ + e, ![i].digital = @ + d, ![i].movs = @ + 1]
        PROVE  u = [s EXCEPT ![i] = x]
    BY <1>1, <2>1 DEF TSesiones
  <2> HIDE DEF x
  <2> QED BY <2>1 DEF TVendida
<1> HIDE DEF x, t
<1>4. t[i] = x
  BY <1>3
<1>5. s[i].movs \in Nat
  BY <1>1 DEF TSesiones
<1>6. x.movs # 0 /\ s[i].movs <= x.movs /\ s[i].movs # x.movs
  BY <1>2, <1>5
<1>7. TBien(t, i)
  BY <1>1, <1>2, <1>4, <1>6 DEF TBien
<1>8. TBanco(t) /\ TCrece(s, t)
  BY <1>2, <1>3, <1>6, <1>7, TCambia
<1> QED BY <1>8 DEF t

\* What was declared of the session as it is, is what is expected of it but for the cash.
LEMMA TCierre ==
    ASSUME NEW s, TBanco(s), NEW q \in TPedidos(s), q.op = "arqueo"
    PROVE  LET r == Caja!Cerrar(s, q)
           IN  /\ TBanco(r.srv) /\ TCrece(s, r.srv) /\ r.ok \in BOOLEAN
               /\ r.datos \in [desvio : Int, contado : Int] \cup [critico : {TRUE}] \cup {Nada}
<1> DEFINE i == q.id
           d == q.datos
           e == s[i].efectivo + s[i].digital
           f == d.efectivo + d.digital - e
           c == [desvio |-> f, contado |-> d.efectivo, sobre |-> d.sobre]
           x == [s[i] EXCEPT !.estado = "cerrada", !.cierre = c]
           t == [s EXCEPT ![i].estado = "cerrada", ![i].cierre = c]
           r == Caja!Cerrar(s, q)
<1>1. i \in DOMAIN s /\ s[i] \in TSesiones /\ TBien(s, i) /\ d \in TDeclara(s)
  BY TBancoTipos DEF TPide, TPedidos, TBanco
<1>2. /\ d.efectivo \in Int /\ d.digital \in Int /\ d.sobre \in [id : Nat, movs : Nat]
      /\ TSabe(s, d.sobre.id, d.sobre.movs, d.digital)
  <2> HIDE DEF d
  <2>1. d \in [efectivo : Conteos, motivo : BOOLEAN, digital : Int, sobre : [id : Nat, movs : Nat]]
        /\ TSabe(s, d.sobre.id, d.sobre.movs, d.digital)
    BY <1>1 DEF TDeclara
  <2>2. d.efectivo \in Conteos
    BY <2>1
  <2>3. d.efectivo \in Int
    BY <2>2, TEnteros
  <2>4. d.digital \in Int /\ d.sobre \in [id : Nat, movs : Nat]
    BY <2>1
  <2> QED BY <2>1, <2>3, <2>4
<1>3. s[i].efectivo \in Int /\ s[i].digital \in Int /\ s[i].movs \in Nat
  BY <1>1 DEF TSesiones
<1>4. f \in Int /\ c \in TCierres
  BY <1>2, <1>3 DEF TCierres
<1>5. \/ r.srv = s /\ r.ok = FALSE /\ r.datos = Nada
      \/ r.srv = s /\ r.ok = FALSE /\ r.datos = [critico |-> TRUE]
      \/ r.srv = t /\ r.ok = TRUE /\ r.datos = [desvio |-> f, contado |-> d.efectivo]
  BY DEF Caja!Cerrar, Caja!Rechaza, Caja!Acepta
<1>6. TBanco(t) /\ TCrece(s, t)
  <2> HIDE DEF c
  <2>1. x \in TSesiones /\ x.movs = s[i].movs /\ x.digital = s[i].digital /\ x.efectivo = s[i].efectivo
        /\ x.cierre = c /\ x.estado = "cerrada"
    BY <1>1, <1>4 DEF TSesiones, TEstados
  <2>2. t = [s EXCEPT ![i] = x]
    BY <1>1 DEF TSesiones
  <2>3. ASSUME c.sobre = [id |-> i, movs |-> s[i].movs], c.contado = s[i].efectivo PROVE c.desvio = 0
    <3>1. d.sobre = [id |-> i, movs |-> s[i].movs] /\ d.efectivo = s[i].efectivo
      BY <2>3 DEF c
    <3>2. d.sobre.id = i /\ d.sobre.movs = s[i].movs
      BY <3>1
    <3>3. d.digital = s[i].digital
      BY <1>2, <3>2 DEF TSabe
    <3>4. f = 0
      BY <1>2, <1>3, <3>1, <3>3
    <3> QED BY <3>4 DEF c
  <2> HIDE DEF x, t, d, i
  <2>4. t[i] = x
    BY <1>1, <2>2
  <2>5. TBien(t, i)
    BY <1>1, <2>1, <2>3, <2>4 DEF TBien
  <2>6. s[i].movs <= x.movs
    BY <1>3, <2>1
  <2> QED BY <1>1, <2>1, <2>2, <2>5, <2>6, TCambia
<1> HIDE DEF t
<1>7. TBanco(r.srv) /\ TCrece(s, r.srv) /\ r.ok \in BOOLEAN
  BY <1>5, <1>6, TIgual
<1>8. r.datos \in [desvio : Int, contado : Int] \cup [critico : {TRUE}] \cup {Nada}
  <2>1. [desvio |-> f, contado |-> d.efectivo] \in [desvio : Int, contado : Int]
    BY <1>2, <1>4
  <2>2. [critico |-> TRUE] \in [critico : {TRUE}]
    OBVIOUS
  <2> HIDE DEF r, d, f
  <2> QED BY <1>5, <2>1, <2>2
<1> QED BY <1>7, <1>8

LEMMA TServidor ==
    ASSUME NEW s, TBanco(s), NEW q \in TPedidos(s)
    PROVE  LET r == Caja!Servidor(s, q)
           IN  /\ TBanco(r.srv) /\ TCrece(s, r.srv)
               /\ [q |-> q, ok |-> r.ok, datos |-> r.datos] \in TRespuestas(r.srv)
<1> DEFINE r == Caja!Servidor(s, q)
           m == [q |-> q, ok |-> r.ok, datos |-> r.datos]
<1>1. SUFFICES /\ TBanco(r.srv) /\ TCrece(s, r.srv) /\ r.ok \in BOOLEAN
               /\ r.datos \in TContestado(r.srv)
               /\ r.ok /\ q.op \in {"reporte", "activa", "abrir"} => r.datos \in TInformes(r.srv)
  <2> HIDE DEF r
  <2>1. q \in TPedidos(r.srv)
    BY <1>1, TMonotonos
  <2>2. m \in [q : TPedidos(r.srv), ok : BOOLEAN, datos : TContestado(r.srv)]
        /\ m.ok = r.ok /\ m.q = q /\ m.datos = r.datos
    BY <1>1, <2>1
  <2> HIDE DEF m
  <2>3. TBanco(r.srv) /\ TCrece(s, r.srv) /\ m \in TRespuestas(r.srv)
    BY <1>1, <2>2 DEF TRespuestas
  <2> QED BY <2>3 DEF r, m
<1>2. ASSUME q.op \in {"reporte", "venta", "arqueo"} PROVE q.id \in DOMAIN s
  BY <1>2 DEF TPide, TPedidos
<1>3. CASE q.op = "reporte"
  <2>1. r = [srv |-> s, ok |-> TRUE, datos |-> Caja!Reporte(s, q.id)]
    BY <1>3 DEF Caja!Servidor, Caja!Acepta, Caja!Rechaza
  <2> HIDE DEF r
  <2> QED BY <1>2, <1>3, <2>1, TReporte, TIgual DEF TContestado
<1>4. CASE q.op = "activa"
  <2> DEFINE i == CHOOSE j \in Caja!Propias(s) : TRUE
  <2>1. \/ r = [srv |-> s, ok |-> FALSE, datos |-> Nada]
        \/ i \in Caja!Propias(s) /\ r = [srv |-> s, ok |-> TRUE, datos |-> Caja!Reporte(s, i)]
    BY <1>4 DEF Caja!Servidor, Caja!Acepta, Caja!Rechaza
  <2>2. i \in Caja!Propias(s) => i \in DOMAIN s
    BY DEF Caja!Propias, Caja!Abiertas
  <2> HIDE DEF r, i
  <2>3. CASE r = [srv |-> s, ok |-> FALSE, datos |-> Nada]
    BY <2>3, TIgual DEF TContestado
  <2>4. CASE i \in Caja!Propias(s) /\ r = [srv |-> s, ok |-> TRUE, datos |-> Caja!Reporte(s, i)]
    BY <2>2, <2>4, TReporte, TIgual DEF TContestado
  <2> QED BY <2>1, <2>3, <2>4
<1>5. CASE q.op = "abrir"
  <2> DEFINE i == CHOOSE j \in Caja!Abiertas(s) : TRUE
             a == [estado |-> "abierta", propia |-> TRUE, efectivo |-> q.datos.fondo,
                   digital |-> 0, movs |-> 0, cierre |-> Nada]
             t == Append(s, a)
  <2>1. \/ i \in Caja!Abiertas(s) /\ r = [srv |-> s, ok |-> TRUE, datos |-> Caja!Reporte(s, i)]
        \/ r = [srv |-> t, ok |-> TRUE, datos |-> Caja!Reporte(t, Len(t))]
    BY <1>5 DEF Caja!Servidor, Caja!Acepta, Caja!Rechaza
  <2>2. i \in Caja!Abiertas(s) => i \in DOMAIN s
    BY DEF Caja!Abiertas
  <2>3. a \in TSesiones /\ a.movs = 0 /\ a.digital = 0 /\ a.cierre = Nada
    <3>1. q.datos \in [fondo : Fondos]
      BY <1>5 DEF TPide, TPedidos
    <3>2. q.datos.fondo \in Fondos
      BY <3>1
    <3>3. q.datos.fondo \in Int
      BY <3>2, TEnteros
    <3> QED BY <3>3 DEF TSesiones, TEstados
  <2> HIDE DEF a
  <2>4. /\ t \in Seq(TSesiones) /\ Len(t) = Len(s) + 1 /\ t[Len(s) + 1] = a
        /\ \A j \in 1 .. Len(s) : t[j] = s[j]
    BY <2>3, AppendProperties DEF TBanco
  <2>5. Len(s) \in Nat /\ DOMAIN s = 1 .. Len(s) /\ DOMAIN t = 1 .. Len(s) + 1
        /\ \A j \in DOMAIN s : s[j] \in TSesiones
    BY <2>4, TBancoTipos, LenProperties
  <2> HIDE DEF t
  <2>6. ASSUME NEW j \in DOMAIN t PROVE TBien(t, j)
    <3>1. CASE j \in DOMAIN s
      <4>1. TBien(s, j) /\ t[j] = s[j]
        BY <2>4, <2>5, <3>1 DEF TBanco
      <4> QED BY <4>1 DEF TBien
    <3>2. CASE j \notin DOMAIN s
      <4>1. j = Len(s) + 1
        BY <2>5, <3>2
      <4> QED BY <2>3, <2>4, <4>1 DEF TBien
    <3> QED BY <3>1, <3>2
  <2>7. TBanco(t)
    BY <2>4, <2>6 DEF TBanco
  <2>8. TCrece(s, t)
    <3>1. ASSUME NEW j \in DOMAIN s PROVE t[j] = s[j] /\ s[j].movs \in Nat
      BY <2>4, <2>5 DEF TSesiones
    <3>2. DOMAIN s \subseteq DOMAIN t
      BY <2>5
    <3> QED BY <3>1, <3>2 DEF TCrece
  <2>9. Len(t) \in DOMAIN t
    BY <2>4, <2>5
  <2> HIDE DEF r, i
  <2>10. CASE i \in Caja!Abiertas(s) /\ r = [srv |-> s, ok |-> TRUE, datos |-> Caja!Reporte(s, i)]
    BY <2>2, <2>10, TReporte, TIgual DEF TContestado
  <2>11. CASE r = [srv |-> t, ok |-> TRUE, datos |-> Caja!Reporte(t, Len(t))]
    BY <2>7, <2>8, <2>9, <2>11, TReporte DEF TContestado
  <2> QED BY <2>1, <2>10, <2>11
<1>6. CASE q.op = "venta"
  <2> DEFINE t == TVendida(s, q.id, q.datos.efectivo, q.datos.digital)
  <2>1. \/ r = [srv |-> s, ok |-> FALSE, datos |-> Nada]
        \/ s[q.id].estado = "abierta" /\ r = [srv |-> t, ok |-> TRUE, datos |-> Nada]
    BY <1>6 DEF Caja!Servidor, Caja!Acepta, Caja!Rechaza, TVendida
  <2>2. q.datos \in [efectivo : {0, 1}, digital : {0, 1}]
    BY <1>6 DEF TPide, TPedidos
  <2>3. q.datos.efectivo \in Int /\ q.datos.digital \in Int
    BY <2>2
  <2> HIDE DEF r
  <2>4. CASE r = [srv |-> s, ok |-> FALSE, datos |-> Nada]
    BY <2>4, TIgual DEF TContestado
  <2>5. CASE s[q.id].estado = "abierta" /\ r = [srv |-> t, ok |-> TRUE, datos |-> Nada]
    <3>1. q.id \in DOMAIN s
      BY <1>2, <1>6
    <3>2. TBanco(t) /\ TCrece(s, t)
      BY <2>3, <2>5, <3>1, TVenta
    <3> HIDE DEF t
    <3> QED BY <1>6, <2>5, <3>2 DEF TContestado
  <2> QED BY <2>1, <2>4, <2>5
<1>7. CASE q.op = "arqueo"
  <2>1. r = Caja!Cerrar(s, q)
    BY <1>7 DEF Caja!Servidor
  <2> HIDE DEF r
  <2> QED BY <1>7, <2>1, TCierre DEF TContestado
<1>8. CASE q.op = "historial"
  <2> DEFINE l == [i \in DOMAIN s |-> Caja!Reporte(s, i)]
  <2>1. r = [srv |-> s, ok |-> TRUE, datos |-> [sesiones |-> l]]
    BY <1>8 DEF Caja!Servidor, Caja!Acepta, Caja!Rechaza
  <2>2. l \in [1 .. Len(s) -> TReportes] /\ Len(s) \in Nat
    BY TBancoTipos, TReporte
  <2>3. l \in Seq(TReportes)
    BY <2>2, SeqDef
  <2> HIDE DEF r, l
  <2> QED BY <1>8, <2>1, <2>3, TIgual DEF TContestado
<1> QED BY <1>3, <1>4, <1>5, <1>6, <1>7, <1>8 DEF TPide, TPedidos

LEMMA TResponde ==
    ASSUME CajaInv, NEW i, Caja!Responde(i)
    PROVE  CajaInv'
<1> DEFINE q == ida[i]
           r == Caja!Servidor(srv, q)
<1>1. /\ i \in DOMAIN ida
      /\ ida' = Caja!Sin(ida, i)
      /\ vista' = vista
      /\ \/ srv' = r.srv /\ vuelta' = Append(vuelta, [q |-> q, ok |-> r.ok, datos |-> r.datos])
         \/ srv' \in {srv, r.srv} /\ vuelta' = Append(vuelta, [q |-> q, ok |-> FALSE, datos |-> Nada])
  BY DEF Caja!Responde, Caja!Atiende
<1>2. q \in TPedidos(srv)
  BY <1>1, ElementOfSeq DEF CajaInv
<1>3. TBanco(srv) /\ TCrece(srv, srv)
  BY TIgual DEF CajaInv
<1>4. /\ TBanco(r.srv) /\ TCrece(srv, r.srv)
      /\ [q |-> q, ok |-> r.ok, datos |-> r.datos] \in TRespuestas(r.srv)
  BY <1>2, <1>3, TServidor
<1>5. Caja!Sin(ida, i) \in Seq(TPedidos(srv))
  BY <1>1, SinUno DEF CajaInv, Caja!Sin
<1> DEFINE m == [q |-> q, ok |-> r.ok, datos |-> r.datos]
           n == [q |-> q, ok |-> FALSE, datos |-> Nada]
<1>6. ASSUME NEW t \in {srv, r.srv}, NEW x \in TRespuestas(t), vuelta' = Append(vuelta, x), srv' = t
      PROVE  CajaInv'
  <2> HIDE DEF r, m, n, q
  <2>1. TBanco(t) /\ TCrece(srv, t)
    BY <1>3, <1>4
  <2>2. ida' \in Seq(TPedidos(t))
    BY <1>1, <1>3, <1>5, <2>1, TMonotonos, SubSeqDeSubconjunto
  <2>3. vuelta \in Seq(TRespuestas(t))
    BY <1>3, <2>1, TMonotonos, SubSeqDeSubconjunto DEF CajaInv
  <2>4. vuelta' \in Seq(TRespuestas(t))
    BY <1>6, <2>3, AppendProperties
  <2>5. TVista(t, vista)
    BY <1>3, <2>1, TMonotonos DEF CajaInv
  <2>6. TBanco(srv') /\ TVista(srv', vista') /\ ida' \in Seq(TPedidos(srv')) /\ vuelta' \in Seq(TRespuestas(srv'))
    BY <1>1, <1>6, <2>1, <2>2, <2>4, <2>5
  <2> QED BY <2>6, TCursor
<1>7. n \in TRespuestas(srv) /\ n \in TRespuestas(r.srv)
  <2>1. q \in TPedidos(r.srv)
    BY <1>2, <1>3, <1>4, TMonotonos
  <2> HIDE DEF r
  <2> QED BY <1>2, <2>1 DEF TRespuestas, TContestado
<1> HIDE DEF r, m, n
<1>8. CASE srv' = r.srv /\ vuelta' = Append(vuelta, m)
  BY <1>4, <1>6, <1>8 DEF m
<1>9. CASE srv' \in {srv, r.srv} /\ vuelta' = Append(vuelta, n)
  BY <1>6, <1>7, <1>9
<1> QED BY <1>1, <1>8, <1>9 DEF m, n

\* An answer gives v and asks for p; what it remembers stays, whoever looks.
LEMMA TLeyendo ==
    ASSUME NEW s, NEW v, TVista(s, v)
    PROVE  TVista(s, Caja!Leyendo(v))
BY DEF TVista, Caja!Leyendo

\* An answer: whatever the page becomes, it may also read the report of the session.
LEMMA TOye ==
    ASSUME CajaInv, NEW i, NEW v, NEW p \in Seq(TPedidos(srv)), TVista(srv, v),
           i \in DOMAIN vuelta,
           NEW w \in {v, [vista EXCEPT !.tienda = v.tienda]},
           NEW o \in {ida \o p, ida \o Caja!Huerfanos(p)},
           \/ vista' = w /\ ida' = o
           \/ vista' = Caja!Leyendo(w) /\ ida' = o \o Caja!Leer(w.tienda.sesion),
           vuelta' = Caja!Sin(vuelta, i), srv' = srv
    PROVE  CajaInv'
<1>1. TBanco(srv) /\ TVista(srv, vista) /\ ida \in Seq(TPedidos(srv)) /\ vuelta \in Seq(TRespuestas(srv))
  BY DEF CajaInv
<1>2. TVista(srv, [vista EXCEPT !.tienda = v.tienda])
  BY <1>1 DEF TVista
<1>3. TVista(srv, w)
  BY <1>2
<1>4. TVista(srv, Caja!Leyendo(w)) /\ Caja!Leer(w.tienda.sesion) \in Seq(TPedidos(srv))
  <2>1. w.tienda.sesion \in DOMAIN srv \cup {Nadie}
    BY <1>3 DEF TVista
  <2> QED BY <1>1, <1>3, <2>1, TLeyendo, TConsulta
<1>5. o \in Seq(TPedidos(srv))
  <2>1. Caja!Huerfanos(p) \in Seq(TPedidos(srv))
    BY <1>1, THuerfanos
  <2>2. ida \o p \in Seq(TPedidos(srv)) /\ ida \o Caja!Huerfanos(p) \in Seq(TPedidos(srv))
    BY <1>1, <2>1, ConcatProperties
  <2> QED BY <2>2
<1>6. o \o Caja!Leer(w.tienda.sesion) \in Seq(TPedidos(srv))
  BY <1>4, <1>5, ConcatProperties
<1>7. vuelta' \in Seq(TRespuestas(srv))
  BY <1>1, SinUno DEF Caja!Sin
<1>8. TBanco(srv') /\ TVista(srv', vista') /\ ida' \in Seq(TPedidos(srv')) /\ vuelta' \in Seq(TRespuestas(srv'))
  BY <1>1, <1>3, <1>4, <1>5, <1>6, <1>7
<1> QED BY <1>8, TCursor

\* What the page makes of an answer: of what it knew, or of what the answer says.
LEMMA TRecibir ==
    ASSUME CajaInv, NEW m \in TRespuestas(srv)
    PROVE  LET r == Caja!Recibir(m)
           IN  r.va = FALSE /\ TVista(srv, r.vista) /\ r.pide \in Seq(TPedidos(srv))
<1> DEFINE r == Caja!Recibir(m)
           q == m.q
           v == r.vista
<1> USE DEF Caja!Queda, Caja!Pide
<1>1. /\ {"tienda", "informe"} \subseteq DOMAIN vista /\ "sesion" \in DOMAIN vista.tienda
      /\ vista.tienda.sesion \in DOMAIN srv \cup {Nadie}
      /\ vista.informe \in TInformes(srv) \cup {Nada}
  BY DEF CajaInv, TVista
<1>2. m.ok /\ q.op \in {"reporte", "activa", "abrir"} =>
         m.datos \in TInformes(srv) /\ m.datos.id \in DOMAIN srv
  BY DEF TRespuestas, TInformes, TSabe
<1>3. Caja!Pedido("activa", Nadie, Nada) \in TPedidos(srv)
  BY DEF TPide, TPedidos, TDatos, Caja!Pedido, Nadie
<1>4. /\ <<>> \in Seq(TPedidos(srv))
      /\ <<Caja!Pedido("activa", Nadie, Nada)>> \in Seq(TPedidos(srv))
  BY <1>3, UnaSola
<1>5. /\ r.va = FALSE
      /\ r.pide \in {<<>>, <<Caja!Pedido("activa", Nadie, Nada)>>}
      /\ {"tienda", "informe"} \subseteq DOMAIN v /\ "sesion" \in DOMAIN v.tienda
      /\ \/ v.tienda.sesion \in {vista.tienda.sesion, Nadie}
         \/ m.ok /\ q.op \in {"reporte", "activa", "abrir"} /\ v.tienda.sesion = m.datos.id
      /\ \/ v.informe \in {vista.informe, Nada}
         \/ m.ok /\ q.op = "reporte" /\ v.informe = m.datos
  <2> USE DEF Caja!Nadie, Nadie, Caja!Adoptar, Caja!Activa
  <2>1. CASE q.tras = "olvidada"
    BY <1>1, <2>1 DEF Caja!Recibir
  <2>2. CASE q.tras # "olvidada" /\ q.op = "reporte" /\ q.tras = "restaurar"
    BY <1>1, <2>2 DEF Caja!Recibir
  <2>3. CASE q.tras # "olvidada" /\ q.op = "reporte" /\ q.tras = "cierre"
    BY <1>1, <2>3 DEF Caja!Recibir
  <2>4. CASE q.tras # "olvidada" /\ q.op \in {"activa", "abrir"}
    BY <1>1, <2>4 DEF Caja!Recibir
  <2>5. CASE q.tras # "olvidada" /\ q.op \in {"venta", "arqueo", "historial"}
    BY <1>1, <2>5 DEF Caja!Recibir
  <2>6. q.op \in {"reporte", "activa", "abrir", "venta", "arqueo", "historial"}
        /\ q.tras \in {"", "restaurar", "cierre", "olvidada"} /\ (q.op = "reporte" => q.tras # "")
    BY DEF TRespuestas, TPedidos, TPide
  <2> HIDE DEF r, q, v
  <2> QED BY <2>1, <2>2, <2>3, <2>4, <2>5, <2>6
<1> HIDE DEF r, q, v
<1>6. TVista(srv, v)
  BY <1>1, <1>2, <1>5 DEF TVista
<1> QED BY <1>4, <1>5, <1>6 DEF r, v

LEMMA TRecibe ==
    ASSUME CajaInv, NEW i, Caja!Recibe(i)
    PROVE  CajaInv'
<1> DEFINE m == vuelta[i]
           r == Caja!Recibir(m)
<1>1. i \in DOMAIN vuelta /\ srv' = srv /\ vuelta' = Caja!Sin(vuelta, i)
  BY DEF Caja!Recibe
<1>2. m \in TRespuestas(srv)
  BY <1>1, ElementOfSeq DEF CajaInv
<1>3. TVista(srv, r.vista) /\ r.pide \in Seq(TPedidos(srv))
  BY <1>2, TRecibir
<1> DEFINE w == IF m.q.viva THEN r.vista ELSE [vista EXCEPT !.tienda = r.vista.tienda]
           o == ida \o (IF m.q.viva THEN r.pide ELSE Caja!Huerfanos(r.pide))
<1>4. \/ vista' = w /\ ida' = o
      \/ vista' = Caja!Leyendo(w) /\ ida' = o \o Caja!Leer(w.tienda.sesion)
  BY DEF Caja!Recibe
<1>5. /\ w \in {r.vista, [vista EXCEPT !.tienda = r.vista.tienda]}
      /\ o \in {ida \o r.pide, ida \o Caja!Huerfanos(r.pide)}
  BY DEF w, o
<1> HIDE DEF m, r, w, o
<1> QED BY <1>1, <1>3, <1>4, <1>5, TOye

\* A page that is mounted remembers what the one before remembered.
LEMMA TPagina ==
    ASSUME NEW s, NEW v, NEW i \in DOMAIN s \cup {Nadie}, "sesion" \in DOMAIN v, v.sesion = i
    PROVE  TVista(s, Caja!EnPos(v)) /\ TVista(s, Caja!EnCierre(v))
BY DEF TVista, Caja!EnPos, Caja!EnCierre, Caja!Leyendo

LEMMA CajaSigue == CajaInv /\ Caja!Next => CajaInv'
<1> SUFFICES ASSUME CajaInv, Caja!Next PROVE CajaInv'
  OBVIOUS
<1> DEFINE n == vista.tienda.sesion
<1>1. /\ TBanco(srv) /\ ida \in Seq(TPedidos(srv)) /\ vuelta \in Seq(TRespuestas(srv))
      /\ {"tienda", "informe"} \subseteq DOMAIN vista /\ "sesion" \in DOMAIN vista.tienda
      /\ n \in DOMAIN srv \cup {Nadie}
      /\ vista.informe \in TInformes(srv) \cup {Nada}
  BY DEF CajaInv, TVista
<1>2. <<>> \in Seq(TPedidos(srv)) /\ Caja!Leer(n) \in Seq(TPedidos(srv)) /\ Caja!Consultar(n) \in Seq(TPedidos(srv))
  BY <1>1, TConsulta
<1> USE DEF Caja!Toque
<1>3. CASE Caja!MostrarApertura \/ Caja!NuevoArqueo
  <2>1. TVista(srv, vista') /\ ida' = ida \o <<>> /\ srv' = srv /\ vuelta' = vuelta
    BY <1>1, <1>3 DEF Caja!MostrarApertura, Caja!NuevoArqueo, TVista
  <2> QED BY <1>2, <2>1, TClic
<1>4. CASE Caja!AbrirCaja
  <2>1. PICK f \in Fondos : /\ vista' = [vista EXCEPT !.tienda.cargando = TRUE] /\ srv' = srv /\ vuelta' = vuelta
                            /\ ida' = ida \o <<Caja!Pedido("abrir", Nadie, [fondo |-> f])>>
    BY <1>4 DEF Caja!AbrirCaja, Caja!Nadie, Nadie
  <2>2. Caja!Pedido("abrir", Nadie, [fondo |-> f]) \in TPedidos(srv)
    BY DEF TPedidos, TPide, TDatos, Caja!Pedido, Nadie
  <2>3. TVista(srv, vista')
    BY <1>1, <2>1 DEF TVista
  <2> QED BY <2>1, <2>2, <2>3, UnaSola, TClic
<1>5. CASE Caja!Vender
  <2>1. PICK e \in {0, 1} : /\ vista' = vista /\ srv' = srv /\ vuelta' = vuelta
                            /\ ida' = ida \o <<Caja!Pedido("venta", n, [efectivo |-> e, digital |-> 1 - e])>>
    BY <1>5 DEF Caja!Vender
  <2>2. n \in DOMAIN srv /\ n \in Nat
    BY <1>1, <1>5, TBancoTipos DEF Caja!Vender, Caja!Nadie, Nadie
  <2>3. [efectivo |-> e, digital |-> 1 - e] \in [efectivo : {0, 1}, digital : {0, 1}]
    OBVIOUS
  <2> HIDE DEF n
  <2>4. Caja!Pedido("venta", n, [efectivo |-> e, digital |-> 1 - e]) \in TPedidos(srv)
    BY <2>2, <2>3 DEF TPedidos, TPide, TDatos, Caja!Pedido
  <2>5. TVista(srv, vista')
    BY <2>1 DEF CajaInv
  <2> QED BY <2>1, <2>4, <2>5, UnaSola, TClic
<1>6. CASE Caja!EnviarArqueo
  <2>1. PICK contado \in Conteos, motivo \in BOOLEAN :
             /\ vista' = [vista EXCEPT !.tienda.cargando = TRUE] /\ srv' = srv /\ vuelta' = vuelta
             /\ ida' = ida \o <<Caja!Pedido("arqueo", n, Caja!Declarar(contado, motivo))>>
    BY <1>6 DEF Caja!EnviarArqueo
  <2>2. n \in DOMAIN srv /\ n \in Nat
    BY <1>1, <1>6, TBancoTipos DEF Caja!EnviarArqueo, Caja!Nadie, Nadie
  <2>3. srv[n] \in TSesiones /\ TBien(srv, n)
    BY <1>1, <2>2, TBancoTipos DEF TBanco
  <2> DEFINE d == Caja!Declarar(contado, motivo)
  <2>4. d \in TDeclara(srv)
    <3>1. CASE vista.informe = Nada
      <4>1. d = [efectivo |-> contado, motivo |-> motivo, digital |-> 0, sobre |-> [id |-> n, movs |-> 0]]
        BY <3>1 DEF Caja!Declarar, Caja!Declaracion
      <4>2. TSabe(srv, n, 0, 0)
        BY <2>2, <2>3 DEF TSabe, TBien, TSesiones
      <4> HIDE DEF n
      <4> QED BY <2>2, <4>1, <4>2 DEF TDeclara
    <3>2. CASE vista.informe # Nada
      <4> DEFINE x == vista.informe
      <4>1. d = [efectivo |-> contado, motivo |-> motivo, digital |-> x.digital,
                 sobre |-> [id |-> x.id, movs |-> x.movs]]
        BY <3>2 DEF Caja!Declarar, Caja!Declaracion
      <4>2. x \in TReportes /\ TSabe(srv, x.id, x.movs, x.digital)
        BY <1>1, <3>2 DEF TInformes
      <4> HIDE DEF x
      <4> QED BY <4>1, <4>2 DEF TDeclara, TReportes
    <3> QED BY <3>1, <3>2
  <2> HIDE DEF n, d
  <2>5. Caja!Pedido("arqueo", n, d) \in TPedidos(srv)
    BY <2>2, <2>4 DEF TPedidos, TPide, TDatos, Caja!Pedido
  <2>6. TVista(srv, vista')
    BY <2>1 DEF CajaInv, TVista
  <2> QED BY <2>1, <2>5, <2>6, UnaSola, TClic DEF d
<1>7. CASE Caja!IrACierre
  <2>1. Caja!Montar(Caja!EnCierre(vista.tienda), Caja!Leer(n))
    BY <1>7 DEF Caja!IrACierre
  <2>2. TVista(srv, Caja!EnCierre(vista.tienda))
    BY <1>1, TPagina
  <2> QED BY <1>2, <2>1, <2>2, TMonta
<1>8. CASE Caja!IrAPos
  <2>1. Caja!Montar(Caja!EnPos(vista.tienda), Caja!Consultar(n))
    BY <1>8 DEF Caja!IrAPos
  <2>2. TVista(srv, Caja!EnPos(vista.tienda))
    BY <1>1, TPagina
  <2> QED BY <1>2, <2>1, <2>2, TMonta
<1>9. CASE Caja!Salir
  <2> DEFINE v == [vista.tienda EXCEPT !.sesion = Nadie]
  <2>1. Caja!Montar(Caja!EnPos(v), Caja!Consultar(v.sesion))
    BY <1>9 DEF Caja!Salir, Caja!Nadie, Nadie
  <2>2. v.sesion = Nadie /\ "sesion" \in DOMAIN v
    BY <1>1
  <2> HIDE DEF v
  <2>3. TVista(srv, Caja!EnPos(v)) /\ Caja!Consultar(v.sesion) \in Seq(TPedidos(srv))
    BY <1>1, <2>2, TPagina, TConsulta
  <2> QED BY <2>1, <2>3, TMonta
<1>10. CASE Caja!Reabrir
  <2> DEFINE v == Caja!Tienda(n)
             f == [k \in DOMAIN ida |-> [ida[k] EXCEPT !.viva = FALSE, !.tras = "olvidada"]]
  <2>1. vista' = Caja!EnPos(v) /\ ida' = f \o Caja!Consultar(v.sesion) /\ vuelta' = <<>> /\ srv' = srv
    BY <1>10 DEF Caja!Reabrir
  <2>2. v.sesion = n /\ "sesion" \in DOMAIN v
    BY DEF Caja!Tienda
  <2>3. ASSUME NEW x \in TPedidos(srv) PROVE [x EXCEPT !.viva = FALSE, !.tras = "olvidada"] \in TPedidos(srv)
    BY DEF TPedidos, TPide
  <2>4. DOMAIN ida = 1 .. Len(ida) /\ Len(ida) \in Nat /\ \A k \in DOMAIN ida : ida[k] \in TPedidos(srv)
    BY <1>1, LenProperties, ElementOfSeq
  <2>5. f \in [1 .. Len(ida) -> TPedidos(srv)]
    BY <2>3, <2>4
  <2>6. f \in Seq(TPedidos(srv))
    <3> HIDE DEF f, v
    <3> QED BY <2>4, <2>5, SeqDef
  <2> HIDE DEF f, v
  <2>7. ida' \in Seq(TPedidos(srv))
    BY <1>2, <2>1, <2>2, <2>6, ConcatProperties
  <2>8. TVista(srv, vista')
    BY <1>1, <2>1, <2>2, TPagina
  <2>9. TBanco(srv') /\ TVista(srv', vista') /\ ida' \in Seq(TPedidos(srv')) /\ vuelta' \in Seq(TRespuestas(srv'))
    BY <1>1, <2>1, <2>7, <2>8
  <2> QED BY <2>9, TCursor
<1>11. CASE Caja!Actualizar
  <2>1. /\ ida' = ida \o Caja!Leer(n) /\ srv' = srv /\ vuelta' = vuelta
        /\ vista' = Caja!Leyendo(vista)
    BY <1>11 DEF Caja!Actualizar
  <2>2. TVista(srv, vista')
    BY <2>1, TLeyendo DEF CajaInv
  <2> QED BY <1>2, <2>1, <2>2, TClic
<1>12. CASE Caja!CambiarPestana
  <2>1. /\ ida' \in {ida \o <<>>, ida \o <<Caja!Pedido("historial", Nadie, Nada)>>} /\ srv' = srv /\ vuelta' = vuelta
        /\ TVista(srv, vista')
    BY <1>1, <1>12 DEF Caja!CambiarPestana, TVista, Caja!Nadie, Nadie
  <2>2. Caja!Pedido("historial", Nadie, Nada) \in TPedidos(srv)
    BY DEF TPedidos, TPide, TDatos, Caja!Pedido, Nadie
  <2> QED BY <1>2, <2>1, <2>2, UnaSola, TClic
<1> QED BY <1>3, <1>4, <1>5, <1>6, <1>7, <1>8, <1>9, <1>10, <1>11, <1>12, TResponde, TRecibe DEF Caja!Next

LEMMA CajaDice == CajaInv => Caja!CajaCuadra
<1> SUFFICES ASSUME CajaInv PROVE Caja!CajaCuadra
  OBVIOUS
<1> QED BY DEF CajaInv, TBanco, TBien, Caja!CajaCuadra

-----------------------------------------------------------------------------
\* All of the pages.

(* The invariant of the back office is that of the page that is shown: the  *)
(* pages share their variables, and leaving one mounts the next.  Of the    *)
(* users nothing is needed here: their form has no flag.                    *)
AdministracionInv ==
    /\ pagina \in Rutas
    /\ pagina = "categorias" => CategoriasInv
    /\ pagina = "proveedores" => ProveedoresInv
    /\ pagina = "productos" => ProductosInv
    /\ pagina = "inventario" => InventarioInv
    /\ pagina = "listas" => ListasInv
    /\ pagina = "promociones" => PromocionesInv
    /\ pagina = "historial" => HistorialInv
    /\ pagina = "compras" => ComprasInv
    /\ pagina = "caja" => CajaInv
    /\ pagina = "sesion" => SesionInv

LEMMA AdministracionEmpieza == Init => AdministracionInv
BY CategoriasEmpieza, ProveedoresEmpieza, ProductosEmpieza, InventarioEmpieza, ListasEmpieza,
   PromocionesEmpieza, HistorialEmpieza, ComprasEmpieza, CajaEmpieza, SesionEmpieza
   DEF Init, AdministracionInv

LEMMA AdministracionQuieta ==
    ASSUME AdministracionInv, UNCHANGED <<vars, pagina>>
    PROVE  AdministracionInv'
<1> USE DEF vars
<1>1. ASSUME NEW O PROVE Correo(O) => Correo(O)'
  BY DEF Correo, SonPedidos, SonRespuestas, Sucesion, EsPedido, EsRespuesta
<1>2. ASSUME NEW G, NEW F PROVE EnCurso(G, F)' = EnCurso(G, F)
  BY DEF EnCurso, Carga, CargaDe, Marcas, MarcasDe, Marcada
<1>3. ASSUME NEW G, NEW F, NEW c PROVE Guarda(G, F, c) => Guarda(G, F, c)'
  BY <1>2 DEF Guarda, Cabe
<1>4. CASE pagina = "categorias"
  BY <1>1, <1>3, <1>4 DEF AdministracionInv, CategoriasInv
<1>5. CASE pagina = "proveedores"
  BY <1>1, <1>3, <1>5 DEF AdministracionInv, ProveedoresInv
<1>6. CASE pagina = "productos"
  BY <1>1, <1>3, <1>6 DEF AdministracionInv, ProductosInv
<1>7. CASE pagina = "inventario"
  <2>1. ASSUME NEW x \in IG PROVE Ocupa(x) => Ocupa(x)'
    BY <1>2, OcupaCursor DEF Ocupa
  <2> QED BY <1>1, <1>7, <2>1 DEF AdministracionInv, InventarioInv
<1>8. CASE pagina = "listas"
  BY <1>1, <1>3, <1>8 DEF AdministracionInv, ListasInv
<1>9. CASE pagina = "promociones"
  BY <1>1, <1>3, <1>9 DEF AdministracionInv, PromocionesInv
<1>10. CASE pagina = "historial"
  BY <1>10 DEF AdministracionInv, HistorialInv, HRespuestas, Ciertas
<1>11. CASE pagina = "compras"
  BY <1>1, <1>3, <1>11 DEF AdministracionInv, ComprasInv
<1>12. CASE pagina = "sesion"
  BY <1>12, SesionQuieta DEF AdministracionInv
<1>13. CASE pagina = "caja"
  <2>1. CajaInv /\ srv' = srv /\ vista' = vista /\ ida' = ida /\ vuelta' = vuelta
    BY <1>13 DEF AdministracionInv
  <2>2. CajaInv'
    BY <2>1, TCursor DEF CajaInv
  <2> QED BY <1>13, <2>2 DEF AdministracionInv
<1>14. CASE pagina = "usuarios"
  BY <1>14 DEF AdministracionInv
<1> QED BY <1>4, <1>5, <1>6, <1>7, <1>8, <1>9, <1>10, <1>11, <1>12, <1>13, <1>14
        DEF AdministracionInv, Rutas

LEMMA AdministracionSigue == AdministracionInv /\ [Next]_<<vars, pagina>> => AdministracionInv'
<1> SUFFICES ASSUME AdministracionInv, Next PROVE AdministracionInv'
  BY AdministracionQuieta
<1>1. pagina' = pagina /\ EnPagina
  BY DEF Next
<1> QED BY <1>1, CategoriasSigue, ProveedoresSigue, ProductosSigue, InventarioSigue, ListasSigue,
           PromocionesSigue, HistorialSigue, ComprasSigue, CajaSigue, SesionSigue
           DEF EnPagina, AdministracionInv

LEMMA AdministracionSiempre == Spec => []AdministracionInv
BY AdministracionEmpieza, AdministracionSigue, PTL DEF Spec

\* What the invariant says of the page that is shown is what the property asks of it.
LEMMA AdministracionUna == AdministracionInv => UnaALaVez
<1> SUFFICES ASSUME AdministracionInv PROVE UnaALaVez
  OBVIOUS
<1> USE DEF AdministracionInv, UnaALaVez, Guardados
<1>1. CASE pagina = "categorias"
  BY <1>1, CategoriasUna
<1>2. CASE pagina = "proveedores"
  BY <1>2, ProveedoresUna
<1>3. CASE pagina = "productos"
  BY <1>3, ProductosUna
<1>4. CASE pagina = "inventario"
  BY <1>4, InventarioUna
<1>5. CASE pagina = "listas"
  BY <1>5, ListasUna
<1>6. CASE pagina = "promociones"
  BY <1>6, PromocionesUna
<1>7. CASE pagina = "compras"
  BY <1>7, ComprasUna
<1>8. CASE pagina = "sesion"
  BY <1>8, SesionUna
<1>9. CASE pagina = "usuarios"
  BY <1>9 DEF Usuarios!Guardados, UnaDeCada
<1>10. CASE pagina = "historial"
  BY <1>10 DEF Historial!Guardados, UnaDeCada
<1>11. CASE pagina = "caja"
  BY <1>11 DEF Caja!Guardados, UnaDeCada
<1> QED BY <1>1, <1>2, <1>3, <1>4, <1>5, <1>6, <1>7, <1>8, <1>9, <1>10, <1>11 DEF Rutas

(* A form is never sent again while it is being sent: of the operations of  *)
(* a form at most one is in flight, whatever the user does with its dialogue*)
(* and however the requests fail (the loading flags of the submit buttons   *)
(* in src/frontend/src/pages/admin, useAuthStore.ts and api/client.ts).     *)
THEOREM NoSeEnviaDosVeces == Spec => []UnaALaVez
BY AdministracionSiempre, AdministracionUna, PTL

(* The history of the sales never shows as annulled a sale that is not,     *)
(* whatever lists and answers are on their way (handleAnular and the table  *)
(* of FacturacionPage.tsx): a sale is never un-annulled, so that what an    *)
(* answer said is still so when it arrives.                                 *)
THEOREM LoAnuladoEsAnulado == Spec => []NuncaMiente
<1>1. AdministracionInv => NuncaMiente
  BY HistorialDice DEF AdministracionInv, NuncaMiente
<1> QED BY <1>1, AdministracionSiempre, PTL

(* A session counted rightly, on its report with all of its sales, is closed*)
(* without a difference (EnviarArqueo of CierreCajaPage.tsx against Arqueo  *)
(* of caja_service.go): the page declares the part that is not cash from a  *)
(* report, and a report with as many sales as the session has is its own.   *)
THEOREM CajaBienContada == Spec => []CajaCuadra
<1>1. AdministracionInv => CajaCuadra
  BY CajaDice DEF AdministracionInv, CajaCuadra
<1> QED BY <1>1, AdministracionSiempre, PTL

-----------------------------------------------------------------------------
(* Pages that show what the backend keeps.  What is on its way, when there *)
(* is no reason for doubt: requests a and answers b, both in the order in  *)
(* which they were asked for.                                              *)

Vivas(a, b) ==
    /\ Sucesion(a) /\ \A k \in DOMAIN a : a[k].viva = TRUE
    /\ Sucesion(b) /\ \A k \in DOMAIN b : b[k].q.viva = TRUE

Hay(a, N) == \E k \in DOMAIN a : a[k].op \in N
Confirma(b, M) == \E k \in DOMAIN b : b[k].ok = TRUE /\ b[k].q.op \in M

(* A channel c tells of one piece of data: which requests bring it, or are *)
(* followed by one that does (c.pide); which changes are, once accepted    *)
(* (c.relee); which answers tell it whatever they are about (c.lista), and *)
(* which if they are accepted, with what they are about (c.propia); and    *)
(* where in the answer it is (c.dato).                                     *)
Canal(pide, relee, lista, propia, dato) ==
    [pide |-> pide, relee |-> relee, lista |-> lista, propia |-> propia, dato |-> dato]

Dicho(m, e) ==
    IF e[1] = "todo" THEN m.datos
    ELSE IF e[1] = "dominio" THEN DOMAIN m.datos
    ELSE IF e[1] = "campo" THEN m.datos[e[2]]
    ELSE IF e[1] = "salvo" THEN [i \in DOMAIN m.datos |-> [m.datos[i] EXCEPT ![e[2]] = Nada]]
    ELSE m.datos[e[2]][e[3]]

Habla(m, c) == m.q.op \in c.lista \/ (m.ok = TRUE /\ <<m.q.op, m.q.id>> \in c.propia)

Ultima(b, c, k) ==
    /\ k \in DOMAIN b /\ Habla(b[k], c)
    /\ \A j \in DOMAIN b : j > k => ~Habla(b[j], c)

\* What the page has in the end: P says that what it has now is right, Y what would be.
Dice(b, c, P, Y) ==
    \/ P /\ \A k \in DOMAIN b : ~Habla(b[k], c)
    \/ \E k \in DOMAIN b : Ultima(b, c, k) /\ b[k].ok = TRUE /\ Dicho(b[k], c.dato) \in Y

Fresca(a, b, c, P, Y) == Hay(a, c.pide) \/ Confirma(b, c.relee) \/ Dice(b, c, P, Y)

LEMMA PrimeroSale ==
    ASSUME NEW s, Sucesion(s), 1 \in DOMAIN s
    PROVE  /\ Sucesion(Sin(s, 1)) /\ Len(s) \in Nat \ {0}
           /\ DOMAIN s = 1 .. Len(s)
           /\ DOMAIN Sin(s, 1) = 1 .. Len(s) - 1
           /\ \A k \in 1 .. Len(s) - 1 : Sin(s, 1)[k] = s[k + 1]
<1>1. Len(s) \in Nat /\ DOMAIN s = 1 .. Len(s)
  BY SucesionLarga
<1>2. /\ Sucesion(Sin(s, 1)) /\ DOMAIN Sin(s, 1) = 1 .. Len(s) - 1
      /\ \A k \in 1 .. Len(s) - 1 : Sin(s, 1)[k] = s[IF k < 1 THEN k ELSE k + 1]
  BY SucesionSin
<1> QED BY <1>1, <1>2

LEMMA UnoMas ==
    ASSUME NEW s, Sucesion(s), NEW x
    PROVE  /\ Sucesion(Append(s, x)) /\ Len(s) \in Nat
           /\ DOMAIN s = 1 .. Len(s)
           /\ DOMAIN Append(s, x) = 1 .. Len(s) + 1
           /\ \A k \in 1 .. Len(s) : Append(s, x)[k] = s[k]
           /\ Append(s, x)[Len(s) + 1] = x
<1>1. Len(s) \in Nat /\ DOMAIN s = 1 .. Len(s)
  BY SucesionLarga
<1>2. Sucesion(<<x>>) /\ Len(<<x>>) = 1 /\ <<x>>[1] = x
  BY SucesionUna
<1> DEFINE t == <<x>>
<1>3. Append(s, x) = s \o t
  BY SucesionMas
<1>4. Sucesion(t) /\ Len(t) = 1 /\ t[1] = x
  BY <1>2
<1> HIDE DEF t
<1>5. Sucesion(s) /\ Sucesion(t)
  BY <1>4
<1>6. /\ Sucesion(s \o t) /\ DOMAIN (s \o t) = 1 .. Len(s) + Len(t)
      /\ \A k \in 1 .. Len(s) : (s \o t)[k] = s[k]
      /\ \A k \in 1 .. Len(t) : (s \o t)[Len(s) + k] = t[k]
  BY <1>5, SucesionJunta
<1>7. 1 \in 1 .. Len(t)
  BY <1>4
<1> QED BY <1>1, <1>3, <1>4, <1>6, <1>7

\* u has the members of s, in their places, those of t, and no others.
SonJuntos(u, s, t) ==
    /\ Sucesion(u)
    /\ \A k \in DOMAIN s : k \in DOMAIN u /\ u[k] = s[k]
    /\ \A k \in DOMAIN t : \E j \in DOMAIN u : u[j] = t[k]
    /\ \A k \in DOMAIN u : (k \in DOMAIN s /\ u[k] = s[k]) \/ \E j \in DOMAIN t : u[k] = t[j]

LEMMA JuntosDeTodo ==
    ASSUME NEW s, Sucesion(s), NEW t, Sucesion(t)
    PROVE  SonJuntos(s \o t, s, t)
<1>1. Len(s) \in Nat /\ DOMAIN s = 1 .. Len(s) /\ Len(t) \in Nat /\ DOMAIN t = 1 .. Len(t)
  BY SucesionLarga
<1>2. /\ Sucesion(s \o t) /\ DOMAIN (s \o t) = 1 .. Len(s) + Len(t)
      /\ \A k \in 1 .. Len(s) : (s \o t)[k] = s[k]
      /\ \A k \in 1 .. Len(t) : (s \o t)[Len(s) + k] = t[k]
  BY SucesionJunta
<1> DEFINE u == s \o t
<1>3. /\ DOMAIN u = 1 .. Len(s) + Len(t)
      /\ \A k \in 1 .. Len(s) : u[k] = s[k]
      /\ \A k \in 1 .. Len(t) : u[Len(s) + k] = t[k]
  BY <1>2
<1> HIDE DEF u
<1>4. \A k \in DOMAIN s : k \in DOMAIN u /\ u[k] = s[k]
  BY <1>1, <1>3
<1>5. ASSUME NEW k \in DOMAIN t PROVE \E j \in DOMAIN u : u[j] = t[k]
  <2>1. Len(s) + k \in DOMAIN u /\ u[Len(s) + k] = t[k]
    BY <1>1, <1>3
  <2> QED BY <2>1
<1>6. ASSUME NEW k \in DOMAIN u, k \notin DOMAIN s PROVE \E j \in DOMAIN t : u[k] = t[j]
  <2>1. k - Len(s) \in 1 .. Len(t) /\ Len(s) + (k - Len(s)) = k
    BY <1>1, <1>3, <1>6
  <2> QED BY <1>1, <1>3, <2>1
<1>7. Sucesion(u)
  BY <1>2 DEF u
<1>8. SonJuntos(u, s, t)
  BY <1>4, <1>5, <1>6, <1>7 DEF SonJuntos
<1> QED BY <1>8 DEF u

LEMMA VivasPide ==
    ASSUME NEW a, NEW b, Vivas(a, b), NEW p, Vivas(p, <<>>)
    PROVE  Vivas(a \o p, b)
<1>1. Sucesion(a) /\ Sucesion(p)
  BY DEF Vivas
<1>2. SonJuntos(a \o p, a, p)
  BY <1>1, JuntosDeTodo
<1> QED BY <1>2 DEF Vivas, SonJuntos

LEMMA VivasToma ==
    ASSUME NEW a, NEW b, Vivas(a, b), 1 \in DOMAIN a, NEW ok, NEW d
    PROVE  Vivas(Sin(a, 1), Append(b, [q |-> a[1], ok |-> ok, datos |-> d]))
<1> DEFINE m == [q |-> a[1], ok |-> ok, datos |-> d]
<1>1. m.q.viva = TRUE
  BY DEF Vivas
<1> HIDE DEF m
<1>2. Sucesion(Sin(a, 1)) /\ \A k \in DOMAIN Sin(a, 1) : Sin(a, 1)[k].viva = TRUE
  BY PrimeroSale DEF Vivas
<1>3. Sucesion(Append(b, m)) /\ \A k \in DOMAIN Append(b, m) : Append(b, m)[k].q.viva = TRUE
  <2>1. /\ Sucesion(Append(b, m)) /\ Len(b) \in Nat /\ DOMAIN b = 1 .. Len(b)
        /\ DOMAIN Append(b, m) = 1 .. Len(b) + 1
        /\ \A k \in 1 .. Len(b) : Append(b, m)[k] = b[k]
        /\ Append(b, m)[Len(b) + 1] = m
    BY UnoMas DEF Vivas
  <2> QED BY <1>1, <2>1 DEF Vivas
<1> QED BY <1>2, <1>3 DEF Vivas, m

LEMMA VivasLlega ==
    ASSUME NEW a, NEW b, Vivas(a, b), 1 \in DOMAIN b, NEW p, Vivas(p, <<>>)
    PROVE  Vivas(a \o p, Sin(b, 1))
<1>1. Sucesion(Sin(b, 1)) /\ \A k \in DOMAIN Sin(b, 1) : Sin(b, 1)[k].q.viva = TRUE
  BY PrimeroSale DEF Vivas
<1>2. Vivas(a, Sin(b, 1))
  BY <1>1 DEF Vivas
<1> QED BY <1>2, VivasPide

LEMMA VivasNada == Vivas(<<>>, <<>>)
BY SucesionUna DEF Vivas

LEMMA VivasUna ==
    ASSUME NEW q, q.viva = TRUE
    PROVE  Vivas(<<q>>, <<>>)
BY SucesionUna DEF Vivas

\* Nothing of the operations K is on its way.
LEMMA NadieVuela ==
    ASSUME Vivas(ida, vuelta), NEW K
    PROVE  /\ EnVuelo(K) = 0 \/ EnVuelo(K) > 0
           /\ EnVuelo(K) = 0 => /\ \A k \in DOMAIN ida : ida[k].op \notin K
                                /\ \A k \in DOMAIN vuelta : vuelta[k].q.op \notin K
<1> DEFINE A == {k \in DOMAIN ida : ida[k].viva /\ ida[k].op \in K}
           B == {k \in DOMAIN vuelta : vuelta[k].q.viva /\ vuelta[k].q.op \in K}
<1>1. /\ Len(ida) \in Nat /\ DOMAIN ida = 1 .. Len(ida)
      /\ Len(vuelta) \in Nat /\ DOMAIN vuelta = 1 .. Len(vuelta)
  BY SucesionLarga DEF Vivas
<1>2. A \in SUBSET (1 .. Len(ida)) /\ B \in SUBSET (1 .. Len(vuelta))
  BY <1>1
<1>3. EnVuelo(K) = Cardinality(A) + Cardinality(B)
  BY DEF EnVuelo
<1>4. \A k \in DOMAIN ida : ida[k].op \in K => k \in A
  BY DEF Vivas
<1>5. \A k \in DOMAIN vuelta : vuelta[k].q.op \in K => k \in B
  BY DEF Vivas
<1> HIDE DEF A, B
<1>6. /\ IsFiniteSet(A) /\ Cardinality(A) \in Nat
      /\ IsFiniteSet(B) /\ Cardinality(B) \in Nat
  BY <1>1, <1>2, DelUnoAl
<1>7. (Cardinality(A) = 0 => A = {}) /\ (Cardinality(B) = 0 => B = {})
  BY <1>6, FS_EmptySet
<1> QED BY <1>3, <1>4, <1>5, <1>6, <1>7

-----------------------------------------------------------------------------
LEMMA HayJuntas ==
    ASSUME NEW a, Sucesion(a), NEW p, Sucesion(p), NEW N
    PROVE  (Hay(a, N) => Hay(a \o p, N)) /\ (Hay(p, N) => Hay(a \o p, N))
<1> DEFINE u == a \o p
<1>1. SonJuntos(u, a, p)
  BY JuntosDeTodo
<1> HIDE DEF u
<1>2. (Hay(a, N) => Hay(u, N)) /\ (Hay(p, N) => Hay(u, N))
  BY <1>1 DEF Hay, SonJuntos
<1> QED BY <1>2 DEF u

LEMMA FrescaPidiendo ==
    ASSUME NEW a, Sucesion(a), NEW p, Sucesion(p), NEW c, Hay(p, c.pide), NEW b, NEW P, NEW Y
    PROVE  Fresca(a \o p, b, c, P, Y)
BY HayJuntas DEF Fresca

LEMMA FrescaPide ==
    ASSUME NEW a, Sucesion(a), NEW p, Sucesion(p), NEW b, NEW c, NEW P, NEW P1, P => P1, NEW Y,
           Fresca(a, b, c, P, Y)
    PROVE  Fresca(a \o p, b, c, P1, Y)
<1>1. Hay(a, c.pide) => Hay(a \o p, c.pide)
  BY HayJuntas
<1>2. Dice(b, c, P, Y) => Dice(b, c, P1, Y)
  BY DEF Dice
<1> QED BY <1>1, <1>2 DEF Fresca

LEMMA FrescaToma ==
    ASSUME NEW a, Sucesion(a), NEW b, Sucesion(b), 1 \in DOMAIN a, NEW ok, NEW d, NEW c,
           NEW P, NEW P1, NEW Y, NEW Y1, NEW m, m = [q |-> a[1], ok |-> ok, datos |-> d],
           \/ ok = TRUE /\ Habla(m, c) /\ Dicho(m, c.dato) \in Y1
           \/ ok = TRUE /\ a[1].op \in c.relee
           \/ /\ a[1].op \notin c.pide /\ ~Habla(m, c) /\ Fresca(a, b, c, P, Y)
              /\ (P => P1) /\ Y \subseteq Y1
    PROVE  Fresca(Sin(a, 1), Append(b, m), c, P1, Y1)
<1> DEFINE a1 == Sin(a, 1)
           b1 == Append(b, m)
           n == Len(b) + 1
<1>1. /\ Len(b) \in Nat /\ DOMAIN b = 1 .. Len(b) /\ DOMAIN b1 = 1 .. n
      /\ \A k \in 1 .. Len(b) : b1[k] = b[k]
      /\ b1[n] = m
  BY UnoMas
<1>2. /\ Len(a) \in Nat \ {0} /\ DOMAIN a = 1 .. Len(a) /\ DOMAIN a1 = 1 .. Len(a) - 1
      /\ \A k \in 1 .. Len(a) - 1 : a1[k] = a[k + 1]
  BY PrimeroSale
<1>3. m.ok = ok /\ m.q = a[1]
  OBVIOUS
<1> HIDE DEF a1, b1
<1>4. CASE ok = TRUE /\ Habla(m, c) /\ Dicho(m, c.dato) \in Y1
  <2>1. n \in DOMAIN b1 /\ \A j \in DOMAIN b1 : ~(j > n)
    BY <1>1
  <2>2. Ultima(b1, c, n)
    BY <1>1, <1>4, <2>1 DEF Ultima
  <2>3. Dice(b1, c, P1, Y1)
    BY <1>1, <1>3, <1>4, <2>2 DEF Dice
  <2> QED BY <2>3 DEF Fresca, a1, b1
<1>5. CASE ok = TRUE /\ a[1].op \in c.relee
  <2>1. n \in DOMAIN b1
    BY <1>1
  <2>2. Confirma(b1, c.relee)
    BY <1>1, <1>3, <1>5, <2>1 DEF Confirma
  <2> QED BY <2>2 DEF Fresca, a1, b1
<1>6. CASE /\ a[1].op \notin c.pide /\ ~Habla(m, c) /\ Fresca(a, b, c, P, Y)
           /\ (P => P1) /\ Y \subseteq Y1
  <2>1. Hay(a, c.pide) => Hay(a1, c.pide)
    <3> SUFFICES ASSUME NEW k \in DOMAIN a, a[k].op \in c.pide PROVE Hay(a1, c.pide)
      BY DEF Hay
    <3>1. k - 1 \in DOMAIN a1 /\ a1[k - 1] = a[k]
      BY <1>2, <1>6
    <3> QED BY <3>1 DEF Hay
  <2>2. Confirma(b, c.relee) => Confirma(b1, c.relee)
    BY <1>1 DEF Confirma
  <2>3. Dice(b, c, P, Y) => Dice(b1, c, P1, Y1)
    <3>1. ASSUME P, \A k \in DOMAIN b : ~Habla(b[k], c) PROVE Dice(b1, c, P1, Y1)
      BY <1>1, <1>6, <3>1 DEF Dice
    <3>2. ASSUME NEW k, Ultima(b, c, k), b[k].ok = TRUE, Dicho(b[k], c.dato) \in Y
          PROVE  Dice(b1, c, P1, Y1)
      <4>1. k \in DOMAIN b /\ b1[k] = b[k] /\ k \in DOMAIN b1
        BY <1>1, <3>2 DEF Ultima
      <4>2. ASSUME NEW j \in DOMAIN b1, j > k PROVE ~Habla(b1[j], c)
        BY <1>1, <1>6, <3>2, <4>2 DEF Ultima
      <4>3. Ultima(b1, c, k)
        BY <3>2, <4>1, <4>2 DEF Ultima
      <4> QED BY <1>6, <3>2, <4>1, <4>3 DEF Dice
    <3> QED BY <3>1, <3>2 DEF Dice
  <2> QED BY <1>6, <2>1, <2>2, <2>3 DEF Fresca, a1, b1
<1> QED BY <1>4, <1>5, <1>6

\* The three ways: the answer tells it; the page will ask again; nothing to do with it.
LEMMA TomaDice ==
    ASSUME NEW a, NEW b, Vivas(a, b), 1 \in DOMAIN a, NEW c, NEW P1, NEW Y1, NEW m, NEW d,
           m = [q |-> a[1], ok |-> TRUE, datos |-> d], Habla(m, c), Dicho(m, c.dato) \in Y1
    PROVE  Fresca(Sin(a, 1), Append(b, m), c, P1, Y1)
BY FrescaToma DEF Vivas

LEMMA TomaCambia ==
    ASSUME NEW a, NEW b, Vivas(a, b), 1 \in DOMAIN a, NEW c, NEW P1, NEW Y1, NEW m, NEW d,
           m = [q |-> a[1], ok |-> TRUE, datos |-> d], a[1].op \in c.relee
    PROVE  Fresca(Sin(a, 1), Append(b, m), c, P1, Y1)
BY FrescaToma DEF Vivas

LEMMA TomaSigue ==
    ASSUME NEW a, NEW b, Vivas(a, b), 1 \in DOMAIN a, NEW c, NEW P, NEW P1, NEW Y, NEW Y1,
           NEW m, NEW ok, NEW d, m = [q |-> a[1], ok |-> ok, datos |-> d],
           a[1].op \notin c.pide, ~Habla(m, c), Fresca(a, b, c, P, Y), P => P1, Y \subseteq Y1
    PROVE  Fresca(Sin(a, 1), Append(b, m), c, P1, Y1)
BY FrescaToma DEF Vivas

LEMMA FrescaLlega ==
    ASSUME NEW a, Sucesion(a), NEW p, Sucesion(p), NEW b, Sucesion(b), 1 \in DOMAIN b, NEW c,
           NEW P, NEW P1, NEW Y, Fresca(a, b, c, P, Y),
           b[1].ok = TRUE => b[1].q.op \notin c.relee,
           Habla(b[1], c) /\ b[1].ok = TRUE /\ Dicho(b[1], c.dato) \in Y => P1,
           ~Habla(b[1], c) /\ P => P1
    PROVE  Fresca(a \o p, Sin(b, 1), c, P1, Y)
<1> DEFINE b1 == Sin(b, 1)
<1>1. /\ Len(b) \in Nat \ {0} /\ DOMAIN b = 1 .. Len(b) /\ DOMAIN b1 = 1 .. Len(b) - 1
      /\ \A k \in 1 .. Len(b) - 1 : b1[k] = b[k + 1]
  BY PrimeroSale
<1> HIDE DEF b1
<1>2. Confirma(b, c.relee) => Confirma(b1, c.relee)
  <2> SUFFICES ASSUME NEW k \in DOMAIN b, b[k].ok = TRUE, b[k].q.op \in c.relee
               PROVE  Confirma(b1, c.relee)
    BY DEF Confirma
  <2>1. k - 1 \in DOMAIN b1 /\ b1[k - 1] = b[k]
    BY <1>1
  <2> QED BY <2>1 DEF Confirma
<1>3. Dice(b, c, P, Y) => Dice(b1, c, P1, Y)
  <2>1. ASSUME P, \A k \in DOMAIN b : ~Habla(b[k], c) PROVE Dice(b1, c, P1, Y)
    <3>1. \A k \in DOMAIN b1 : ~Habla(b1[k], c)
      BY <1>1, <2>1
    <3> QED BY <2>1, <3>1 DEF Dice
  <2>2. ASSUME NEW k, Ultima(b, c, k), b[k].ok = TRUE, Dicho(b[k], c.dato) \in Y
        PROVE  Dice(b1, c, P1, Y)
    <3>1. CASE k = 1
      <4>1. \A j \in DOMAIN b1 : ~Habla(b1[j], c)
        <5> TAKE j \in DOMAIN b1
        <5>1. j + 1 \in DOMAIN b /\ j + 1 > 1 /\ b1[j] = b[j + 1]
          BY <1>1
        <5> QED BY <2>2, <3>1, <5>1 DEF Ultima
      <4> QED BY <2>2, <3>1, <4>1 DEF Dice, Ultima
    <3>2. CASE k # 1
      <4>1. k - 1 \in DOMAIN b1 /\ b1[k - 1] = b[k]
        BY <1>1, <2>2, <3>2 DEF Ultima
      <4>2. ASSUME NEW j \in DOMAIN b1, j > k - 1 PROVE ~Habla(b1[j], c)
        <5>1. j + 1 \in DOMAIN b /\ j + 1 > k /\ b1[j] = b[j + 1]
          BY <1>1, <2>2, <4>2 DEF Ultima
        <5> QED BY <2>2, <5>1 DEF Ultima
      <4>3. Ultima(b1, c, k - 1)
        BY <2>2, <4>1, <4>2 DEF Ultima
      <4> QED BY <2>2, <4>1, <4>3 DEF Dice
    <3> QED BY <3>1, <3>2
  <2> QED BY <2>1, <2>2 DEF Dice
<1>4. Fresca(a, b1, c, P1, Y)
  <2>1. Hay(a, c.pide) \/ Confirma(b, c.relee) \/ Dice(b, c, P, Y)
    BY DEF Fresca
  <2> QED BY <1>2, <1>3, <2>1 DEF Fresca
<1> QED BY <1>4, FrescaPide DEF b1

LEMMA FrescaEnReposo ==
    ASSUME NEW c, NEW P, NEW Y, Fresca(<<>>, <<>>, c, P, Y)
    PROVE  P
BY SucesionUna DEF Fresca, Hay, Confirma, Dice, Ultima

LEMMA FrescaRecibe ==
    ASSUME NEW a, NEW b, Vivas(a, b), 1 \in DOMAIN b, NEW p, Vivas(p, <<>>), NEW c,
           NEW P, NEW P1, NEW Y, Fresca(a, b, c, P, Y),
           \/ Hay(p, c.pide)
           \/ /\ b[1].ok = TRUE => b[1].q.op \notin c.relee
              /\ Habla(b[1], c) /\ b[1].ok = TRUE /\ Dicho(b[1], c.dato) \in Y => P1
              /\ ~Habla(b[1], c) /\ P => P1
    PROVE  Fresca(a \o p, Sin(b, 1), c, P1, Y)
<1>1. Sucesion(a) /\ Sucesion(p) /\ Sucesion(b)
  BY DEF Vivas
<1>2. CASE Hay(p, c.pide)
  BY <1>1, <1>2, FrescaPidiendo
<1>3. CASE /\ b[1].ok = TRUE => b[1].q.op \notin c.relee
           /\ Habla(b[1], c) /\ b[1].ok = TRUE /\ Dicho(b[1], c.dato) \in Y => P1
           /\ ~Habla(b[1], c) /\ P => P1
  BY <1>1, <1>3, FrescaLlega
<1> QED BY <1>2, <1>3

\* What is asked for in one go: nothing, or one thing.
LEMMA PideNada ==
    ASSUME NEW N
    PROVE  Sucesion(<<>>) /\ Vivas(<<>>, <<>>) /\ ~Hay(<<>>, N)
BY SucesionUna DEF Vivas, Hay

LEMMA PideUna ==
    ASSUME NEW q, q.viva = TRUE, NEW N
    PROVE  Sucesion(<<q>>) /\ Vivas(<<q>>, <<>>) /\ (Hay(<<q>>, N) <=> q.op \in N)
BY SucesionUna DEF Vivas, Hay

LEMMA NadieEnReposo ==
    /\ Huerfanos(<<>>) = <<>> /\ HuerfanasDe(<<>>) = <<>>
    /\ \A q : <<>> \o <<q>> = <<q>>
<1>1. DOMAIN <<>> = {}
  BY SucesionUna
<1>2. \A f : DOMAIN f = {} => [k \in DOMAIN f |-> [f[k] EXCEPT !.viva = FALSE]] = [k \in {} |-> k]
  OBVIOUS
<1> QED BY <1>1 DEF Huerfanos, HuerfanasDe

\* What is in u was in s, or is in T.
Salen(u, s, T) == \A k \in DOMAIN u : u[k] \in T \/ \E j \in DOMAIN s : u[k] = s[j]

LEMMA SalenDe ==
    ASSUME NEW s, Sucesion(s), NEW x
    PROVE  /\ Salen(s \o <<>>, s, {}) /\ Salen(s \o <<x>>, s, {x}) /\ Salen(Append(s, x), s, {x})
           /\ 1 \in DOMAIN s => Salen(Sin(s, 1), s, {})
<1>1. SonJuntos(s \o <<>>, s, <<>>)
  BY SucesionUna, JuntosDeTodo
<1>2. SonJuntos(s \o <<x>>, s, <<x>>)
  BY SucesionUna, JuntosDeTodo
<1>3. Salen(s \o <<>>, s, {})
  BY <1>1, SucesionUna DEF SonJuntos, Salen
<1>4. Salen(s \o <<x>>, s, {x})
  <2> DEFINE u == s \o <<x>>
             t == <<x>>
  <2>1. SonJuntos(u, s, t) /\ DOMAIN t = {1} /\ t[1] = x
    BY <1>2, SucesionUna
  <2> HIDE DEF u, t
  <2>2. Salen(u, s, {x})
    BY <2>1 DEF SonJuntos, Salen
  <2> QED BY <2>2 DEF u
<1>5. Append(s, x) = s \o <<x>>
  BY SucesionMas
<1>6. ASSUME 1 \in DOMAIN s PROVE Salen(Sin(s, 1), s, {})
  <2> DEFINE u == Sin(s, 1)
  <2>1. /\ DOMAIN s = 1 .. Len(s) /\ DOMAIN u = 1 .. Len(s) - 1 /\ Len(s) \in Nat
        /\ \A k \in 1 .. Len(s) - 1 : u[k] = s[k + 1]
    BY <1>6, PrimeroSale
  <2> HIDE DEF u
  <2>2. \A k \in 1 .. Len(s) - 1 : k + 1 \in DOMAIN s
    BY <2>1
  <2>3. Salen(u, s, {})
    BY <2>1, <2>2 DEF Salen
  <2> QED BY <2>3 DEF u
<1> QED BY <1>3, <1>4, <1>5, <1>6

(* The last request of the operations K is for one of T, if there is one.         *)
Que(q) == <<q.tras, q.datos>>
Encarga(a, K, T, k) ==
    k \in DOMAIN a /\ a[k].op \in K /\ Que(a[k]) \in T /\ \A j \in DOMAIN a : j > k => a[j].op \notin K
Encargada(a, K, T) == Hay(a, K) => \E k \in DOMAIN a : Encarga(a, K, T, k)

LEMMA EncargadaUltima ==
    ASSUME NEW a, Sucesion(a), NEW K, NEW T, NEW q, q.op \in K, Que(q) \in T
    PROVE  Encargada(a \o <<q>>, K, T)
<1> DEFINE u == a \o <<q>>
           n == Len(a) + 1
<1>1. Len(a) \in Nat /\ DOMAIN u = 1 .. n /\ u[n] = q
  BY UnoMas, SucesionMas
<1> HIDE DEF u
<1>2. Encarga(u, K, T, n)
  BY <1>1 DEF Encarga
<1> QED BY <1>2 DEF Encargada, u

LEMMA EncargadaPide ==
    ASSUME NEW a, Sucesion(a), NEW K, NEW T, NEW q, 
           (q.op \in K /\ Que(q) \in T) \/ (q.op \notin K /\ Encargada(a, K, T))
    PROVE  Encargada(a \o <<q>>, K, T)
<1> DEFINE u == a \o <<q>>
           n == Len(a) + 1
<1>1. /\ Len(a) \in Nat /\ DOMAIN a = 1 .. Len(a) /\ DOMAIN u = 1 .. n
      /\ \A k \in 1 .. Len(a) : u[k] = a[k]
      /\ u[n] = q
  BY UnoMas, SucesionMas
<1> HIDE DEF u
<1>2. CASE q.op \in K /\ Que(q) \in T
  BY <1>2, EncargadaUltima DEF u
<1>3. CASE q.op \notin K /\ Encargada(a, K, T)
  <2>1. Hay(u, K) => Hay(a, K)
    BY <1>1, <1>3 DEF Hay
  <2>2. ASSUME NEW k, Encarga(a, K, T, k) PROVE k \in DOMAIN u /\ Encarga(u, K, T, k)
    <3>1. k \in 1 .. Len(a)
      BY <1>1, <2>2 DEF Encarga
    <3>2. ASSUME NEW j \in DOMAIN u, j > k PROVE u[j].op \notin K
      <4>1. j \in 1 .. Len(a) \/ j = n
        BY <1>1
      <4> QED BY <1>1, <1>3, <2>2, <3>2, <4>1 DEF Encarga
    <3> QED BY <1>1, <2>2, <3>1, <3>2 DEF Encarga
  <2>3. Hay(u, K) => \E k \in DOMAIN u : Encarga(u, K, T, k)
    BY <1>3, <2>1, <2>2 DEF Encargada
  <2> QED BY <2>3, <2>2 DEF Encargada, u
<1> QED BY <1>2, <1>3

LEMMA EncargadaToma ==
    ASSUME NEW a, Sucesion(a), 1 \in DOMAIN a, NEW K, NEW T, Encargada(a, K, T)
    PROVE  /\ Encargada(Sin(a, 1), K, T)
           /\ a[1].op \in K => Que(a[1]) \in T \/ Hay(Sin(a, 1), K)
<1> DEFINE u == Sin(a, 1)
<1>1. /\ Len(a) \in Nat \ {0} /\ DOMAIN a = 1 .. Len(a) /\ DOMAIN u = 1 .. Len(a) - 1
      /\ \A k \in 1 .. Len(a) - 1 : u[k] = a[k + 1]
  BY PrimeroSale
<1> HIDE DEF u
<1>2. ASSUME NEW k, Encarga(a, K, T, k), k # 1 PROVE Encarga(u, K, T, k - 1)
  <2>1. k - 1 \in DOMAIN u /\ u[k - 1] = a[k]
    BY <1>1, <1>2 DEF Encarga
  <2>2. ASSUME NEW j \in DOMAIN u, j > k - 1 PROVE u[j].op \notin K
    <3>1. j + 1 \in DOMAIN a /\ j + 1 > k /\ u[j] = a[j + 1]
      BY <1>1, <1>2, <2>2 DEF Encarga
    <3> QED BY <1>2, <3>1 DEF Encarga
  <2> QED BY <1>2, <2>1, <2>2 DEF Encarga
<1>3. ASSUME NEW k, Encarga(a, K, T, k) PROVE (k # 1 /\ Hay(u, K)) \/ (k = 1 /\ Que(a[1]) \in T /\ ~Hay(u, K))
  <2>1. CASE k # 1
    <3>1. Encarga(u, K, T, k - 1)
      BY <1>2, <1>3, <2>1
    <3> QED BY <2>1, <3>1 DEF Encarga, Hay
  <2>2. CASE k = 1
    <3>1. ASSUME NEW j \in DOMAIN u PROVE u[j].op \notin K
      <4>1. j + 1 \in DOMAIN a /\ j + 1 > 1 /\ u[j] = a[j + 1]
        BY <1>1
      <4> QED BY <1>3, <2>2, <4>1 DEF Encarga
    <3> QED BY <1>3, <2>2, <3>1 DEF Encarga, Hay
  <2> QED BY <2>1, <2>2
<1>4. Hay(u, K) => Hay(a, K)
  <2>1. \A j \in DOMAIN u : j + 1 \in DOMAIN a /\ u[j] = a[j + 1]
    BY <1>1
  <2> QED BY <2>1 DEF Hay
<1>5. Hay(u, K) => \E k \in DOMAIN u : Encarga(u, K, T, k)
  <2> SUFFICES ASSUME Hay(u, K) PROVE \E k \in DOMAIN u : Encarga(u, K, T, k)
    OBVIOUS
  <2>1. PICK k \in DOMAIN a : Encarga(a, K, T, k)
    BY <1>4 DEF Encargada
  <2>2. k # 1
    BY <1>3, <2>1
  <2>3. Encarga(u, K, T, k - 1) /\ k - 1 \in DOMAIN u
    BY <1>2, <2>1, <2>2 DEF Encarga
  <2> QED BY <2>3
<1>6. ASSUME a[1].op \in K PROVE Que(a[1]) \in T \/ Hay(u, K)
  <2>1. PICK k \in DOMAIN a : Encarga(a, K, T, k)
    BY <1>6 DEF Encargada, Hay
  <2> QED BY <1>3, <2>1
<1> QED BY <1>5, <1>6 DEF Encargada, u

\* One more request of those that tell is on its way.
LEMMA TomaAunPide ==
    ASSUME NEW a, NEW b, NEW c, Hay(Sin(a, 1), c.pide), NEW P, NEW Y, NEW m
    PROVE  Fresca(Sin(a, 1), Append(b, m), c, P, Y)
BY DEF Fresca

LEMMA JuntoNada == ASSUME NEW s, Sucesion(s) PROVE s \o <<>> = s
BY ConcatEmptySeq DEF Sucesion

LEMMA FrescaCalla ==
    ASSUME NEW a, NEW b, NEW c, NEW P, NEW Y, Fresca(a, b, c, P, Y), \A k \in DOMAIN b : ~Habla(b[k], c), NEW Y1
    PROVE  Fresca(a, b, c, P, Y1)
BY DEF Fresca, Dice, Ultima

(* The order in which things were asked for: of two on their way, no one of *)
(* the operations A comes before one of the operations B; if mismo, of the  *)
(* same subject.                                                            *)
Antes(x, y, A, B, mismo) == x.op \in A /\ y.op \in B /\ (mismo => x.id = y.id)
Orden(a, b, A, B, mismo) ==
    /\ \A j, k \in DOMAIN a : j < k => ~Antes(a[j], a[k], A, B, mismo)
    /\ \A j, k \in DOMAIN b : j < k => ~Antes(b[j].q, b[k].q, A, B, mismo)
    /\ \A j \in DOMAIN b, k \in DOMAIN a : ~Antes(b[j].q, a[k], A, B, mismo)

LEMMA OrdenUna ==
    ASSUME NEW A, NEW B, NEW mismo, NEW q
    PROVE  Orden(<<>>, <<>>, A, B, mismo) /\ Orden(<<q>>, <<>>, A, B, mismo)
<1>1. DOMAIN <<>> = {} /\ DOMAIN <<q>> = {1}
  BY SucesionUna
<1> QED BY <1>1 DEF Orden

LEMMA OrdenPide ==
    ASSUME NEW a, NEW b, Vivas(a, b), NEW A, NEW B, NEW mismo, Orden(a, b, A, B, mismo), NEW q,
           \A k \in DOMAIN a : ~Antes(a[k], q, A, B, mismo),
           \A k \in DOMAIN b : ~Antes(b[k].q, q, A, B, mismo)
    PROVE  Orden(a \o <<q>>, b, A, B, mismo)
<1> DEFINE u == a \o <<q>>
           n == Len(a) + 1
           F(x, y) == Antes(x, y, A, B, mismo)
<1>1. /\ Len(a) \in Nat /\ DOMAIN a = 1 .. Len(a) /\ DOMAIN u = 1 .. n
      /\ \A k \in 1 .. Len(a) : u[k] = a[k]
      /\ u[n] = q
  BY UnoMas, SucesionMas DEF Vivas
<1> HIDE DEF u
<1>2. ASSUME NEW j \in DOMAIN u, NEW k \in DOMAIN u, j < k PROVE ~F(u[j], u[k])
  <2>1. j \in DOMAIN a /\ u[j] = a[j]
    BY <1>1, <1>2
  <2>2. CASE k = n
    BY <1>1, <2>1, <2>2
  <2>3. CASE k # n
    <3>1. k \in DOMAIN a /\ u[k] = a[k]
      BY <1>1, <2>3
    <3> QED BY <1>2, <2>1, <3>1 DEF Orden
  <2> QED BY <2>2, <2>3
<1>3. ASSUME NEW j \in DOMAIN b, NEW k \in DOMAIN u PROVE ~F(b[j].q, u[k])
  <2>1. k = n \/ (k \in DOMAIN a /\ u[k] = a[k])
    BY <1>1
  <2> QED BY <1>1, <2>1 DEF Orden
<1>4. \A j, k \in DOMAIN b : j < k => ~F(b[j].q, b[k].q)
  BY DEF Orden
<1>5. Orden(u, b, A, B, mismo)
  BY <1>2, <1>3, <1>4 DEF Orden
<1> QED BY <1>5 DEF u

LEMMA OrdenToma ==
    ASSUME NEW a, NEW b, Vivas(a, b), 1 \in DOMAIN a, NEW A, NEW B, NEW mismo, Orden(a, b, A, B, mismo),
           NEW m, m.q = a[1]
    PROVE  Orden(Sin(a, 1), Append(b, m), A, B, mismo)
<1> DEFINE a1 == Sin(a, 1)
           b1 == Append(b, m)
           n == Len(b) + 1
           F(x, y) == Antes(x, y, A, B, mismo)
<1>1. /\ Len(b) \in Nat /\ DOMAIN b = 1 .. Len(b) /\ DOMAIN b1 = 1 .. n
      /\ \A k \in 1 .. Len(b) : b1[k] = b[k]
      /\ b1[n] = m
  BY UnoMas DEF Vivas
<1>2. /\ Len(a) \in Nat \ {0} /\ DOMAIN a = 1 .. Len(a) /\ DOMAIN a1 = 1 .. Len(a) - 1
      /\ \A k \in 1 .. Len(a) - 1 : a1[k] = a[k + 1]
  BY PrimeroSale DEF Vivas
<1> HIDE DEF a1, b1
<1>3. ASSUME NEW k \in DOMAIN a1 PROVE k + 1 \in DOMAIN a /\ a1[k] = a[k + 1]
  BY <1>2
<1>4. ASSUME NEW j \in DOMAIN a1, NEW k \in DOMAIN a1, j < k PROVE ~F(a1[j], a1[k])
  <2>1. j + 1 < k + 1
    BY <1>2, <1>4
  <2> QED BY <1>3, <2>1 DEF Orden
<1>5. ASSUME NEW j \in DOMAIN b1, NEW k \in DOMAIN b1, j < k PROVE ~F(b1[j].q, b1[k].q)
  <2>1. j \in DOMAIN b /\ b1[j] = b[j]
    BY <1>1, <1>5
  <2>2. k = n \/ (k \in DOMAIN b /\ b1[k] = b[k])
    BY <1>1
  <2> QED BY <1>1, <1>5, <2>1, <2>2 DEF Orden
<1>6. ASSUME NEW j \in DOMAIN b1, NEW k \in DOMAIN a1 PROVE ~F(b1[j].q, a1[k])
  <2>1. j = n \/ (j \in DOMAIN b /\ b1[j] = b[j])
    BY <1>1
  <2>2. 1 < k + 1
    BY <1>2
  <2> QED BY <1>1, <1>3, <2>1, <2>2 DEF Orden
<1>7. Orden(a1, b1, A, B, mismo)
  BY <1>4, <1>5, <1>6 DEF Orden
<1> QED BY <1>7 DEF a1, b1

LEMMA OrdenLlega ==
    ASSUME NEW a, NEW b, Vivas(a, b), 1 \in DOMAIN b, NEW A, NEW B, NEW mismo, Orden(a, b, A, B, mismo)
    PROVE  /\ Orden(a, Sin(b, 1), A, B, mismo)
           /\ \A k \in DOMAIN a : ~Antes(b[1].q, a[k], A, B, mismo)
           /\ \A k \in DOMAIN Sin(b, 1) : ~Antes(b[1].q, Sin(b, 1)[k].q, A, B, mismo)
<1> DEFINE b1 == Sin(b, 1)
           F(x, y) == Antes(x, y, A, B, mismo)
<1>1. /\ Len(b) \in Nat \ {0} /\ DOMAIN b = 1 .. Len(b) /\ DOMAIN b1 = 1 .. Len(b) - 1
      /\ \A k \in 1 .. Len(b) - 1 : b1[k] = b[k + 1]
  BY PrimeroSale DEF Vivas
<1> HIDE DEF b1
<1>2. ASSUME NEW k \in DOMAIN b1 PROVE k + 1 \in DOMAIN b /\ b1[k] = b[k + 1] /\ 1 < k + 1
  BY <1>1
<1>3. ASSUME NEW j \in DOMAIN b1, NEW k \in DOMAIN b1, j < k PROVE ~F(b1[j].q, b1[k].q)
  <2>1. j + 1 < k + 1
    BY <1>1, <1>3
  <2> QED BY <1>2, <2>1 DEF Orden
<1>4. ASSUME NEW k \in DOMAIN b1 PROVE ~F(b[1].q, b1[k].q) /\ \A j \in DOMAIN a : ~F(b1[k].q, a[j])
  BY <1>2 DEF Orden
<1>5. Orden(a, b1, A, B, mismo) /\ \A k \in DOMAIN b1 : ~F(b[1].q, b1[k].q)
  BY <1>3, <1>4 DEF Orden
<1>6. \A k \in DOMAIN a : ~F(b[1].q, a[k])
  BY DEF Orden
<1> QED BY <1>5, <1>6 DEF b1

-----------------------------------------------------------------------------
(* The categories: every change is followed by the list, which brings all  *)
(* of the rows.                                                            *)

CCambios == {"crear", "actualizar", "desactivar", "reactivar"}
CCanal == Canal({"listar"}, CCambios, {"listar"}, {}, <<"todo">>)
CFiel(v, s, a, b) == Vivas(a, b) /\ "filas" \in DOMAIN v /\ Fresca(a, b, CCanal, v.filas = s, {s})
CategoriasFiel == dudosa # TRUE => CFiel(vista, srv, ida, vuelta)

LEMMA CHabla ==
    ASSUME NEW m
    PROVE  /\ CCanal.pide = {"listar"} /\ CCanal.relee = CCambios
           /\ Habla(m, CCanal) <=> m.q.op = "listar"
           /\ Dicho(m, CCanal.dato) = m.datos
BY DEF CCanal, Canal, Habla, Dicho

LEMMA CFielToque ==
    ASSUME NEW v, NEW s, NEW a, NEW b, CFiel(v, s, a, b), NEW w, "filas" \in DOMAIN w, w.filas = v.filas,
           NEW p, Vivas(p, <<>>)
    PROVE  CFiel(w, s, a \o p, b)
<1> DEFINE P == v.filas = s
           P1 == w.filas = s
<1>1. /\ Vivas(a, b) /\ Sucesion(a) /\ Sucesion(p)
      /\ P => P1
      /\ Fresca(a, b, CCanal, P, {s})
  BY DEF CFiel, Vivas
<1> HIDE DEF P, P1
<1>2. Vivas(a \o p, b)
  BY <1>1, VivasPide
<1>3. Fresca(a \o p, b, CCanal, P1, {s})
  BY <1>1, FrescaPide
<1> QED BY <1>2, <1>3 DEF CFiel, P1

LEMMA CFielMonta ==
    ASSUME NEW v, NEW s, "filas" \in DOMAIN v, NEW q, q.viva = TRUE, q.op = "listar"
    PROVE  CFiel(v, s, <<q>>, <<>>)
<1> DEFINE P == v.filas = s
<1>1. Vivas(<<q>>, <<>>)
  BY VivasUna
<1>2. Hay(<<q>>, CCanal.pide)
  BY SucesionUna, CHabla DEF Hay
<1> HIDE DEF P
<1>3. Fresca(<<q>>, <<>>, CCanal, P, {s})
  BY <1>2 DEF Fresca
<1> QED BY <1>1, <1>3 DEF CFiel, P

LEMMA CFielResponde ==
    ASSUME CategoriasInv, CategoriasFiel, NEW i, Categorias!Responde(i), dudosa' # TRUE
    PROVE  CFiel(vista', srv', ida', vuelta')
<1> DEFINE q == ida[1]
           r == Categorias!Servidor(srv, q)
           m == [q |-> q, ok |-> r.ok, datos |-> r.datos]
<1>1. /\ 1 \in DOMAIN ida /\ srv' = r.srv /\ ida' = Sin(ida, 1) /\ vista' = vista
      /\ vuelta' = Append(vuelta, m) /\ dudosa # TRUE
  BY DEF Categorias!Responde, Categorias!Atiende, Categorias!Sin, Sin
<1>2. CFiel(vista, srv, ida, vuelta)
  BY <1>1 DEF CategoriasFiel
<1>3. q.op \in CO
  BY <1>1 DEF CategoriasInv, Correo, SonPedidos, EsPedido
<1>4. \/ q.op = "listar" /\ r.ok = TRUE /\ r.datos = srv /\ r.srv = srv
      \/ q.op \in CCambios /\ r.ok = TRUE
      \/ q.op \in CCambios /\ r.ok = FALSE /\ r.srv = srv
  BY <1>3 DEF Categorias!Servidor, Categorias!Acepta, Categorias!Rechaza, CO, CCambios
<1> DEFINE P == vista.filas = srv
           P1 == vista.filas = srv'
<1>5. r.srv = srv => (P => P1) /\ srv' = srv
  BY <1>1
<1>6. Sucesion(ida) /\ Sucesion(vuelta) /\ Vivas(ida, vuelta) /\ Fresca(ida, vuelta, CCanal, P, {srv})
      /\ "filas" \in DOMAIN vista
  BY <1>2 DEF CFiel, Vivas
<1>7. m.q = q /\ m.ok = r.ok /\ m.datos = r.datos
  OBVIOUS
<1> HIDE DEF P, P1
<1>8. Vivas(ida', vuelta')
  BY <1>1, <1>6, VivasToma
<1>9. Habla(m, CCanal) <=> q.op = "listar"
  BY <1>7, CHabla
<1>10. Dicho(m, CCanal.dato) = r.datos
  BY <1>7, CHabla
<1>11. \/ r.ok = TRUE /\ Habla(m, CCanal) /\ Dicho(m, CCanal.dato) \in {srv'}
       \/ r.ok = TRUE /\ ida[1].op \in CCanal.relee
       \/ /\ ida[1].op \notin CCanal.pide /\ ~Habla(m, CCanal)
          /\ (P => P1) /\ {srv} \subseteq {srv'}
  BY <1>1, <1>4, <1>5, <1>9, <1>10, CHabla DEF CCambios
<1>12. m = [q |-> ida[1], ok |-> r.ok, datos |-> r.datos]
  OBVIOUS
<1> DEFINE ok == r.ok
           d == r.datos
           Y == {srv}
           Y1 == {srv'}
<1>14. \/ ok = TRUE /\ Habla(m, CCanal) /\ Dicho(m, CCanal.dato) \in Y1
       \/ ok = TRUE /\ ida[1].op \in CCanal.relee
       \/ /\ ida[1].op \notin CCanal.pide /\ ~Habla(m, CCanal) /\ Fresca(ida, vuelta, CCanal, P, Y)
          /\ (P => P1) /\ Y \subseteq Y1
  BY <1>6, <1>11
<1> HIDE DEF m, r, q, ok, d, Y, Y1
<1>15. m = [q |-> ida[1], ok |-> ok, datos |-> d]
  BY <1>12 DEF ok, d
<1>13. Fresca(Sin(ida, 1), Append(vuelta, m), CCanal, P1, Y1)
    <2>1. CASE ok = TRUE /\ Habla(m, CCanal) /\ Dicho(m, CCanal.dato) \in Y1
    BY <1>1, <1>6, <1>15, <2>1, TomaDice
  <2>2. CASE ok = TRUE /\ ida[1].op \in CCanal.relee
    BY <1>1, <1>6, <1>15, <2>2, TomaCambia
  <2>3. CASE /\ ida[1].op \notin CCanal.pide /\ ~Habla(m, CCanal) /\ Fresca(ida, vuelta, CCanal, P, Y)
             /\ (P => P1) /\ Y \subseteq Y1
    BY <1>1, <1>6, <1>15, <2>3, TomaSigue
  <2> QED BY <1>14, <2>1, <2>2, <2>3
<1> QED BY <1>1, <1>6, <1>8, <1>13 DEF CFiel, P1, Y1

LEMMA CFielRecibe ==
    ASSUME CategoriasInv, CategoriasFiel, NEW i, Categorias!Recibe(i), dudosa' # TRUE
    PROVE  CFiel(vista', srv', ida', vuelta')
<1> DEFINE m == vuelta[1]
           r == Categorias!Recibir(m)
           q == Tras(Pedido("listar", Nadie, Nada), "guardar")
           z == Tras(Pedido("listar", Nadie, Nada), "")
<1>1. i = 1 /\ dudosa # TRUE /\ 1 \in DOMAIN vuelta /\ m.q.op \in CO
  <2>1. i \in DOMAIN vuelta /\ vuelta[i].q.op \in CO
    BY DEF Categorias!Recibe, Categorias!Llega, CategoriasInv, Correo, SonRespuestas, EsRespuesta, EsPedido
  <2>2. Categorias!Recibir(vuelta[i]).va = FALSE
    BY <2>1 DEF CO, Categorias!Recibir, Categorias!Queda, Categorias!Pide, Categorias!Releer
  <2>3. i = 1 /\ dudosa # TRUE
    BY <2>2 DEF Categorias!Recibe, Categorias!Llega
  <2> QED BY <2>1, <2>3
<1>2. CFiel(vista, srv, ida, vuelta)
  BY <1>1 DEF CategoriasFiel
<1>3. Vivas(ida, vuelta) /\ "filas" \in DOMAIN vista /\ m.q.viva = TRUE
  BY <1>1, <1>2 DEF CFiel, Vivas
<1>4. /\ r.va = FALSE
      /\ "filas" \in DOMAIN r.vista
      /\ \/ m.q.op = "listar" /\ r.pide = <<>> /\ (m.ok = TRUE => r.vista.filas = m.datos)
         \/ m.q.op \in CCambios /\ m.ok = TRUE /\ r.pide \in {<<q>>, <<z>>}
         \/ m.q.op \in CCambios /\ m.ok # TRUE /\ r.pide = <<>> /\ r.vista.filas = vista.filas
  BY <1>1, <1>3 DEF CO, CCambios, Categorias!Recibir, Categorias!Queda, Categorias!Pide, Categorias!Releer,
     Categorias!Tras, Tras, Categorias!Pedido, Pedido, Categorias!Nadie, Nadie
<1>5. /\ vista' = r.vista /\ srv' = srv
      /\ ida' = ida \o r.pide /\ vuelta' = Sin(vuelta, 1)
  BY <1>1, <1>3, <1>4 DEF Categorias!Recibe, Categorias!Llega, Categorias!Sin, Sin
<1>6. q.op = "listar" /\ q.viva = TRUE /\ z.op = "listar" /\ z.viva = TRUE
  BY DEF Tras, Pedido
<1> DEFINE P == vista.filas = srv
           P1 == r.vista.filas = srv
           p == r.pide
<1>7. Fresca(ida, vuelta, CCanal, P, {srv})
  BY <1>2 DEF CFiel
<1>8. m.ok = TRUE /\ m.datos \in {srv} /\ m.q.op = "listar" => P1
  BY <1>4 DEF CCambios
<1>9. m.q.op # "listar" /\ P /\ m.ok # TRUE => P1
  BY <1>4
<1>10. /\ Vivas(p, <<>>)
       /\ \/ Hay(p, CCanal.pide)
          \/ m.ok = TRUE => m.q.op \notin CCambios
  <2>1. /\ Vivas(<<q>>, <<>>) /\ Hay(<<q>>, CCanal.pide)
        /\ Vivas(<<z>>, <<>>) /\ Hay(<<z>>, CCanal.pide)
        /\ Vivas(<<>>, <<>>)
    <3> HIDE DEF q, z
    <3> QED BY <1>6, CHabla, PideNada, PideUna
  <2> HIDE DEF q, z, r, m
  <2> QED BY <1>4, <2>1 DEF CCambios
<1>11. (Habla(m, CCanal) <=> m.q.op = "listar") /\ Dicho(m, CCanal.dato) = m.datos /\ CCanal.relee = CCambios
  BY CHabla
<1>12. m.q.op \in CCambios \cup {"listar"}
  BY <1>4
<1> HIDE DEF P, P1, p, r
<1>13. Fresca(ida \o p, Sin(vuelta, 1), CCanal, P1, {srv})
  BY <1>1, <1>3, <1>7, <1>8, <1>9, <1>10, <1>11, <1>12, FrescaRecibe
<1>14. Vivas(ida \o p, Sin(vuelta, 1))
  BY <1>1, <1>3, <1>10, VivasLlega
<1> QED BY <1>4, <1>5, <1>13, <1>14 DEF CFiel, P1, p

LEMMA CategoriasFielSigue == CategoriasInv /\ CategoriasFiel /\ Categorias!Next => CategoriasFiel'
<1> SUFFICES ASSUME CategoriasInv, CategoriasFiel, Categorias!Next, dudosa' # TRUE
             PROVE  CFiel(vista', srv', ida', vuelta')
  BY DEF CategoriasFiel, CFiel, Vivas, Sucesion, Fresca, Hay, Confirma, Dice, Ultima, Habla, Dicho, CCanal
<1> DEFINE Suya == /\ CFiel(vista, srv, ida, vuelta) /\ srv' = srv /\ vuelta' = vuelta
                   /\ "filas" \in DOMAIN vista' /\ vista'.filas = vista.filas
<1>1. dudosa # TRUE => CFiel(vista, srv, ida, vuelta) /\ "filas" \in DOMAIN vista
  BY DEF CategoriasFiel, CFiel
<1> USE DEF Categorias!Toque
<1>2. CASE \/ Categorias!AbrirAlta \/ Categorias!AbrirEdicion \/ Categorias!CerrarModal
           \/ Categorias!PedirBaja \/ Categorias!CancelarBaja \/ Categorias!Desplegar
  <2>1. Suya /\ ida' = ida \o <<>>
    BY <1>1, <1>2 DEF Categorias!AbrirAlta, Categorias!AbrirEdicion, Categorias!CerrarModal,
       Categorias!PedirBaja, Categorias!CancelarBaja, Categorias!Desplegar
  <2> DEFINE p == <<>>
  <2>2. ida' = ida \o p /\ Vivas(p, <<>>)
    BY <2>1, PideNada
  <2> HIDE DEF p
  <2> QED BY <2>1, <2>2, CFielToque
<1>3. CASE Categorias!Guardar \/ Categorias!ConfirmarBaja \/ Categorias!Reactivar
  <2>1. Suya /\ \E q : q.viva = TRUE /\ ida' = ida \o <<q>>
    BY <1>1, <1>3 DEF Categorias!Guardar, Categorias!ConfirmarBaja, Categorias!Reactivar, Categorias!Pedido
  <2>2. PICK q : q.viva = TRUE /\ ida' = ida \o <<q>>
    BY <2>1
  <2>3. Vivas(<<q>>, <<>>)
    BY <2>2, PideUna
  <2> QED BY <2>1, <2>2, <2>3, CFielToque
<1>4. CASE Categorias!Montar(Categorias!VistaInicial, Categorias!Listar)
  <2> DEFINE q == Pedido("listar", Nadie, Nada)
  <2>1. /\ ida' = Huerfanos(ida) \o <<q>> /\ vuelta' = HuerfanasDe(vuelta) /\ srv' = srv
        /\ ida = <<>> /\ vuelta = <<>> /\ "filas" \in DOMAIN vista'
    BY <1>4 DEF Categorias!Montar, Categorias!VistaInicial, Categorias!Listar, Categorias!Huerfanos, Huerfanos,
       Categorias!HuerfanasDe, HuerfanasDe, Categorias!Pedido, Pedido, Categorias!Nadie, Nadie,
       Categorias!EnReposo
  <2>2. q.viva = TRUE /\ q.op = "listar"
    BY DEF Pedido
  <2> HIDE DEF q
  <2>3. ida' = <<q>> /\ vuelta' = <<>>
    BY <2>1, NadieEnReposo
  <2> QED BY <2>1, <2>2, <2>3, CFielMonta
<1> QED BY <1>2, <1>3, <1>4, CFielResponde, CFielRecibe DEF Categorias!Next

LEMMA CategoriasFielEmpieza == Categorias!Init => CategoriasFiel
<1> DEFINE q == Pedido("listar", Nadie, Nada)
<1> SUFFICES ASSUME Categorias!Init PROVE CFiel(vista, srv, <<q>>, <<>>)
  BY DEF CategoriasFiel, Categorias!Init, Categorias!PeticionesInit, Categorias!Listar, Categorias!Pedido, Pedido,
         Categorias!Nadie, Nadie
<1>1. q.viva = TRUE /\ q.op = "listar" /\ "filas" \in DOMAIN vista
  BY DEF Categorias!Init, Categorias!PeticionesInit, Pedido, Categorias!VistaInicial
<1> HIDE DEF q
<1> QED BY <1>1, CFielMonta

LEMMA CategoriasFielDice == CategoriasFiel /\ EnReposo /\ dudosa # TRUE => Categorias!Mostrado
<1> SUFFICES ASSUME CFiel(vista, srv, <<>>, <<>>) PROVE vista.filas = srv
  BY DEF CategoriasFiel, EnReposo, Categorias!Mostrado
<1> DEFINE P == vista.filas = srv
<1>1. Fresca(<<>>, <<>>, CCanal, P, {srv})
  BY DEF CFiel
<1> HIDE DEF P
<1>2. P
  BY <1>1, FrescaEnReposo
<1> QED BY <1>2 DEF P

LEMMA CategoriasFielQuieta == CategoriasFiel /\ UNCHANGED vars => CategoriasFiel'
<1> SUFFICES ASSUME CategoriasFiel, UNCHANGED vars PROVE CategoriasFiel'
  OBVIOUS
<1>1. vista' = vista /\ srv' = srv /\ ida' = ida /\ vuelta' = vuelta /\ dudosa' = dudosa
  BY DEF vars
<1>2. dudosa # TRUE => CFiel(vista, srv, ida, vuelta)
  BY DEF CategoriasFiel
<1>3. dudosa' # TRUE => CFiel(vista', srv', ida', vuelta')
  BY <1>1, <1>2
<1> QED BY <1>3 DEF CategoriasFiel

-----------------------------------------------------------------------------
(* The promotions: the same as the categories.                             *)

PCambios == {"crear", "actualizar", "eliminar"}
PCanal == Canal({"cargar"}, PCambios, {"cargar"}, {}, <<"todo">>)
PFiel(v, s, a, b) == Vivas(a, b) /\ "filas" \in DOMAIN v /\ Fresca(a, b, PCanal, v.filas = s, {s})
PromocionesFiel == dudosa # TRUE => PFiel(vista, srv, ida, vuelta)

LEMMA PHabla ==
    ASSUME NEW m
    PROVE  /\ PCanal.pide = {"cargar"} /\ PCanal.relee = PCambios
           /\ Habla(m, PCanal) <=> m.q.op = "cargar"
           /\ Dicho(m, PCanal.dato) = m.datos
BY DEF PCanal, Canal, Habla, Dicho

LEMMA PFielToque ==
    ASSUME NEW v, NEW s, NEW a, NEW b, PFiel(v, s, a, b), NEW w, "filas" \in DOMAIN w, w.filas = v.filas,
           NEW p, Vivas(p, <<>>)
    PROVE  PFiel(w, s, a \o p, b)
<1> DEFINE P == v.filas = s
           P1 == w.filas = s
<1>1. /\ Vivas(a, b) /\ Sucesion(a) /\ Sucesion(p)
      /\ P => P1
      /\ Fresca(a, b, PCanal, P, {s})
  BY DEF PFiel, Vivas
<1> HIDE DEF P, P1
<1>2. Vivas(a \o p, b)
  BY <1>1, VivasPide
<1>3. Fresca(a \o p, b, PCanal, P1, {s})
  BY <1>1, FrescaPide
<1> QED BY <1>2, <1>3 DEF PFiel, P1

LEMMA PFielMonta ==
    ASSUME NEW v, NEW s, "filas" \in DOMAIN v, NEW q, q.viva = TRUE, q.op = "cargar"
    PROVE  PFiel(v, s, <<q>>, <<>>)
<1> DEFINE P == v.filas = s
<1>1. Vivas(<<q>>, <<>>)
  BY VivasUna
<1>2. Hay(<<q>>, PCanal.pide)
  BY SucesionUna, PHabla DEF Hay
<1> HIDE DEF P
<1>3. Fresca(<<q>>, <<>>, PCanal, P, {s})
  BY <1>2 DEF Fresca
<1> QED BY <1>1, <1>3 DEF PFiel, P

LEMMA PFielResponde ==
    ASSUME PromocionesInv, PromocionesFiel, NEW i, Promociones!Responde(i), dudosa' # TRUE
    PROVE  PFiel(vista', srv', ida', vuelta')
<1> DEFINE q == ida[1]
           r == Promociones!Servidor(srv, q)
           m == [q |-> q, ok |-> r.ok, datos |-> r.datos]
<1>1. /\ 1 \in DOMAIN ida /\ srv' = r.srv /\ ida' = Sin(ida, 1) /\ vista' = vista
      /\ vuelta' = Append(vuelta, m) /\ dudosa # TRUE
  BY DEF Promociones!Responde, Promociones!Atiende, Promociones!Sin, Sin
<1>2. PFiel(vista, srv, ida, vuelta)
  BY <1>1 DEF PromocionesFiel
<1>3. q.op \in PO
  BY <1>1 DEF PromocionesInv, Correo, SonPedidos, EsPedido
<1>4. \/ q.op = "cargar" /\ r.ok = TRUE /\ r.datos = srv /\ r.srv = srv
      \/ q.op \in PCambios /\ r.ok = TRUE
      \/ q.op \in PCambios /\ r.ok = FALSE /\ r.srv = srv
  BY <1>3 DEF Promociones!Servidor, Promociones!Acepta, Promociones!Rechaza, PO, PCambios
<1> DEFINE P == vista.filas = srv
           P1 == vista.filas = srv'
<1>5. r.srv = srv => (P => P1) /\ srv' = srv
  BY <1>1
<1>6. Sucesion(ida) /\ Sucesion(vuelta) /\ Vivas(ida, vuelta) /\ Fresca(ida, vuelta, PCanal, P, {srv})
      /\ "filas" \in DOMAIN vista
  BY <1>2 DEF PFiel, Vivas
<1>7. m.q = q /\ m.ok = r.ok /\ m.datos = r.datos
  OBVIOUS
<1> HIDE DEF P, P1
<1>8. Vivas(ida', vuelta')
  BY <1>1, <1>6, VivasToma
<1>9. Habla(m, PCanal) <=> q.op = "cargar"
  BY <1>7, PHabla
<1>10. Dicho(m, PCanal.dato) = r.datos
  BY <1>7, PHabla
<1>11. \/ r.ok = TRUE /\ Habla(m, PCanal) /\ Dicho(m, PCanal.dato) \in {srv'}
       \/ r.ok = TRUE /\ ida[1].op \in PCanal.relee
       \/ /\ ida[1].op \notin PCanal.pide /\ ~Habla(m, PCanal)
          /\ (P => P1) /\ {srv} \subseteq {srv'}
  BY <1>1, <1>4, <1>5, <1>9, <1>10, PHabla DEF PCambios
<1>12. m = [q |-> ida[1], ok |-> r.ok, datos |-> r.datos]
  OBVIOUS
<1> DEFINE ok == r.ok
           d == r.datos
           Y == {srv}
           Y1 == {srv'}
<1>14. \/ ok = TRUE /\ Habla(m, PCanal) /\ Dicho(m, PCanal.dato) \in Y1
       \/ ok = TRUE /\ ida[1].op \in PCanal.relee
       \/ /\ ida[1].op \notin PCanal.pide /\ ~Habla(m, PCanal) /\ Fresca(ida, vuelta, PCanal, P, Y)
          /\ (P => P1) /\ Y \subseteq Y1
  BY <1>6, <1>11
<1> HIDE DEF m, r, q, ok, d, Y, Y1
<1>15. m = [q |-> ida[1], ok |-> ok, datos |-> d]
  BY <1>12 DEF ok, d
<1>13. Fresca(Sin(ida, 1), Append(vuelta, m), PCanal, P1, Y1)
    <2>1. CASE ok = TRUE /\ Habla(m, PCanal) /\ Dicho(m, PCanal.dato) \in Y1
    BY <1>1, <1>6, <1>15, <2>1, TomaDice
  <2>2. CASE ok = TRUE /\ ida[1].op \in PCanal.relee
    BY <1>1, <1>6, <1>15, <2>2, TomaCambia
  <2>3. CASE /\ ida[1].op \notin PCanal.pide /\ ~Habla(m, PCanal) /\ Fresca(ida, vuelta, PCanal, P, Y)
             /\ (P => P1) /\ Y \subseteq Y1
    BY <1>1, <1>6, <1>15, <2>3, TomaSigue
  <2> QED BY <1>14, <2>1, <2>2, <2>3
<1> QED BY <1>1, <1>6, <1>8, <1>13 DEF PFiel, P1, Y1

LEMMA PFielRecibe ==
    ASSUME PromocionesInv, PromocionesFiel, NEW i, Promociones!Recibe(i), dudosa' # TRUE
    PROVE  PFiel(vista', srv', ida', vuelta')
<1> DEFINE m == vuelta[1]
           r == Promociones!Recibir(m)
           q == Tras(Pedido("cargar", Nadie, Nada), "guardar")
           z == Tras(Pedido("cargar", Nadie, Nada), "eliminar")
<1>1. i = 1 /\ dudosa # TRUE /\ 1 \in DOMAIN vuelta /\ m.q.op \in PO
  <2>1. i \in DOMAIN vuelta /\ vuelta[i].q.op \in PO
    BY DEF Promociones!Recibe, Promociones!Llega, PromocionesInv, Correo, SonRespuestas, EsRespuesta, EsPedido
  <2>2. Promociones!Recibir(vuelta[i]).va = FALSE
    BY <2>1 DEF PO, Promociones!Recibir, Promociones!Queda, Promociones!Pide, Promociones!Releer
  <2>3. i = 1 /\ dudosa # TRUE
    BY <2>2 DEF Promociones!Recibe, Promociones!Llega
  <2> QED BY <2>1, <2>3
<1>2. PFiel(vista, srv, ida, vuelta)
  BY <1>1 DEF PromocionesFiel
<1>3. Vivas(ida, vuelta) /\ "filas" \in DOMAIN vista /\ m.q.viva = TRUE
  BY <1>1, <1>2 DEF PFiel, Vivas
<1>4. /\ r.va = FALSE
      /\ "filas" \in DOMAIN r.vista
      /\ \/ m.q.op = "cargar" /\ r.pide = <<>> /\ (m.ok = TRUE => r.vista.filas = m.datos)
         \/ m.q.op \in PCambios /\ m.ok = TRUE /\ r.pide \in {<<q>>, <<z>>}
         \/ m.q.op \in PCambios /\ m.ok # TRUE /\ r.pide = <<>> /\ r.vista.filas = vista.filas
  BY <1>1, <1>3 DEF PO, PCambios, Promociones!Recibir, Promociones!Queda, Promociones!Pide, Promociones!Releer,
     Promociones!Tras, Tras, Promociones!Pedido, Pedido, Promociones!Nadie, Nadie
<1>5. /\ vista' = r.vista /\ srv' = srv
      /\ ida' = ida \o r.pide /\ vuelta' = Sin(vuelta, 1)
  BY <1>1, <1>3, <1>4 DEF Promociones!Recibe, Promociones!Llega, Promociones!Sin, Sin
<1>6. q.op = "cargar" /\ q.viva = TRUE /\ z.op = "cargar" /\ z.viva = TRUE
  BY DEF Tras, Pedido
<1> DEFINE P == vista.filas = srv
           P1 == r.vista.filas = srv
           p == r.pide
<1>7. Fresca(ida, vuelta, PCanal, P, {srv})
  BY <1>2 DEF PFiel
<1>8. m.ok = TRUE /\ m.datos \in {srv} /\ m.q.op = "cargar" => P1
  BY <1>4 DEF PCambios
<1>9. m.q.op # "cargar" /\ P /\ m.ok # TRUE => P1
  BY <1>4
<1>10. /\ Vivas(p, <<>>)
       /\ \/ Hay(p, PCanal.pide)
          \/ m.ok = TRUE => m.q.op \notin PCambios
  <2>1. /\ Vivas(<<q>>, <<>>) /\ Hay(<<q>>, PCanal.pide)
        /\ Vivas(<<z>>, <<>>) /\ Hay(<<z>>, PCanal.pide)
        /\ Vivas(<<>>, <<>>)
    <3> HIDE DEF q, z
    <3> QED BY <1>6, PHabla, PideNada, PideUna
  <2> HIDE DEF q, z, r, m
  <2> QED BY <1>4, <2>1 DEF PCambios
<1>11. (Habla(m, PCanal) <=> m.q.op = "cargar") /\ Dicho(m, PCanal.dato) = m.datos /\ PCanal.relee = PCambios
  BY PHabla
<1>12. m.q.op \in PCambios \cup {"cargar"}
  BY <1>4
<1> HIDE DEF P, P1, p, r
<1>13. Fresca(ida \o p, Sin(vuelta, 1), PCanal, P1, {srv})
  BY <1>1, <1>3, <1>7, <1>8, <1>9, <1>10, <1>11, <1>12, FrescaRecibe
<1>14. Vivas(ida \o p, Sin(vuelta, 1))
  BY <1>1, <1>3, <1>10, VivasLlega
<1> QED BY <1>4, <1>5, <1>13, <1>14 DEF PFiel, P1, p

LEMMA PromocionesFielSigue == PromocionesInv /\ PromocionesFiel /\ Promociones!Next => PromocionesFiel'
<1> SUFFICES ASSUME PromocionesInv, PromocionesFiel, Promociones!Next, dudosa' # TRUE
             PROVE  PFiel(vista', srv', ida', vuelta')
  BY DEF PromocionesFiel, PFiel, Vivas, Sucesion, Fresca, Hay, Confirma, Dice, Ultima, Habla, Dicho, PCanal
<1> DEFINE Suya == /\ PFiel(vista, srv, ida, vuelta) /\ srv' = srv /\ vuelta' = vuelta
                   /\ "filas" \in DOMAIN vista' /\ vista'.filas = vista.filas
<1>1. dudosa # TRUE => PFiel(vista, srv, ida, vuelta) /\ "filas" \in DOMAIN vista
  BY DEF PromocionesFiel, PFiel
<1> USE DEF Promociones!Toque
<1>2. CASE \/ Promociones!AbrirAlta \/ Promociones!AbrirEdicion \/ Promociones!CerrarModal
           \/ Promociones!PedirBaja \/ Promociones!CancelarBaja
  <2>1. Suya /\ ida' = ida \o <<>>
    BY <1>1, <1>2 DEF Promociones!AbrirAlta, Promociones!AbrirEdicion, Promociones!CerrarModal,
       Promociones!PedirBaja, Promociones!CancelarBaja
  <2> DEFINE p == <<>>
  <2>2. ida' = ida \o p /\ Vivas(p, <<>>)
    BY <2>1, PideNada
  <2> HIDE DEF p
  <2> QED BY <2>1, <2>2, PFielToque
<1>3. CASE Promociones!Guardar \/ Promociones!ConfirmarBaja
  <2>1. Suya /\ \E q : q.viva = TRUE /\ ida' = ida \o <<q>>
    BY <1>1, <1>3 DEF Promociones!Guardar, Promociones!ConfirmarBaja, Promociones!Pedido
  <2>2. PICK q : q.viva = TRUE /\ ida' = ida \o <<q>>
    BY <2>1
  <2>3. Vivas(<<q>>, <<>>)
    BY <2>2, PideUna
  <2> QED BY <2>1, <2>2, <2>3, PFielToque
<1>4. CASE Promociones!Montar(Promociones!VistaInicial, Promociones!Cargar)
  <2> DEFINE q == Pedido("cargar", Nadie, Nada)
  <2>1. /\ ida' = Huerfanos(ida) \o <<q>> /\ vuelta' = HuerfanasDe(vuelta) /\ srv' = srv
        /\ ida = <<>> /\ vuelta = <<>> /\ "filas" \in DOMAIN vista'
    BY <1>4 DEF Promociones!Montar, Promociones!VistaInicial, Promociones!Cargar, Promociones!Huerfanos, Huerfanos,
       Promociones!HuerfanasDe, HuerfanasDe, Promociones!Pedido, Pedido, Promociones!Nadie, Nadie,
       Promociones!EnReposo
  <2>2. q.viva = TRUE /\ q.op = "cargar"
    BY DEF Pedido
  <2> HIDE DEF q
  <2>3. ida' = <<q>> /\ vuelta' = <<>>
    BY <2>1, NadieEnReposo
  <2> QED BY <2>1, <2>2, <2>3, PFielMonta
<1> QED BY <1>2, <1>3, <1>4, PFielResponde, PFielRecibe DEF Promociones!Next

LEMMA PromocionesFielEmpieza == Promociones!Init => PromocionesFiel
<1> DEFINE q == Pedido("cargar", Nadie, Nada)
<1> SUFFICES ASSUME Promociones!Init PROVE PFiel(vista, srv, <<q>>, <<>>)
  BY DEF PromocionesFiel, Promociones!Init, Promociones!PeticionesInit, Promociones!Cargar, Promociones!Pedido, Pedido,
         Promociones!Nadie, Nadie
<1>1. q.viva = TRUE /\ q.op = "cargar" /\ "filas" \in DOMAIN vista
  BY DEF Promociones!Init, Promociones!PeticionesInit, Pedido, Promociones!VistaInicial
<1> HIDE DEF q
<1> QED BY <1>1, PFielMonta

LEMMA PromocionesFielDice == PromocionesFiel /\ EnReposo /\ dudosa # TRUE => Promociones!Mostrado
<1> SUFFICES ASSUME PFiel(vista, srv, <<>>, <<>>) PROVE vista.filas = srv
  BY DEF PromocionesFiel, EnReposo, Promociones!Mostrado
<1> DEFINE P == vista.filas = srv
<1>1. Fresca(<<>>, <<>>, PCanal, P, {srv})
  BY DEF PFiel
<1> HIDE DEF P
<1>2. P
  BY <1>1, FrescaEnReposo
<1> QED BY <1>2 DEF P

LEMMA PromocionesFielQuieta == PromocionesFiel /\ UNCHANGED vars => PromocionesFiel'
<1> SUFFICES ASSUME PromocionesFiel, UNCHANGED vars PROVE PromocionesFiel'
  OBVIOUS
<1>1. vista' = vista /\ srv' = srv /\ ida' = ida /\ vuelta' = vuelta /\ dudosa' = dudosa
  BY DEF vars
<1>2. dudosa # TRUE => PFiel(vista, srv, ida, vuelta)
  BY DEF PromocionesFiel
<1>3. dudosa' # TRUE => PFiel(vista', srv', ida', vuelta')
  BY <1>1, <1>2
<1> QED BY <1>3 DEF PromocionesFiel

-----------------------------------------------------------------------------
(* The suppliers: their table, and the file whose rows are shown before    *)
(* they are imported.                                                      *)

VCambios == {"crear", "actualizar"}
VCanal == Canal({"listar"}, VCambios, {"listar"}, {}, <<"todo">>)
VTabla(v, s, a, b) ==
    /\ Vivas(a, b) /\ {"filas", "archivo", "preview"} \subseteq DOMAIN v /\ "filas" \in DOMAIN s
    /\ Fresca(a, b, VCanal, v.filas = s.filas, {s.filas})
\* The files being read are the one that is chosen.
VArchivo(v, a, b) ==
    v.archivo # Nada =>
        /\ v.preview \in {v.archivo, Nada}
        /\ \A k \in DOMAIN a : a[k].op = "leer" => a[k].datos = v.archivo
        /\ \A k \in DOMAIN b : b[k].q.op = "leer" /\ b[k].ok = TRUE => b[k].datos = v.archivo
VFiel(v, s, a, b) == VTabla(v, s, a, b) /\ VArchivo(v, a, b)
ProveedoresFiel == "filas" \in DOMAIN srv /\ (dudosa # TRUE => VFiel(vista, srv, ida, vuelta))

LEMMA VCuenta == \A K : Proveedores!EnVuelo(K) = EnVuelo(K)
BY DEF Proveedores!EnVuelo, EnVuelo, Proveedores!Cardinality, Cardinality

LEMMA VBackend == ProveedoresInv /\ ProveedoresFiel /\ Proveedores!Next => ("filas" \in DOMAIN srv)'
<1> SUFFICES ASSUME ProveedoresInv, "filas" \in DOMAIN srv, Proveedores!Next PROVE ("filas" \in DOMAIN srv)'
  BY DEF ProveedoresFiel
<1>1. ASSUME NEW i, Proveedores!Responde(i) PROVE ("filas" \in DOMAIN srv)'
  <2>1. /\ i \in DOMAIN ida
        /\ srv' = srv \/ srv' = Proveedores!Servidor(srv, ida[i]).srv
    BY <1>1 DEF Proveedores!Responde, Proveedores!Atiende
  <2>2. ida[i].op \in VO
    BY <2>1 DEF ProveedoresInv, Correo, SonPedidos, EsPedido
  <2>3. "filas" \in DOMAIN Proveedores!Servidor(srv, ida[i]).srv
    BY <2>2 DEF VO, Proveedores!Servidor, Proveedores!Acepta, Proveedores!Rechaza
  <2> QED BY <2>1, <2>3
<1>2. CASE ~\E i : Proveedores!Responde(i)
  BY <1>2 DEF Proveedores!Next, Proveedores!Toque, Proveedores!Tropiezo, Proveedores!Montar, Proveedores!Llega,
     Proveedores!AbrirAlta, Proveedores!AbrirEdicion, Proveedores!Expandir, Proveedores!Guardar,
     Proveedores!CerrarModal, Proveedores!CambiarPestana, Proveedores!ElegirProveedor, Proveedores!SoltarArchivo,
     Proveedores!QuitarArchivo, Proveedores!AplicarCSV, Proveedores!ImportarOtro, Proveedores!Recibe
<1> QED BY <1>1, <1>2

LEMMA VHabla ==
    ASSUME NEW m
    PROVE  /\ VCanal.pide = {"listar"} /\ VCanal.relee = VCambios
           /\ Habla(m, VCanal) <=> m.q.op = "listar"
           /\ Dicho(m, VCanal.dato) = m.datos
BY DEF VCanal, Canal, Habla, Dicho

LEMMA VTablaToque ==
    ASSUME NEW v, NEW s, NEW a, NEW b, VTabla(v, s, a, b), NEW w,
           {"filas", "archivo", "preview"} \subseteq DOMAIN w, w.filas = v.filas,
           NEW p, Vivas(p, <<>>)
    PROVE  VTabla(w, s, a \o p, b)
<1> DEFINE P == v.filas = s.filas
           P1 == w.filas = s.filas
           Y == {s.filas}
<1>1. /\ Vivas(a, b) /\ Sucesion(a) /\ Sucesion(p) /\ "filas" \in DOMAIN s
      /\ P => P1
      /\ Fresca(a, b, VCanal, P, Y)
  BY DEF VTabla, Vivas
<1> HIDE DEF P, P1, Y
<1>2. Vivas(a \o p, b)
  BY <1>1, VivasPide
<1>3. Fresca(a \o p, b, VCanal, P1, Y)
  BY <1>1, FrescaPide
<1> QED BY <1>1, <1>2, <1>3 DEF VTabla, P1, Y

LEMMA VMonta ==
    ASSUME NEW v, NEW s, {"filas", "archivo", "preview"} \subseteq DOMAIN v, "filas" \in DOMAIN s,
           v.archivo = Nada, NEW q, q.viva = TRUE, q.op = "listar"
    PROVE  VFiel(v, s, <<q>>, <<>>)
<1> DEFINE P == v.filas = s.filas
           Y == {s.filas}
<1>1. Vivas(<<q>>, <<>>)
  BY VivasUna
<1>2. Hay(<<q>>, VCanal.pide)
  BY SucesionUna, VHabla DEF Hay
<1> HIDE DEF P, Y
<1>3. Fresca(<<q>>, <<>>, VCanal, P, Y)
  BY <1>2 DEF Fresca
<1> QED BY <1>1, <1>3 DEF VFiel, VTabla, VArchivo, P, Y

LEMMA VResponde ==
    ASSUME ProveedoresInv, ProveedoresFiel, NEW i, Proveedores!Responde(i), dudosa' # TRUE
    PROVE  VFiel(vista', srv', ida', vuelta')
<1> DEFINE q == ida[1]
           r == Proveedores!Servidor(srv, q)
           ok == r.ok
           d == r.datos
           m == [q |-> q, ok |-> ok, datos |-> d]
<1>1. /\ 1 \in DOMAIN ida /\ srv' = r.srv /\ ida' = Sin(ida, 1) /\ vista' = vista
      /\ vuelta' = Append(vuelta, m) /\ dudosa # TRUE
  BY DEF Proveedores!Responde, Proveedores!Atiende, Proveedores!Sin, Sin
<1>2. VTabla(vista, srv, ida, vuelta) /\ VArchivo(vista, ida, vuelta)
  BY <1>1 DEF ProveedoresFiel, VFiel
<1>3. q.op \in VO
  BY <1>1 DEF ProveedoresInv, Correo, SonPedidos, EsPedido
<1> DEFINE P == vista.filas = srv.filas
           P1 == vista.filas = srv'.filas
           Y == {srv.filas}
           Y1 == {srv'.filas}
<1>4. Sucesion(ida) /\ Sucesion(vuelta) /\ Vivas(ida, vuelta) /\ Fresca(ida, vuelta, VCanal, P, Y)
      /\ {"filas", "archivo", "preview"} \subseteq DOMAIN vista /\ "filas" \in DOMAIN srv
  BY <1>2 DEF VTabla, Vivas
<1>5. /\ "filas" \in DOMAIN r.srv
      /\ \/ q.op = "listar" /\ ok = TRUE /\ d = srv.filas /\ r.srv.filas = srv.filas
         \/ q.op \in VCambios /\ ok = TRUE
         \/ q.op \notin VCambios \cup {"listar"} /\ r.srv.filas = srv.filas
         \/ q.op \in VCambios /\ r.srv.filas = srv.filas
      /\ q.op = "leer" => d = q.datos
  BY <1>3, <1>4 DEF Proveedores!Servidor, Proveedores!Acepta, Proveedores!Rechaza, VO, VCambios
<1>6. r.srv.filas = srv.filas => (P => P1) /\ Y \subseteq Y1
  BY <1>1
<1>7. m.q = q /\ m.ok = ok /\ m.datos = d
  OBVIOUS
<1>8. m = [q |-> ida[1], ok |-> ok, datos |-> d]
  OBVIOUS
<1>9. srv'.filas \in Y1 /\ q.op = ida[1].op /\ (r.srv.filas = srv.filas => srv.filas \in Y1)
  BY <1>1
<1> HIDE DEF P, P1, Y, Y1, m, r, ok, d
<1>10. (Habla(m, VCanal) <=> q.op = "listar") /\ Dicho(m, VCanal.dato) = d
  BY <1>7, VHabla
<1>11. Vivas(ida', vuelta')
  BY <1>1, <1>4, <1>8, VivasToma
<1>12. Fresca(Sin(ida, 1), Append(vuelta, m), VCanal, P1, Y1)
  <2>1. CASE q.op = "listar"
    <3>1. ok = TRUE /\ Habla(m, VCanal) /\ Dicho(m, VCanal.dato) \in Y1
      BY <1>5, <1>9, <1>10, <2>1 DEF VCambios
    <3> QED BY <1>1, <1>4, <1>8, <3>1, TomaDice
  <2>2. CASE q.op \in VCambios /\ ok = TRUE
    <3>1. ida[1].op \in VCanal.relee
      BY <2>2, VHabla
    <3> QED BY <1>1, <1>4, <1>8, <2>2, <3>1, TomaCambia
  <2>3. CASE q.op # "listar" /\ r.srv.filas = srv.filas
    <3>1. ida[1].op \notin VCanal.pide /\ ~Habla(m, VCanal) /\ (P => P1) /\ Y \subseteq Y1
      BY <1>6, <1>10, <2>3, VHabla
    <3> QED BY <1>1, <1>4, <1>8, <3>1, TomaSigue
  <2> QED BY <1>5, <2>1, <2>2, <2>3
<1>13. VArchivo(vista, ida', vuelta')
  <2>1. Salen(Sin(ida, 1), ida, {}) /\ Salen(Append(vuelta, m), vuelta, {m})
    BY <1>1, <1>4, SalenDe
  <2> QED BY <1>1, <1>2, <1>5, <1>7, <2>1 DEF VArchivo, Salen
<1> QED BY <1>1, <1>4, <1>5, <1>11, <1>12, <1>13 DEF VFiel, VTabla, P1, Y1

LEMMA VRecibe ==
    ASSUME ProveedoresInv, ProveedoresFiel, NEW i, Proveedores!Recibe(i), dudosa' # TRUE
    PROVE  VFiel(vista', srv', ida', vuelta')
<1> DEFINE m == vuelta[1]
           r == Proveedores!Recibir(m)
           q == Pedido("listar", Nadie, Nada)
<1>1. i = 1 /\ dudosa # TRUE /\ 1 \in DOMAIN vuelta /\ m.q.op \in VO
  <2>1. i \in DOMAIN vuelta /\ vuelta[i].q.op \in VO
    BY DEF Proveedores!Recibe, Proveedores!Llega, ProveedoresInv, Correo, SonRespuestas, EsRespuesta, EsPedido
  <2>2. Proveedores!Recibir(vuelta[i]).va = FALSE
    BY <2>1 DEF VO, Proveedores!Recibir, Proveedores!Queda, Proveedores!Pide
  <2>3. i = 1 /\ dudosa # TRUE
    BY <2>2 DEF Proveedores!Recibe, Proveedores!Llega
  <2> QED BY <2>1, <2>3
<1>2. VTabla(vista, srv, ida, vuelta) /\ VArchivo(vista, ida, vuelta)
  BY <1>1 DEF ProveedoresFiel, VFiel
<1>3. /\ Sucesion(ida) /\ Sucesion(vuelta) /\ Vivas(ida, vuelta) /\ m.q.viva = TRUE
      /\ {"filas", "archivo", "preview"} \subseteq DOMAIN vista /\ "filas" \in DOMAIN srv
  BY <1>1, <1>2 DEF VTabla, Vivas
<1>4. /\ r.va = FALSE
      /\ {"filas", "archivo", "preview"} \subseteq DOMAIN r.vista
      /\ \/ m.q.op = "listar" /\ r.pide = <<>> /\ (m.ok = TRUE => r.vista.filas = m.datos)
         \/ m.q.op \in VCambios /\ m.ok = TRUE /\ r.pide = <<q>>
         \/ m.q.op \in VCambios /\ m.ok # TRUE /\ r.pide = <<>> /\ r.vista.filas = vista.filas
         \/ m.q.op \in {"leer", "importar"} /\ r.pide = <<>> /\ r.vista.filas = vista.filas
      /\ \/ r.vista.archivo = Nada
         \/ r.vista.archivo = vista.archivo /\ r.vista.preview = vista.preview
         \/ /\ m.q.op = "leer" /\ m.ok = TRUE
            /\ r.vista.archivo = vista.archivo /\ r.vista.preview = m.datos
  BY <1>1, <1>3 DEF VO, VCambios, Proveedores!Recibir, Proveedores!Queda, Proveedores!Pide, Proveedores!Listar,
     Proveedores!Pedido, Pedido, Proveedores!Nadie, Nadie
<1>5. /\ vista' = r.vista /\ srv' = srv
      /\ ida' = ida \o r.pide /\ vuelta' = Sin(vuelta, 1)
  BY <1>1, <1>3, <1>4 DEF Proveedores!Recibe, Proveedores!Llega, Proveedores!Sin, Sin
<1>6. q.op = "listar" /\ q.viva = TRUE
  BY DEF Pedido
<1> DEFINE P == vista.filas = srv.filas
           P1 == r.vista.filas = srv.filas
           Y == {srv.filas}
           p == r.pide
<1>7. Fresca(ida, vuelta, VCanal, P, Y)
  BY <1>2 DEF VTabla
<1>8. m.ok = TRUE /\ m.datos \in Y /\ m.q.op = "listar" => P1
  BY <1>4 DEF VCambios
<1>9. m.q.op # "listar" /\ P /\ ~(m.q.op \in VCambios /\ m.ok = TRUE) => P1
  BY <1>4
<1>10. /\ Vivas(p, <<>>) /\ Salen(ida \o p, ida, {q})
       /\ \/ Hay(p, VCanal.pide)
          \/ m.ok = TRUE => m.q.op \notin VCambios
  <2>1. /\ Vivas(<<q>>, <<>>) /\ Hay(<<q>>, VCanal.pide) /\ Vivas(<<>>, <<>>)
        /\ Salen(ida \o <<>>, ida, {}) /\ Salen(ida \o <<q>>, ida, {q})
    <3> HIDE DEF q
    <3> QED BY <1>3, <1>6, VHabla, PideNada, PideUna, SalenDe
  <2> HIDE DEF q, r, m
  <2> QED BY <1>4, <2>1 DEF VCambios, Salen
<1>11. (Habla(m, VCanal) <=> m.q.op = "listar") /\ Dicho(m, VCanal.dato) = m.datos /\ VCanal.relee = VCambios
  BY VHabla
<1> HIDE DEF P, P1, Y, p, r, q
<1>12. Fresca(ida \o p, Sin(vuelta, 1), VCanal, P1, Y)
  BY <1>1, <1>3, <1>7, <1>8, <1>9, <1>10, <1>11, FrescaRecibe
<1>13. Vivas(ida \o p, Sin(vuelta, 1))
  BY <1>1, <1>3, <1>10, VivasLlega
<1>14. VArchivo(r.vista, ida \o p, Sin(vuelta, 1))
  <2>1. Salen(Sin(vuelta, 1), vuelta, {})
    BY <1>1, <1>3, SalenDe
  <2> QED BY <1>1, <1>2, <1>4, <1>6, <1>10, <2>1 DEF VArchivo, Salen
<1> QED BY <1>3, <1>4, <1>5, <1>12, <1>13, <1>14 DEF VFiel, VTabla, P1, Y, p

LEMMA ProveedoresFielSigue == ProveedoresInv /\ ProveedoresFiel /\ Proveedores!Next => ProveedoresFiel'
<1> SUFFICES ASSUME ProveedoresInv, ProveedoresFiel, Proveedores!Next, dudosa' # TRUE
             PROVE  VFiel(vista', srv', ida', vuelta')
  BY VBackend DEF ProveedoresFiel, VFiel, VTabla, VArchivo, Vivas, Sucesion, Fresca, Hay, Confirma, Dice, Ultima,
         Habla, Dicho, VCanal
<1> DEFINE Suya == /\ srv' = srv /\ vuelta' = vuelta
                   /\ {"filas", "archivo", "preview"} \subseteq DOMAIN vista' /\ vista'.filas = vista.filas
           C == {"filas", "archivo", "preview"}
           Misma == vista'.archivo = vista.archivo /\ vista'.preview = vista.preview
<1>1. dudosa # TRUE => /\ VTabla(vista, srv, ida, vuelta) /\ VArchivo(vista, ida, vuelta)
                       /\ C \subseteq DOMAIN vista /\ Vivas(ida, vuelta) /\ Sucesion(ida)
  BY DEF ProveedoresFiel, VFiel, VTabla, Vivas
<1> USE DEF Proveedores!Toque, Proveedores!Tropiezo
<1>2. CASE \/ Proveedores!AbrirAlta \/ Proveedores!AbrirEdicion \/ Proveedores!Expandir
           \/ Proveedores!CerrarModal \/ Proveedores!CambiarPestana \/ Proveedores!ElegirProveedor
           \/ Proveedores!QuitarArchivo \/ Proveedores!ImportarOtro
  <2>1. Suya /\ dudosa # TRUE /\ ida' = ida \o <<>> /\ (Misma \/ vista'.archivo = Nada)
    BY <1>1, <1>2 DEF Proveedores!AbrirAlta, Proveedores!AbrirEdicion, Proveedores!Expandir,
       Proveedores!CerrarModal, Proveedores!CambiarPestana, Proveedores!ElegirProveedor,
       Proveedores!QuitarArchivo, Proveedores!ImportarOtro
  <2> DEFINE p == <<>>
  <2>2. ida' = ida \o p /\ Vivas(p, <<>>) /\ Salen(ida \o <<>>, ida, {})
    BY <1>1, <2>1, PideNada, SalenDe
  <2>3. VArchivo(vista', ida', vuelta')
    BY <1>1, <2>1, <2>2 DEF VArchivo, Salen
  <2> HIDE DEF p
  <2>4. VTabla(vista', srv', ida', vuelta')
    BY <1>1, <2>1, <2>2, VTablaToque
  <2> QED BY <2>3, <2>4 DEF VFiel
<1>3. CASE Proveedores!Guardar \/ Proveedores!AplicarCSV
  <2>1. Suya /\ dudosa # TRUE /\ Misma /\ \E q : q.viva = TRUE /\ q.op # "leer" /\ ida' = ida \o <<q>>
    BY <1>1, <1>3 DEF Proveedores!Guardar, Proveedores!AplicarCSV, Proveedores!Pedido
  <2>2. PICK q : q.viva = TRUE /\ q.op # "leer" /\ ida' = ida \o <<q>>
    BY <2>1
  <2>3. Vivas(<<q>>, <<>>) /\ Salen(ida \o <<q>>, ida, {q})
    BY <1>1, <2>1, <2>2, PideUna, SalenDe
  <2>4. VArchivo(vista', ida', vuelta')
    BY <1>1, <2>1, <2>2, <2>3 DEF VArchivo, Salen
  <2>5. VTabla(vista', srv', ida', vuelta')
    BY <1>1, <2>1, <2>2, <2>3, VTablaToque
  <2> QED BY <2>4, <2>5 DEF VFiel
<1>4. CASE Proveedores!SoltarArchivo
  <2>1. PICK x \in Archivos :
             /\ vista' = [vista EXCEPT !.archivo = x, !.resultado = FALSE, !.preview = Nada]
             /\ ida' = ida \o <<Pedido("leer", Nadie, x)>>
             /\ Proveedores!EnVuelo({"leer"}) = 0 \/ Proveedores!EnVuelo({"leer"}) > 0
             /\ (Proveedores!EnVuelo({"leer"}) = 0 /\ dudosa # TRUE) \/ dudosa' = TRUE
             /\ srv' = srv /\ vuelta' = vuelta
    BY <1>4 DEF Proveedores!SoltarArchivo, Proveedores!Pedido, Pedido, Proveedores!Nadie, Nadie
  <2> DEFINE q == Pedido("leer", Nadie, x)
  <2>2. q.op = "leer" /\ q.datos = x /\ q.viva = TRUE
    BY DEF Pedido
  <2>3. EnVuelo({"leer"}) = 0 /\ dudosa # TRUE
    BY <2>1, VCuenta
  <2>4. Suya /\ vista'.archivo = x /\ vista'.preview = Nada /\ ida' = ida \o <<q>>
    BY <1>1, <2>1, <2>3
  <2> HIDE DEF q
  <2>5. Vivas(<<q>>, <<>>) /\ Salen(ida \o <<q>>, ida, {q})
    BY <1>1, <2>2, <2>3, PideUna, SalenDe
  <2>6. /\ \A k \in DOMAIN ida : ida[k].op \notin {"leer"}
        /\ \A k \in DOMAIN vuelta : vuelta[k].q.op \notin {"leer"}
    BY <1>1, <2>3, NadieVuela
  <2>7. VArchivo(vista', ida', vuelta')
    BY <2>2, <2>4, <2>5, <2>6 DEF VArchivo, Salen
  <2>8. VTabla(vista', srv', ida', vuelta')
    BY <1>1, <2>3, <2>4, <2>5, VTablaToque
  <2> QED BY <2>7, <2>8 DEF VFiel
<1>5. CASE Proveedores!Montar(Proveedores!VistaInicial, Proveedores!Listar)
  <2> DEFINE q == Pedido("listar", Nadie, Nada)
  <2>1. /\ ida' = Huerfanos(ida) \o <<q>> /\ vuelta' = HuerfanasDe(vuelta) /\ srv' = srv
        /\ ida = <<>> /\ vuelta = <<>> /\ C \subseteq DOMAIN vista' /\ vista'.archivo = Nada
    BY <1>5 DEF Proveedores!Montar, Proveedores!VistaInicial, Proveedores!Listar, Proveedores!Huerfanos, Huerfanos,
       Proveedores!HuerfanasDe, HuerfanasDe, Proveedores!Pedido, Pedido, Proveedores!Nadie, Nadie,
       Proveedores!EnReposo
  <2>2. q.viva = TRUE /\ q.op = "listar"
    BY DEF Pedido
  <2> HIDE DEF q
  <2>3. ida' = <<q>> /\ vuelta' = <<>>
    BY <2>1, NadieEnReposo
  <2>4. "filas" \in DOMAIN srv
    BY DEF ProveedoresFiel
  <2> QED BY <2>1, <2>2, <2>3, <2>4, VMonta
<1> QED BY <1>2, <1>3, <1>4, <1>5, VResponde, VRecibe DEF Proveedores!Next

LEMMA ProveedoresFielEmpieza == Proveedores!Init => ProveedoresFiel
<1> DEFINE q == Pedido("listar", Nadie, Nada)
<1> SUFFICES ASSUME Proveedores!Init PROVE "filas" \in DOMAIN srv /\ VFiel(vista, srv, <<q>>, <<>>)
  BY DEF ProveedoresFiel, Proveedores!Init, Proveedores!PeticionesInit, Proveedores!Listar, Proveedores!Pedido, Pedido,
         Proveedores!Nadie, Nadie
<1>1. /\ q.viva = TRUE /\ q.op = "listar" /\ {"filas", "archivo", "preview"} \subseteq DOMAIN vista
      /\ "filas" \in DOMAIN srv /\ vista.archivo = Nada
  BY DEF Proveedores!Init, Proveedores!PeticionesInit, Pedido, Proveedores!VistaInicial
<1> HIDE DEF q
<1> QED BY <1>1, VMonta

LEMMA ProveedoresFielDice == ProveedoresFiel /\ EnReposo /\ dudosa # TRUE => Proveedores!Mostrado
<1> SUFFICES ASSUME VTabla(vista, srv, <<>>, <<>>), VArchivo(vista, <<>>, <<>>)
             PROVE  /\ vista.filas = srv.filas
                    /\ vista.archivo # Nada => vista.preview \in {vista.archivo, Nada}
  BY DEF ProveedoresFiel, VFiel, EnReposo, Proveedores!Mostrado
<1> DEFINE P == vista.filas = srv.filas
           Y == {srv.filas}
<1>1. Fresca(<<>>, <<>>, VCanal, P, Y)
  BY DEF VTabla
<1> HIDE DEF P, Y
<1>2. P
  BY <1>1, FrescaEnReposo
<1> QED BY <1>2 DEF P, VArchivo

LEMMA ProveedoresFielQuieta == ProveedoresFiel /\ UNCHANGED vars => ProveedoresFiel'
<1> SUFFICES ASSUME ProveedoresFiel, UNCHANGED vars PROVE ProveedoresFiel'
  OBVIOUS
<1>1. vista' = vista /\ srv' = srv /\ ida' = ida /\ vuelta' = vuelta /\ dudosa' = dudosa
  BY DEF vars
<1>2. "filas" \in DOMAIN srv /\ (dudosa # TRUE => VFiel(vista, srv, ida, vuelta))
  BY DEF ProveedoresFiel
<1>3. "filas" \in DOMAIN srv' /\ (dudosa' # TRUE => VFiel(vista', srv', ida', vuelta'))
  BY <1>1, <1>2
<1> QED BY <1>3 DEF ProveedoresFiel

-----------------------------------------------------------------------------
(* The users: the switch of a row is turned by the page when its answer    *)
(* arrives, and asked for from the row as it is shown.                     *)

UO == {"listar", "listarTodos", "crear", "actualizar", "desactivar", "reactivar"}
UL == {"listar", "listarTodos"}
UC == {"crear", "actualizar"}
UA == {"desactivar", "reactivar"}
UCanal == Canal(UL, UC, UL, {}, <<"todo">>)

UEsFila(r) == r = [usuario |-> r.usuario, nombre |-> r.nombre, activo |-> r.activo] /\ r.activo \in BOOLEAN
UsuariosInv == Correo(UO) /\ "filas" \in DOMAIN vista /\ \A i \in DOMAIN srv : UEsFila(srv[i])

\* A row differs from what the backend keeps while the answer to its switch is on its way,
\* and what a switch still asks for is what its row calls for.
Volteada(r) == [r EXCEPT !.activo = ~@]
Virara(b, i) == \E k \in DOMAIN b : b[k].q.op \in UA /\ b[k].q.id = i
UBien(f, s, a, b) ==
    /\ \A i \in DOMAIN f : i \in DOMAIN s /\ f[i] = (IF Virara(b, i) THEN Volteada(s[i]) ELSE s[i])
    /\ \A i \in DOMAIN s : s[i].activo => i \in DOMAIN f
    /\ \A k \in DOMAIN a : a[k].op \in UA =>
          a[k].id \in DOMAIN f /\ a[k].op = (IF f[a[k].id].activo THEN "desactivar" ELSE "reactivar")
Activos(s) == [i \in {j \in DOMAIN s : s[j].activo} |-> s[i]]

\* A switch is not asked for while a list is on its way, nor a second time.
UFiel(v, s, a, b) ==
    /\ Vivas(a, b) /\ "filas" \in DOMAIN v
    /\ Fresca(a, b, UCanal, UBien(v.filas, s, a, b), {s, Activos(s)})
    /\ Orden(a, b, UL, UA, FALSE) /\ Orden(a, b, UA, UA, TRUE)
    /\ \A k \in DOMAIN b : b[k].q.op \in UA => b[k].ok = TRUE
UsuariosFiel == dudosa # TRUE => UFiel(vista, srv, ida, vuelta)

LEMMA UsuariosBanco ==
    ASSUME NEW s, \A i \in DOMAIN s : UEsFila(s[i]), NEW q, q.op \in UO
    PROVE  \A i \in DOMAIN Usuarios!Servidor(s, q).srv : UEsFila(Usuarios!Servidor(s, q).srv[i])
<1> DEFINE r == Usuarios!Servidor(s, q)
<1> USE DEF Usuarios!Servidor, Usuarios!Acepta, Usuarios!Rechaza
<1>1. CASE q.op \in UL
  BY <1>1 DEF UL
<1>2. CASE q.op = "crear"
  <2> DEFINE x == [usuario |-> q.datos, nombre |-> q.datos, activo |-> TRUE]
  <2>1. UEsFila(x)
    BY DEF UEsFila
  <2>2. r.srv = s \/ \E n : r.srv = Usuarios!Poner(s, n, x)
    BY <1>2
  <2> HIDE DEF x, r
  <2>3. CASE r.srv = s
    BY <2>3 DEF r
  <2>4. ASSUME NEW n, r.srv = Usuarios!Poner(s, n, x) PROVE \A i \in DOMAIN r.srv : UEsFila(r.srv[i])
    BY <2>1, <2>4 DEF Usuarios!Poner
  <2> QED BY <2>2, <2>3, <2>4 DEF r
<1>3. CASE q.op = "actualizar"
  <2>1. r.srv = [s EXCEPT ![q.id].nombre = q.datos]
    BY <1>3
  <2> HIDE DEF r
  <2>2. \A i \in DOMAIN r.srv : UEsFila(r.srv[i])
    BY <2>1 DEF UEsFila
  <2> QED BY <2>2 DEF r
<1>4. CASE q.op \in UA
  <2>1. \E x \in BOOLEAN : r.srv = [s EXCEPT ![q.id].activo = x]
    BY <1>4 DEF UA
  <2> HIDE DEF r
  <2>2. \A i \in DOMAIN r.srv : UEsFila(r.srv[i])
    BY <2>1 DEF UEsFila
  <2> QED BY <2>2 DEF r
<1> QED BY <1>1, <1>2, <1>3, <1>4 DEF UO, UL, UA

LEMMA UsuariosPedido == \A q : q.op \in UO /\ {"op", "viva"} \subseteq DOMAIN q => SonPedidos(<<q>>, UO)
BY PedidosUno DEF EsPedido

LEMMA UsuariosListar ==
    ASSUME NEW todos
    PROVE  \E q : Usuarios!Listar(todos) = <<q>> /\ q.op \in UL /\ q.viva = TRUE /\ {"op", "viva"} \subseteq DOMAIN q
<1> DEFINE q == Usuarios!Pedido(IF todos THEN "listarTodos" ELSE "listar", Usuarios!Nadie, Nada)
<1>1. Usuarios!Listar(todos) = <<q>>
  BY DEF Usuarios!Listar
<1>2. q.op \in UL /\ q.viva = TRUE /\ {"op", "viva"} \subseteq DOMAIN q
  BY DEF Usuarios!Pedido, UL
<1> HIDE DEF q
<1> QED BY <1>1, <1>2

LEMMA UsuariosEmpieza == Usuarios!Init => UsuariosInv
<1> SUFFICES ASSUME Usuarios!Init PROVE UsuariosInv
  OBVIOUS
<1>1. PICK q : Usuarios!Listar(FALSE) = <<q>> /\ q.op \in UL /\ {"op", "viva"} \subseteq DOMAIN q
  BY UsuariosListar
<1>2. ida = <<q>> /\ vuelta = <<>>
  BY <1>1 DEF Usuarios!Init, Usuarios!PeticionesInit
<1>3. SonPedidos(<<q>>, UO)
  BY <1>1, UsuariosPedido DEF UO, UL
<1>4. \A i \in DOMAIN srv : UEsFila(srv[i])
  <2>1. PICK n : srv = <<[usuario |-> n, nombre |-> n, activo |-> TRUE]>>
    BY DEF Usuarios!Init
  <2> DEFINE x == [usuario |-> n, nombre |-> n, activo |-> TRUE]
  <2>2. UEsFila(x)
    BY DEF UEsFila
  <2>3. DOMAIN srv = {1} /\ srv[1] = x
    BY <2>1
  <2> QED BY <2>2, <2>3
<1>5. "filas" \in DOMAIN vista
  BY DEF Usuarios!Init, Usuarios!PeticionesInit, Usuarios!VistaInicial
<1> QED BY <1>2, <1>3, <1>4, <1>5, CorreoEmpieza DEF UsuariosInv

LEMMA UsuariosSigue == UsuariosInv /\ Usuarios!Next => UsuariosInv'
<1> SUFFICES ASSUME UsuariosInv, Usuarios!Next PROVE UsuariosInv'
  OBVIOUS
<1> DEFINE Banco == \A i \in DOMAIN srv : UEsFila(srv[i])
           F == "filas" \in DOMAIN vista'
<1>1. Correo(UO) /\ Banco /\ "filas" \in DOMAIN vista
  BY DEF UsuariosInv
<1>2. ASSUME NEW p, SonPedidos(p, UO), ida' = ida \o p, vuelta' = vuelta, srv' = srv, F PROVE UsuariosInv'
  BY <1>1, <1>2, CorreoPide DEF UsuariosInv
<1>3. ASSUME NEW q, q.op \in UO, {"op", "viva"} \subseteq DOMAIN q, ida' = ida \o <<q>>, vuelta' = vuelta, srv' = srv, F
      PROVE  UsuariosInv'
  BY <1>2, <1>3, UsuariosPedido
<1> USE DEF Usuarios!Toque, Usuarios!Recarga, Usuarios!Tropiezo
<1>4. CASE Usuarios!AbrirAlta \/ Usuarios!AbrirEdicion \/ Usuarios!CerrarModal
  <2>1. SonPedidos(<<>>, UO) /\ ida' = ida \o <<>> /\ vuelta' = vuelta /\ srv' = srv /\ F
    BY <1>1, <1>4, SucesionUna DEF Usuarios!AbrirAlta, Usuarios!AbrirEdicion, Usuarios!CerrarModal, SonPedidos
  <2> QED BY <1>2, <2>1
<1>5. CASE Usuarios!Guardar
  <2>1. PICK nombre \in Usuarios!Formulario :
           /\ ida' = ida \o <<Usuarios!Tras(Usuarios!Pedido(IF vista.editando = Nadie THEN "crear" ELSE "actualizar",
                                   vista.editando, nombre),
                            IF vista.inactivos THEN "listarTodos" ELSE "listar")>>
           /\ vuelta' = vuelta /\ srv' = srv /\ F
    BY <1>1, <1>5 DEF Usuarios!Guardar, Usuarios!Nadie, Nadie
  <2> DEFINE q == Usuarios!Tras(Usuarios!Pedido(IF vista.editando = Nadie THEN "crear" ELSE "actualizar",
                                   vista.editando, nombre),
                            IF vista.inactivos THEN "listarTodos" ELSE "listar")
  <2>2. q.op \in UO /\ {"op", "viva"} \subseteq DOMAIN q
    BY DEF Usuarios!Tras, Usuarios!Pedido, UO
  <2> HIDE DEF q
  <2> QED BY <1>3, <2>1, <2>2 DEF q
<1>6. CASE Usuarios!MostrarInactivos
  <2>1. PICK q : Usuarios!Listar(~vista.inactivos) = <<q>> /\ q.op \in UL /\ {"op", "viva"} \subseteq DOMAIN q
    BY UsuariosListar
  <2>2. ida' = ida \o <<q>> /\ vuelta' = vuelta /\ srv' = srv /\ F /\ q.op \in UO
    BY <1>1, <1>6, <2>1 DEF Usuarios!MostrarInactivos, UO, UL
  <2> QED BY <1>3, <2>1, <2>2
<1>7. CASE Usuarios!AlternarActivo
  <2>1. PICK i \in Usuarios!Filas :
           /\ ida' = ida \o <<Usuarios!Pedido(IF vista.filas[i].activo THEN "desactivar" ELSE "reactivar", i, Nada)>>
           /\ vuelta' = vuelta /\ srv' = srv /\ F
    BY <1>1, <1>7 DEF Usuarios!AlternarActivo
  <2> DEFINE q == Usuarios!Pedido(IF vista.filas[i].activo THEN "desactivar" ELSE "reactivar", i, Nada)
  <2>2. q.op \in UO /\ {"op", "viva"} \subseteq DOMAIN q
    BY DEF Usuarios!Pedido, UO
  <2> HIDE DEF q
  <2> QED BY <1>3, <2>1, <2>2 DEF q
<1>8. CASE Usuarios!Montar(Usuarios!VistaInicial, Usuarios!Listar(FALSE))
  <2>1. PICK q : Usuarios!Listar(FALSE) = <<q>> /\ q.op \in UL /\ {"op", "viva"} \subseteq DOMAIN q
    BY UsuariosListar
  <2>2. ida' = Huerfanos(ida) \o <<q>> /\ vuelta' = HuerfanasDe(vuelta) /\ srv' = srv /\ F
    BY <1>8, <2>1 DEF Usuarios!Montar, Usuarios!VistaInicial, Usuarios!Huerfanos, Huerfanos, Usuarios!HuerfanasDe, HuerfanasDe
  <2>3. SonPedidos(<<q>>, UO) /\ SonRespuestas(vuelta, UO)
    BY <1>1, <2>1, UsuariosPedido DEF UO, UL, Correo
  <2>4. Correo(UO)'
    BY <1>1, <2>2, <2>3, CorreoMonta
  <2> QED BY <1>1, <2>2, <2>4 DEF UsuariosInv
<1>9. ASSUME NEW i, Usuarios!Responde(i) PROVE UsuariosInv'
  <2> DEFINE r == Usuarios!Servidor(srv, ida[i])
  <2>1. PICK ok, datos : /\ i \in DOMAIN ida /\ vista' = vista /\ ida' = Sin(ida, i)
                         /\ vuelta' = Append(vuelta, [q |-> ida[i], ok |-> ok, datos |-> datos])
                         /\ srv' \in {srv, r.srv}
    BY <1>9 DEF Usuarios!Responde, Usuarios!Atiende, Usuarios!Sin, Sin
  <2>2. Correo(UO)' /\ ida[i].op \in UO
    BY <1>1, <2>1, CorreoToma DEF Correo, SonPedidos, EsPedido
  <2>3. \A j \in DOMAIN r.srv : UEsFila(r.srv[j])
    BY <1>1, <2>2, UsuariosBanco
  <2> HIDE DEF r
  <2> QED BY <1>1, <2>1, <2>2, <2>3 DEF UsuariosInv
<1>10. ASSUME NEW i, Usuarios!Recibe(i) PROVE UsuariosInv'
  <2> DEFINE m == vuelta[i]
             r == Usuarios!Recibir(m)
             p == IF m.q.viva THEN r.pide ELSE Huerfanos(r.pide)
  <2>1. i \in DOMAIN vuelta /\ m.q.op \in UO
    BY <1>1, <1>10 DEF Usuarios!Recibe, Usuarios!Llega, Correo, SonRespuestas, EsRespuesta, EsPedido
  <2>2. r.va = FALSE /\ "filas" \in DOMAIN r.vista /\ (r.pide = <<>> \/ \E todos : r.pide = Usuarios!Listar(todos))
    BY <1>1, <2>1 DEF UO, Usuarios!Recibir, Usuarios!Queda, Usuarios!Pide
  <2>3. SonPedidos(r.pide, UO)
    <3>1. ASSUME NEW todos, r.pide = Usuarios!Listar(todos) PROVE SonPedidos(r.pide, UO)
      BY <3>1, UsuariosListar, UsuariosPedido DEF UO, UL
    <3>2. SonPedidos(<<>>, UO)
      BY SucesionUna DEF SonPedidos
    <3> QED BY <2>2, <3>1, <3>2
  <2>4. SonPedidos(p, UO)
    BY <2>3, Huerfana
  <2>5. ida' = ida \o p /\ vuelta' = Sin(vuelta, i) /\ srv' = srv /\ F
    BY <1>1, <1>10, <2>2 DEF Usuarios!Recibe, Usuarios!Llega, Usuarios!Sin, Sin, Usuarios!Huerfanos, Huerfanos
  <2> HIDE DEF p, r
  <2>6. Correo(UO)'
    BY <1>1, <2>1, <2>4, <2>5, CorreoLlega
  <2> QED BY <1>1, <2>5, <2>6 DEF UsuariosInv
<1> QED BY <1>4, <1>5, <1>6, <1>7, <1>8, <1>9, <1>10 DEF Usuarios!Next

-----------------------------------------------------------------------------
LEMMA UHabla ==
    ASSUME NEW m
    PROVE  /\ UCanal.pide = UL /\ UCanal.relee = UC
           /\ Habla(m, UCanal) <=> m.q.op \in UL
           /\ Dicho(m, UCanal.dato) = m.datos
BY DEF UCanal, Canal, Habla, Dicho

\* A click that leaves the rows as they are, and what it asks for.
LEMMA UFielPide ==
    ASSUME NEW v, NEW s, NEW a, NEW b, UFiel(v, s, a, b), NEW w, "filas" \in DOMAIN w, w.filas = v.filas,
           NEW q, q.viva = TRUE,
           q.op \in UA => /\ q.id \in DOMAIN v.filas
                          /\ q.op = (IF v.filas[q.id].activo THEN "desactivar" ELSE "reactivar")
                          /\ \A k \in DOMAIN a : a[k].op \notin UL /\ ~(a[k].op \in UA /\ a[k].id = q.id)
                          /\ \A k \in DOMAIN b : b[k].q.op \notin UL /\ ~(b[k].q.op \in UA /\ b[k].q.id = q.id)
    PROVE  UFiel(w, s, a \o <<q>>, b)
<1> DEFINE p == <<q>>
           u == a \o p
           P == UBien(v.filas, s, a, b)
           P1 == UBien(w.filas, s, u, b)
           Y == {s, Activos(s)}
<1>1. /\ Vivas(a, b) /\ Sucesion(a) /\ Vivas(p, <<>>) /\ Sucesion(p) /\ Salen(u, a, {q})
      /\ Fresca(a, b, UCanal, P, Y) /\ Orden(a, b, UL, UA, FALSE) /\ Orden(a, b, UA, UA, TRUE)
      /\ \A k \in DOMAIN b : b[k].q.op \in UA => b[k].ok = TRUE
  BY PideUna, SalenDe DEF UFiel, Vivas
<1>2. P => P1
  <2> HIDE DEF u
  <2> QED BY <1>1 DEF UBien, Salen
<1>3. Orden(a \o <<q>>, b, UL, UA, FALSE)
  <2>1. /\ \A k \in DOMAIN a : ~Antes(a[k], q, UL, UA, FALSE)
        /\ \A k \in DOMAIN b : ~Antes(b[k].q, q, UL, UA, FALSE)
    BY DEF Antes
  <2> QED BY <1>1, <2>1, OrdenPide
<1>4. Orden(a \o <<q>>, b, UA, UA, TRUE)
  <2>1. /\ \A k \in DOMAIN a : ~Antes(a[k], q, UA, UA, TRUE)
        /\ \A k \in DOMAIN b : ~Antes(b[k].q, q, UA, UA, TRUE)
    BY DEF Antes
  <2> QED BY <1>1, <2>1, OrdenPide
<1> HIDE DEF P, P1, Y, p
<1>5. Vivas(u, b) /\ Fresca(u, b, UCanal, P1, Y)
  BY <1>1, <1>2, VivasPide, FrescaPide
<1>6. Orden(u, b, UL, UA, FALSE) /\ Orden(u, b, UA, UA, TRUE)
  BY <1>3, <1>4 DEF p
<1>7. UFiel(w, s, u, b)
  <2> HIDE DEF u
  <2> QED BY <1>1, <1>5, <1>6 DEF UFiel, P1, Y
<1> QED BY <1>7 DEF u, p

LEMMA UFielToca ==
    ASSUME NEW v, NEW s, NEW a, NEW b, UFiel(v, s, a, b), NEW w, "filas" \in DOMAIN w, w.filas = v.filas
    PROVE  UFiel(w, s, a \o <<>>, b)
<1>1. a \o <<>> = a
  BY JuntoNada DEF UFiel, Vivas
<1>2. UFiel(w, s, a, b)
  BY DEF UFiel
<1> QED BY <1>1, <1>2

\* Everything is asked for again.
LEMMA UFielMonta ==
    ASSUME NEW v, NEW s, "filas" \in DOMAIN v, NEW q, q.viva = TRUE, q.op \in UL
    PROVE  UFiel(v, s, <<q>>, <<>>)
<1> DEFINE P == UBien(v.filas, s, <<q>>, <<>>)
           Y == {s, Activos(s)}
<1>1. Vivas(<<q>>, <<>>) /\ Hay(<<q>>, UL) /\ DOMAIN <<>> = {}
  BY VivasUna, PideUna, SucesionUna
<1>2. Orden(<<q>>, <<>>, UL, UA, FALSE) /\ Orden(<<q>>, <<>>, UA, UA, TRUE)
  BY OrdenUna
<1> HIDE DEF P, Y
<1>3. Fresca(<<q>>, <<>>, UCanal, P, Y)
  BY <1>1, UHabla DEF Fresca
<1> QED BY <1>1, <1>2, <1>3 DEF UFiel, P, Y

LEMMA UFielResponde ==
    ASSUME UsuariosInv, UsuariosFiel, NEW i, Usuarios!Responde(i), dudosa' # TRUE
    PROVE  UFiel(vista', srv', ida', vuelta')
<1> DEFINE q == ida[1]
           r == Usuarios!Servidor(srv, q)
           ok == r.ok
           d == r.datos
           m == [q |-> q, ok |-> ok, datos |-> d]
           f == vista.filas
           a1 == Sin(ida, 1)
           b1 == Append(vuelta, m)
<1>1. /\ 1 \in DOMAIN ida /\ srv' = r.srv /\ ida' = a1 /\ vista' = vista
      /\ vuelta' = b1 /\ dudosa # TRUE
  BY DEF Usuarios!Responde, Usuarios!Atiende, Usuarios!Sin, Sin
<1>2. UFiel(vista, srv, ida, vuelta)
  BY <1>1 DEF UsuariosFiel
<1>3. q.op \in UO /\ \A j \in DOMAIN srv : UEsFila(srv[j])
  BY <1>1 DEF UsuariosInv, Correo, SonPedidos, EsPedido
<1> DEFINE P == UBien(f, srv, ida, vuelta)
           P1 == UBien(f, r.srv, a1, b1)
           Y == {srv, Activos(srv)}
           Y1 == {r.srv, Activos(r.srv)}
<1>4. /\ Sucesion(ida) /\ Sucesion(vuelta) /\ Vivas(ida, vuelta) /\ Fresca(ida, vuelta, UCanal, P, Y)
      /\ Orden(ida, vuelta, UL, UA, FALSE) /\ Orden(ida, vuelta, UA, UA, TRUE)
      /\ \A k \in DOMAIN vuelta : vuelta[k].q.op \in UA => vuelta[k].ok = TRUE
      /\ "filas" \in DOMAIN vista
  BY <1>2 DEF UFiel, Vivas
<1>5. /\ q.op \in UL => ok = TRUE /\ r.srv = srv /\ d \in {srv, Activos(srv)}
      /\ q.op \in UC => ok = TRUE \/ r.srv = srv
      /\ q.op = "desactivar" => ok = TRUE /\ r.srv = [srv EXCEPT ![q.id].activo = FALSE]
      /\ q.op = "reactivar" => ok = TRUE /\ r.srv = [srv EXCEPT ![q.id].activo = TRUE]
  BY <1>3 DEF Usuarios!Servidor, Usuarios!Acepta, Usuarios!Rechaza, UO, UL, UC, Activos
<1>6. m.q = q /\ m.ok = ok /\ m.datos = d /\ m = [q |-> ida[1], ok |-> ok, datos |-> d]
  OBVIOUS
<1>7. /\ Salen(a1, ida, {}) /\ DOMAIN b1 = 1 .. Len(vuelta) + 1 /\ Len(vuelta) \in Nat
      /\ DOMAIN vuelta = 1 .. Len(vuelta)
      /\ \A k \in 1 .. Len(vuelta) : b1[k] = vuelta[k]
      /\ b1[Len(vuelta) + 1] = m
  <2> HIDE DEF m, P, P1, Y, Y1
  <2>1. Salen(Sin(ida, 1), ida, {})
    BY <1>1, <1>4, SalenDe
  <2>2. /\ Len(vuelta) \in Nat /\ DOMAIN vuelta = 1 .. Len(vuelta)
        /\ DOMAIN Append(vuelta, m) = 1 .. Len(vuelta) + 1
        /\ \A k \in 1 .. Len(vuelta) : Append(vuelta, m)[k] = vuelta[k]
        /\ Append(vuelta, m)[Len(vuelta) + 1] = m
    BY <1>4, UnoMas
  <2> QED BY <2>1, <2>2
<1>8. Orden(a1, b1, UL, UA, FALSE) /\ Orden(a1, b1, UA, UA, TRUE)
  BY <1>1, <1>4, <1>6, OrdenToma
<1> HIDE DEF m, r, ok, d, a1, b1
<1>9. Vivas(a1, b1)
  BY <1>1, <1>4, <1>6, VivasToma DEF a1, b1
<1>10. \A j : Virara(b1, j) <=> (Virara(vuelta, j) \/ (q.op \in UA /\ q.id = j))
  <2> TAKE j
  <2>1. Virara(vuelta, j) => Virara(b1, j)
    BY <1>7 DEF Virara
  <2>2. q.op \in UA /\ q.id = j => Virara(b1, j)
    <3>1. Len(vuelta) + 1 \in DOMAIN b1
      BY <1>7
    <3> QED BY <1>6, <1>7, <3>1 DEF Virara
  <2>3. Virara(b1, j) => Virara(vuelta, j) \/ (q.op \in UA /\ q.id = j)
    <3>1. \A k \in DOMAIN b1 : k \in DOMAIN vuelta \/ k = Len(vuelta) + 1
      BY <1>7
    <3> QED BY <1>6, <1>7, <3>1 DEF Virara
  <2> QED BY <2>1, <2>2, <2>3
<1>11. \A k \in DOMAIN b1 : b1[k].q.op \in UA => b1[k].ok = TRUE
  <2>1. \A k \in DOMAIN b1 : k \in DOMAIN vuelta \/ k = Len(vuelta) + 1
    BY <1>7
  <2>2. m.q.op \in UA => m.ok = TRUE
    BY <1>5, <1>6 DEF UA
  <2> QED BY <1>4, <1>7, <2>1, <2>2
<1>12. (Habla(m, UCanal) <=> q.op \in UL) /\ Dicho(m, UCanal.dato) = d /\ UCanal.pide = UL /\ UCanal.relee = UC
  BY <1>6, UHabla
<1>13. Fresca(a1, b1, UCanal, P1, Y1)
  <2>1. CASE q.op \in UL
    <3>1. Dicho(m, UCanal.dato) \in Y1
      BY <1>5, <1>12, <2>1
    <3> QED BY <1>1, <1>4, <1>5, <1>6, <1>12, <2>1, <3>1, TomaDice DEF a1, b1
  <2>2. CASE q.op \in UC /\ ok = TRUE
    <3> HIDE DEF P1, Y1
    <3> QED BY <1>1, <1>4, <1>6, <1>12, <2>2, TomaCambia DEF a1, b1
  <2>3. CASE q.op \in UC /\ r.srv = srv
    <3>1. P => P1
      BY <1>7, <1>10, <2>3 DEF UBien, Salen, UC, UA
    <3>2. q.op \notin UL /\ Y \subseteq Y1
      BY <2>3 DEF UC, UL
    <3> HIDE DEF P, P1, Y, Y1
    <3> QED BY <1>1, <1>4, <1>6, <1>12, <3>1, <3>2, TomaSigue DEF a1, b1
  <2>4. CASE q.op \in UA
    <3>1. \A k \in DOMAIN vuelta : ~Habla(vuelta[k], UCanal)
      BY <1>1, <1>4, <2>4, UHabla DEF Orden, Antes
    <3>2. P => P1
      <4> SUFFICES ASSUME P PROVE P1
        OBVIOUS
      <4>1. q.id \in DOMAIN f /\ q.op = (IF f[q.id].activo THEN "desactivar" ELSE "reactivar")
        BY <1>1, <2>4 DEF UBien
      <4>2. ~Virara(vuelta, q.id)
        BY <1>1, <1>4, <2>4 DEF Orden, Antes, Virara
      <4>3. q.id \in DOMAIN srv /\ f[q.id] = srv[q.id] /\ UEsFila(srv[q.id])
        BY <1>3, <4>1, <4>2 DEF UBien
      <4>4. r.srv = [srv EXCEPT ![q.id].activo = ~srv[q.id].activo]
        BY <1>5, <2>4, <4>1, <4>3 DEF UA, UEsFila
      <4>5. /\ DOMAIN r.srv = DOMAIN srv
            /\ \A j \in DOMAIN srv : j # q.id => r.srv[j] = srv[j]
            /\ r.srv[q.id] = [srv[q.id] EXCEPT !.activo = ~srv[q.id].activo]
        BY <4>3, <4>4
      <4>6. Volteada(r.srv[q.id]) = srv[q.id]
        BY <4>3, <4>5 DEF Volteada, UEsFila
      <4>7. \A j \in DOMAIN f : j \in DOMAIN r.srv /\ f[j] = (IF Virara(b1, j) THEN Volteada(r.srv[j]) ELSE r.srv[j])
        BY <1>10, <2>4, <4>3, <4>5, <4>6 DEF UBien
      <4>8. \A j \in DOMAIN r.srv : r.srv[j].activo => j \in DOMAIN f
        BY <4>1, <4>5 DEF UBien
      <4>9. \A k \in DOMAIN a1 : a1[k].op \in UA =>
              a1[k].id \in DOMAIN f /\ a1[k].op = (IF f[a1[k].id].activo THEN "desactivar" ELSE "reactivar")
        BY <1>7 DEF UBien, Salen
      <4> QED BY <4>7, <4>8, <4>9 DEF UBien
    <3>3. q.op \notin UL
      BY <2>4 DEF UA, UL
    <3> HIDE DEF P, P1, Y, Y1
    <3>4. Fresca(ida, vuelta, UCanal, P, Y1) /\ Y1 \subseteq Y1
      BY <1>4, <3>1, FrescaCalla
    <3> QED BY <1>1, <1>4, <1>6, <1>12, <3>2, <3>3, <3>4, TomaSigue DEF a1, b1
  <2> QED BY <1>3, <1>5, <2>1, <2>2, <2>3, <2>4 DEF UO, UL, UC, UA
<1> QED BY <1>1, <1>4, <1>8, <1>9, <1>11, <1>13 DEF UFiel

LEMMA UFielRecibe ==
    ASSUME UsuariosInv, UsuariosFiel, NEW i, Usuarios!Recibe(i), dudosa' # TRUE
    PROVE  UFiel(vista', srv', ida', vuelta')
<1> DEFINE m == vuelta[1]
           r == Usuarios!Recibir(m)
           p == r.pide
           f == vista.filas
           g == r.vista.filas
           b1 == Sin(vuelta, 1)
           u == ida \o p
<1>1. i = 1 /\ dudosa # TRUE /\ 1 \in DOMAIN vuelta /\ m.q.op \in UO
  <2>1. i \in DOMAIN vuelta /\ vuelta[i].q.op \in UO
    BY DEF Usuarios!Recibe, Usuarios!Llega, UsuariosInv, Correo, SonRespuestas, EsRespuesta, EsPedido
  <2>2. Usuarios!Recibir(vuelta[i]).va = FALSE
    BY <2>1 DEF UO, Usuarios!Recibir, Usuarios!Queda, Usuarios!Pide
  <2>3. i = 1 /\ dudosa # TRUE
    BY <2>2 DEF Usuarios!Recibe, Usuarios!Llega
  <2> QED BY <2>1, <2>3
<1> DEFINE P == UBien(f, srv, ida, vuelta)
           P1 == UBien(g, srv, u, b1)
           Y == {srv, Activos(srv)}
<1>2. /\ Sucesion(ida) /\ Sucesion(vuelta) /\ Vivas(ida, vuelta) /\ Fresca(ida, vuelta, UCanal, P, Y)
      /\ Orden(ida, vuelta, UL, UA, FALSE) /\ Orden(ida, vuelta, UA, UA, TRUE)
      /\ \A k \in DOMAIN vuelta : vuelta[k].q.op \in UA => vuelta[k].ok = TRUE
      /\ "filas" \in DOMAIN vista /\ m.q.viva = TRUE
  BY <1>1 DEF UsuariosFiel, UFiel, Vivas
<1>3. /\ r.va = FALSE /\ "filas" \in DOMAIN r.vista
      /\ m.q.op \in UL => p = <<>> /\ (m.ok = TRUE => g = m.datos)
      /\ m.q.op \in UC /\ m.ok = TRUE => \E todos : p = Usuarios!Listar(todos)
      /\ m.q.op \in UC /\ m.ok # TRUE => p = <<>> /\ g = f
      /\ m.q.op \in UA => p = <<>>
      /\ m.q.op \in UA /\ m.ok = TRUE /\ m.q.id \in DOMAIN f => g = [f EXCEPT ![m.q.id].activo = ~@]
      /\ m.q.op \in UA /\ m.q.id \notin DOMAIN f => g = f
  BY <1>1, <1>2 DEF UO, UL, UC, UA, Usuarios!Recibir, Usuarios!Queda, Usuarios!Pide
<1>4. /\ vista' = r.vista /\ srv' = srv /\ ida' = u /\ vuelta' = b1
  BY <1>1, <1>2, <1>3 DEF Usuarios!Recibe, Usuarios!Llega, Usuarios!Sin, Sin
<1>5. p = <<>> \/ \E q : p = <<q>> /\ q.op \in UL /\ q.viva = TRUE
  BY <1>1, <1>3, UsuariosListar DEF UO, UL, UC, UA
<1>6. \/ p = <<>> /\ u = ida
      \/ \E q : p = <<q>> /\ q.op \in UL /\ q.viva = TRUE
  <2>1. ida \o <<>> = ida
    BY <1>2, JuntoNada
  <2> QED BY <1>5, <2>1
<1> HIDE DEF p, r, u, m, b1
<1>7. /\ Orden(ida, b1, UL, UA, FALSE) /\ Orden(ida, b1, UA, UA, TRUE)
      /\ \A k \in DOMAIN ida : ~Antes(m.q, ida[k], UL, UA, FALSE)
      /\ \A k \in DOMAIN b1 : ~Antes(m.q, b1[k].q, UL, UA, FALSE) /\ ~Antes(m.q, b1[k].q, UA, UA, TRUE)
  BY <1>1, <1>2, OrdenLlega DEF m, b1
<1>8. Salen(b1, vuelta, {}) /\ (\A k \in DOMAIN vuelta : vuelta[k] = m \/ \E j \in DOMAIN b1 : b1[j] = vuelta[k])
  <2>1. /\ Len(vuelta) \in Nat \ {0} /\ DOMAIN vuelta = 1 .. Len(vuelta) /\ DOMAIN b1 = 1 .. Len(vuelta) - 1
        /\ \A k \in 1 .. Len(vuelta) - 1 : b1[k] = vuelta[k + 1]
    BY <1>1, <1>2, PrimeroSale DEF b1
  <2>2. ASSUME NEW k \in DOMAIN vuelta, k # 1 PROVE \E j \in DOMAIN b1 : b1[j] = vuelta[k]
    <3>1. k - 1 \in DOMAIN b1 /\ b1[k - 1] = vuelta[k]
      BY <2>1, <2>2
    <3> QED BY <3>1
  <2>3. Salen(b1, vuelta, {})
    BY <1>1, <1>2, SalenDe DEF b1
  <2> QED BY <2>2, <2>3 DEF m
<1>9. Vivas(p, <<>>) /\ Sucesion(p) /\ (m.q.op \in UC /\ m.ok = TRUE => Hay(p, UL))
  <2>1. ASSUME NEW q, p = <<q>>, q.op \in UL, q.viva = TRUE PROVE Vivas(p, <<>>) /\ Sucesion(p) /\ Hay(p, UL)
    BY <2>1, PideUna
  <2>2. CASE p = <<>>
    <3>1. ~(m.q.op \in UC /\ m.ok = TRUE)
      <4> SUFFICES ASSUME m.q.op \in UC, m.ok = TRUE PROVE FALSE
        OBVIOUS
      <4>1. PICK todos : p = Usuarios!Listar(todos)
        BY <1>3
      <4>2. \E q : p = <<q>>
        BY <4>1, UsuariosListar
      <4> QED BY <2>2, <4>2
    <3> QED BY <2>2, <3>1, PideNada
  <2> QED BY <1>6, <2>1, <2>2
<1>10. Virara(b1, m.q.id) => m.q.op \notin UA
  BY <1>7 DEF Antes, Virara
<1>11. \A j : Virara(vuelta, j) <=> (Virara(b1, j) \/ (m.q.op \in UA /\ m.q.id = j))
  BY <1>1, <1>8 DEF Virara, Salen, m
<1>12. CASE p = <<>>
  <2>1. m.q.op \in UL /\ m.ok = TRUE /\ m.datos \in Y => P1
    <3> SUFFICES ASSUME m.q.op \in UL, m.ok = TRUE, m.datos \in Y PROVE P1
      OBVIOUS
    <3>1. /\ \A k \in DOMAIN ida : ida[k].op \notin UA
          /\ \A k \in DOMAIN b1 : b1[k].q.op \notin UA
      BY <1>7 DEF Antes
    <3>2. \A j : ~Virara(b1, j)
      BY <3>1 DEF Virara
    <3>3. g = srv \/ g = Activos(srv)
      BY <1>3
    <3>4. u = ida
      BY <1>6, <1>12 DEF u
    <3> QED BY <3>1, <3>2, <3>3, <3>4 DEF UBien, Activos
  <2>2. m.q.op \notin UL /\ P => P1
    <3> SUFFICES ASSUME m.q.op \notin UL, P PROVE P1
      OBVIOUS
    <3>1. u = ida
      BY <1>6, <1>12 DEF u
    <3>2. CASE m.q.op \in UC
      <4>1. g = f /\ \A j : Virara(vuelta, j) <=> Virara(b1, j)
        BY <1>3, <1>9, <1>11, <1>12, <3>2, PideNada DEF UC, UA
      <4> QED BY <3>1, <4>1 DEF UBien
    <3>3. CASE m.q.op \in UA
      <4> DEFINE n == m.q.id
      <4>1. ~Virara(b1, n) /\ Virara(vuelta, n) /\ m.ok = TRUE
        BY <1>1, <1>2, <1>10, <1>11, <3>3 DEF m
      <4> SUFFICES ASSUME n \in DOMAIN f PROVE P1
        BY <1>3, <1>11, <3>1, <3>3 DEF UBien
      <4>2. n \in DOMAIN srv /\ f[n] = Volteada(srv[n]) /\ UEsFila(srv[n])
        BY <4>1 DEF UBien, UsuariosInv
      <4>3. g = [f EXCEPT ![n].activo = ~@]
        BY <1>3, <3>3, <4>1, <4>2
      <4>4. DOMAIN g = DOMAIN f /\ (\A j \in DOMAIN f : j # n => g[j] = f[j]) /\ g[n] = srv[n]
        BY <4>2, <4>3 DEF Volteada, UEsFila
      <4>5. \A j \in DOMAIN g : j \in DOMAIN srv /\ g[j] = (IF Virara(b1, j) THEN Volteada(srv[j]) ELSE srv[j])
        <5>1. \A j \in DOMAIN f : j \in DOMAIN srv /\ f[j] = (IF Virara(vuelta, j) THEN Volteada(srv[j]) ELSE srv[j])
          BY DEF UBien
        <5> HIDE DEF f, g, b1
        <5> QED BY <1>11, <4>1, <4>4, <4>2, <5>1
      <4>6. \A k \in DOMAIN ida : ida[k].op \in UA =>
              ida[k].id \in DOMAIN g /\ ida[k].op = (IF g[ida[k].id].activo THEN "desactivar" ELSE "reactivar")
        <5>1. \A k \in DOMAIN ida : ida[k].op \in UA => ida[k].id # n
          BY <1>1, <1>2, <3>3 DEF Orden, Antes, m
        <5> QED BY <4>4, <5>1 DEF UBien
      <4> QED BY <3>1, <4>4, <4>5, <4>6 DEF UBien
    <3> QED BY <1>1, <3>2, <3>3 DEF UO, UL, UC, UA, m
  <2>3. (Habla(m, UCanal) <=> m.q.op \in UL) /\ Dicho(m, UCanal.dato) = m.datos /\ UCanal.relee = UC /\ UCanal.pide = UL
    BY UHabla
  <2>4. m.ok = TRUE => m.q.op \notin UC
    BY <1>9, <1>12, PideNada
  <2> HIDE DEF P, P1, Y
  <2>5. Fresca(u, b1, UCanal, P1, Y)
    BY <1>1, <1>2, <1>9, <2>1, <2>2, <2>3, <2>4, FrescaRecibe DEF u, b1, m
  <2>6. Vivas(u, b1)
    BY <1>1, <1>2, <1>9, VivasLlega DEF u, b1
  <2>7. Orden(u, b1, UL, UA, FALSE) /\ Orden(u, b1, UA, UA, TRUE)
    BY <1>6, <1>7, <1>12 DEF u
  <2>8. \A k \in DOMAIN b1 : b1[k].q.op \in UA => b1[k].ok = TRUE
    BY <1>2, <1>8 DEF Salen
  <2> QED BY <1>3, <1>4, <2>5, <2>6, <2>7, <2>8 DEF UFiel, P1, Y
<1>13. ASSUME NEW q, p = <<q>>, q.op \in UL, q.viva = TRUE PROVE UFiel(vista', srv', ida', vuelta')
  <2>1. Hay(p, UL) /\ UCanal.pide = UL
    BY <1>13, PideUna, UHabla
  <2>2. Vivas(ida, b1) /\ Vivas(u, b1)
    BY <1>1, <1>2, <1>9, VivasLlega, VivasNada DEF u, b1, Vivas
  <2>3. Fresca(u, b1, UCanal, P1, Y)
    <3> HIDE DEF P1, Y
    <3> QED BY <1>2, <1>9, <2>1, FrescaPidiendo DEF u
  <2>4. /\ \A k \in DOMAIN ida : ~Antes(ida[k], q, UL, UA, FALSE) /\ ~Antes(ida[k], q, UA, UA, TRUE)
        /\ \A k \in DOMAIN b1 : ~Antes(b1[k].q, q, UL, UA, FALSE) /\ ~Antes(b1[k].q, q, UA, UA, TRUE)
    BY <1>13 DEF Antes, UL, UA
  <2>5. Orden(ida \o <<q>>, b1, UL, UA, FALSE) /\ Orden(ida \o <<q>>, b1, UA, UA, TRUE)
    BY <1>7, <2>2, <2>4, OrdenPide
  <2>6. Orden(u, b1, UL, UA, FALSE) /\ Orden(u, b1, UA, UA, TRUE)
    BY <1>13, <2>5 DEF u
  <2>7. \A k \in DOMAIN b1 : b1[k].q.op \in UA => b1[k].ok = TRUE
    BY <1>2, <1>8 DEF Salen
  <2> QED BY <1>3, <1>4, <2>2, <2>3, <2>6, <2>7 DEF UFiel
<1> QED BY <1>5, <1>12, <1>13

LEMMA UsuariosFielSigue == UsuariosInv /\ UsuariosFiel /\ Usuarios!Next => UsuariosFiel'
<1> SUFFICES ASSUME UsuariosInv, UsuariosFiel, Usuarios!Next, dudosa' # TRUE
             PROVE  UFiel(vista', srv', ida', vuelta')
  BY DEF UsuariosFiel, UFiel, UBien, Virara, Vivas, Sucesion, Fresca, Hay, Confirma, Dice, Ultima, Habla, Dicho, UCanal,
     Orden, Antes
<1>1. dudosa # TRUE => UFiel(vista, srv, ida, vuelta) /\ "filas" \in DOMAIN vista /\ Vivas(ida, vuelta)
  BY DEF UsuariosFiel, UFiel
<1> DEFINE Suya == /\ dudosa # TRUE /\ srv' = srv /\ vuelta' = vuelta
                   /\ "filas" \in DOMAIN vista' /\ vista'.filas = vista.filas
<1>2. ASSUME Suya, NEW q, q.viva = TRUE, q.op \notin UA, ida' = ida \o <<q>> PROVE UFiel(vista', srv', ida', vuelta')
  BY <1>1, <1>2, UFielPide
<1>3. CASE Usuarios!AbrirAlta \/ Usuarios!AbrirEdicion \/ Usuarios!CerrarModal
  <2>1. Suya /\ ida' = ida \o <<>>
    BY <1>1, <1>3 DEF Usuarios!AbrirAlta, Usuarios!AbrirEdicion, Usuarios!CerrarModal, Usuarios!Toque
  <2> QED BY <1>1, <2>1, UFielToca
<1>4. CASE Usuarios!Guardar
  <2>1. PICK nombre \in Usuarios!Formulario :
           Usuarios!Toque(vista, <<Usuarios!Tras(Usuarios!Pedido(IF vista.editando = Nadie THEN "crear" ELSE "actualizar",
                                   vista.editando, nombre),
                            IF vista.inactivos THEN "listarTodos" ELSE "listar")>>)
    BY <1>4 DEF Usuarios!Guardar, Usuarios!Nadie, Nadie
  <2> DEFINE q == Usuarios!Tras(Usuarios!Pedido(IF vista.editando = Nadie THEN "crear" ELSE "actualizar",
                                   vista.editando, nombre),
                            IF vista.inactivos THEN "listarTodos" ELSE "listar")
  <2>2. q.op \notin UA /\ q.viva = TRUE
    BY DEF Usuarios!Tras, Usuarios!Pedido, UA
  <2>3. Suya /\ ida' = ida \o <<q>>
    BY <1>1, <2>1 DEF Usuarios!Toque
  <2> HIDE DEF q
  <2> QED BY <1>2, <2>2, <2>3
<1>5. CASE Usuarios!AlternarActivo
  <2>1. PICK j \in Usuarios!Filas :
          LET pedido == <<Usuarios!Pedido(IF vista.filas[j].activo THEN "desactivar" ELSE "reactivar", j, Nada)>>
              otro == \/ \E n \in DOMAIN ida : Usuarios!Alternan(ida[n], j)
                      \/ \E n \in DOMAIN vuelta : Usuarios!Alternan(vuelta[n].q, j)
                      \/ Usuarios!EnVuelo({"listar", "listarTodos"}) > 0
          IN  (otro /\ Usuarios!Tropiezo(vista, pedido)) \/ (~otro /\ Usuarios!Toque(vista, pedido))
    BY <1>5 DEF Usuarios!AlternarActivo
  <2> DEFINE q == Usuarios!Pedido(IF vista.filas[j].activo THEN "desactivar" ELSE "reactivar", j, Nada)
  <2>2. /\ Suya /\ ida' = ida \o <<q>>
        /\ \A n \in DOMAIN ida : ~Usuarios!Alternan(ida[n], j)
        /\ \A n \in DOMAIN vuelta : ~Usuarios!Alternan(vuelta[n].q, j)
        /\ ~(EnVuelo(UL) > 0)
    <3>1. Usuarios!EnVuelo(UL) = EnVuelo(UL)
      BY DEF Usuarios!EnVuelo, EnVuelo, Usuarios!Cardinality, Cardinality
    <3>2. UL = {"listar", "listarTodos"}
      BY DEF UL
    <3> HIDE DEF q
    <3>3. dudosa # TRUE /\ Usuarios!Toque(vista, <<q>>)
      BY <2>1 DEF q, Usuarios!Tropiezo, Usuarios!Toque
    <3> QED BY <1>1, <2>1, <3>1, <3>2, <3>3 DEF Usuarios!Tropiezo, Usuarios!Toque
  <2>3. /\ \A k \in DOMAIN ida : ida[k].op \notin UL
        /\ \A k \in DOMAIN vuelta : vuelta[k].q.op \notin UL
    BY <1>1, <2>2, NadieVuela
  <2>4. q.viva = TRUE /\ q.id = j /\ q.op = (IF vista.filas[j].activo THEN "desactivar" ELSE "reactivar")
    BY DEF Usuarios!Pedido
  <2>5. j \in DOMAIN vista.filas
    BY DEF Usuarios!Filas
  <2> HIDE DEF q
  <2> QED BY <1>1, <2>2, <2>3, <2>4, <2>5, UFielPide DEF Usuarios!Alternan, UA
<1>6. ASSUME NEW todos, /\ dudosa # TRUE \/ (ida = <<>> /\ vuelta = <<>>)
                        /\ srv' = srv /\ vuelta' = vuelta /\ ida' = ida \o Usuarios!Listar(todos)
                        /\ "filas" \in DOMAIN vista' /\ (dudosa # TRUE => vista'.filas = vista.filas)
      PROVE  UFiel(vista', srv', ida', vuelta')
  <2>1. PICK q : Usuarios!Listar(todos) = <<q>> /\ q.op \in UL /\ q.viva = TRUE
    BY UsuariosListar
  <2>2. CASE dudosa # TRUE
    BY <1>2, <1>6, <2>1, <2>2 DEF UL, UA
  <2>3. CASE ida = <<>> /\ vuelta = <<>>
    <3>1. ida' = <<q>> /\ vuelta' = <<>>
      BY <1>6, <2>1, <2>3, NadieEnReposo
    <3> QED BY <1>6, <2>1, <3>1, UFielMonta
  <2> QED BY <1>6, <2>2, <2>3
<1>7. CASE Usuarios!MostrarInactivos
  <2>1. /\ dudosa # TRUE \/ (ida = <<>> /\ vuelta = <<>>)
        /\ srv' = srv /\ vuelta' = vuelta /\ ida' = ida \o Usuarios!Listar(~vista.inactivos)
        /\ vista' = [vista EXCEPT !.inactivos = ~@, !.cargando = TRUE]
    BY <1>7 DEF Usuarios!MostrarInactivos, Usuarios!Recarga, Usuarios!EnReposo
  <2>2. "filas" \in DOMAIN vista
    BY DEF UsuariosInv
  <2> QED BY <1>6, <2>1, <2>2
<1>8. CASE Usuarios!Montar(Usuarios!VistaInicial, Usuarios!Listar(FALSE))
  <2>1. PICK q : Usuarios!Listar(FALSE) = <<q>> /\ q.op \in UL /\ q.viva = TRUE
    BY UsuariosListar
  <2>2. /\ ida' = Huerfanos(ida) \o <<q>> /\ vuelta' = HuerfanasDe(vuelta) /\ srv' = srv
        /\ ida = <<>> /\ vuelta = <<>> /\ "filas" \in DOMAIN vista'
    BY <1>8, <2>1 DEF Usuarios!Montar, Usuarios!VistaInicial, Usuarios!Huerfanos, Huerfanos,
       Usuarios!HuerfanasDe, HuerfanasDe, Usuarios!EnReposo
  <2>3. ida' = <<q>> /\ vuelta' = <<>>
    BY <2>2, NadieEnReposo
  <2> QED BY <2>1, <2>2, <2>3, UFielMonta
<1> QED BY <1>3, <1>4, <1>5, <1>7, <1>8, UFielResponde, UFielRecibe DEF Usuarios!Next

LEMMA UsuariosFielEmpieza == Usuarios!Init => UsuariosFiel
<1> SUFFICES ASSUME Usuarios!Init PROVE UFiel(vista, srv, ida, vuelta)
  BY DEF UsuariosFiel
<1>1. PICK q : Usuarios!Listar(FALSE) = <<q>> /\ q.op \in UL /\ q.viva = TRUE
  BY UsuariosListar
<1>2. ida = <<q>> /\ vuelta = <<>> /\ "filas" \in DOMAIN vista
  BY <1>1 DEF Usuarios!Init, Usuarios!PeticionesInit, Usuarios!VistaInicial
<1> QED BY <1>1, <1>2, UFielMonta

LEMMA UsuariosFielDice == UsuariosFiel /\ EnReposo /\ dudosa # TRUE => Usuarios!Mostrado
<1> SUFFICES ASSUME UFiel(vista, srv, <<>>, <<>>) PROVE Usuarios!Mostrado
  BY DEF UsuariosFiel, EnReposo
<1> DEFINE P == UBien(vista.filas, srv, <<>>, <<>>)
           Y == {srv, Activos(srv)}
<1>1. Fresca(<<>>, <<>>, UCanal, P, Y)
  BY DEF UFiel
<1> HIDE DEF P, Y
<1>2. P
  BY <1>1, FrescaEnReposo
<1>3. \A j : ~Virara(<<>>, j)
  BY SucesionUna DEF Virara
<1> QED BY <1>2, <1>3 DEF P, UBien, Usuarios!Mostrado

LEMMA UsuariosFielQuieta == UsuariosInv /\ UsuariosFiel /\ UNCHANGED vars => (UsuariosInv /\ UsuariosFiel)'
<1> SUFFICES ASSUME UsuariosInv, UsuariosFiel, UNCHANGED vars PROVE UsuariosInv' /\ UsuariosFiel'
  OBVIOUS
<1>1. UsuariosInv'
  BY DEF vars, UsuariosInv, Correo, SonPedidos, SonRespuestas, EsPedido, EsRespuesta, Sucesion
<1>2. vista' = vista /\ srv' = srv /\ ida' = ida /\ vuelta' = vuelta /\ dudosa' = dudosa
  BY DEF vars
<1>3. dudosa # TRUE => UFiel(vista, srv, ida, vuelta)
  BY DEF UsuariosFiel
<1>4. dudosa' # TRUE => UFiel(vista', srv', ida', vuelta')
  BY <1>2, <1>3
<1> QED BY <1>1, <1>4 DEF UsuariosFiel

-----------------------------------------------------------------------------
(* The products: the same switch, and a stock that the answer to an        *)
(* adjustment brings too.                                                  *)

DL == {"listar"}
DM == {"crear", "actualizar", "borrar"}
DA == {"desactivar", "reactivar"}
DS == {"sumar", "restar"}

\* A row is shown by its stock, that comes also in the answer to an adjustment, and the rest.
DCanal == Canal({"listar", "borrar"}, DM, DL, {}, <<"salvo", "stock">>)
DCanalDe(i) == Canal({"listar", "borrar"}, DM, DL, {<<"sumar", i>>, <<"restar", i>>}, <<"de", i, "stock">>)

DEsFila(r) == r = [codigo |-> r.codigo, nombre |-> r.nombre, stock |-> r.stock, activo |-> r.activo]
              /\ r.activo \in BOOLEAN
DFilas(f) == f = [i \in DOMAIN f |-> f[i]] /\ \A i \in DOMAIN f : DEsFila(f[i])
DSalvo(f) == [i \in DOMAIN f |-> [f[i] EXCEPT !.stock = Nada]]

\* A row differs from what the backend keeps while the answer to its switch is on its way,
\* and what a switch still asks for is what its row calls for.
DVirara(b, i) == \E k \in DOMAIN b : b[k].q.op \in DA /\ b[k].q.id = i
DBien(f, s, a, b) ==
    /\ DOMAIN f = DOMAIN s
    /\ \A i \in DOMAIN s : /\ f[i].codigo = s[i].codigo /\ f[i].nombre = s[i].nombre
                           /\ f[i].activo = (IF DVirara(b, i) THEN ~s[i].activo ELSE s[i].activo)
    /\ \A k \in DOMAIN a : a[k].op \in DA =>
          a[k].id \in DOMAIN f /\ a[k].op = (IF f[a[k].id].activo THEN "desactivar" ELSE "reactivar")
DBienDe(f, s, i) == i \in DOMAIN f => f[i].stock = s[i].stock

DTabla(v, s, a, b) ==
    /\ Vivas(a, b) /\ "filas" \in DOMAIN v /\ DFilas(v.filas)
    /\ Fresca(a, b, DCanal, DBien(v.filas, s, a, b), {DSalvo(s)})
    /\ Orden(a, b, DL, DA, FALSE) /\ Orden(a, b, DA, DA, TRUE)
    /\ \A k \in DOMAIN b : /\ b[k].q.op \in DA => b[k].ok = TRUE
                           /\ b[k].q.op = "listar" => b[k].ok = TRUE /\ DFilas(b[k].datos)
                           /\ b[k].ok \in BOOLEAN
DStock(v, s, a, b) ==
    \A i \in DOMAIN s : Fresca(a, b, DCanalDe(i), DBienDe(v.filas, s, i), {s[i].stock})
DFiel(v, s, a, b) == DTabla(v, s, a, b) /\ DStock(v, s, a, b)
ProductosFiel == DFilas(srv) /\ (dudosa # TRUE => DFiel(vista, srv, ida, vuelta))

LEMMA DHabla ==
    ASSUME NEW m, NEW i
    PROVE  /\ DCanal.pide = {"listar", "borrar"} /\ DCanal.relee = DM
           /\ Habla(m, DCanal) <=> m.q.op = "listar"
           /\ Dicho(m, DCanal.dato) = DSalvo(m.datos)
           /\ DCanalDe(i).pide = {"listar", "borrar"} /\ DCanalDe(i).relee = DM
           /\ Habla(m, DCanalDe(i)) <=> m.q.op = "listar" \/ (m.ok = TRUE /\ m.q.op \in DS /\ m.q.id = i)
           /\ Dicho(m, DCanalDe(i).dato) = m.datos[i].stock
<1>1. /\ DCanal.pide = {"listar", "borrar"} /\ DCanal.relee = DM
      /\ Habla(m, DCanal) <=> m.q.op = "listar"
      /\ Dicho(m, DCanal.dato) = DSalvo(m.datos)
  BY DEF DCanal, Canal, Habla, Dicho, DSalvo, DL
<1>2. /\ DCanalDe(i).pide = {"listar", "borrar"} /\ DCanalDe(i).relee = DM
      /\ Habla(m, DCanalDe(i)) <=> m.q.op = "listar" \/ (m.ok = TRUE /\ m.q.op \in DS /\ m.q.id = i)
      /\ Dicho(m, DCanalDe(i).dato) = m.datos[i].stock
  BY DEF DCanalDe, Canal, Habla, Dicho, DS, DL
<1> QED BY <1>1, <1>2

LEMMA DSalvos ==
    ASSUME NEW f, DFilas(f), NEW g, DFilas(g), DSalvo(f) = DSalvo(g)
    PROVE  /\ DOMAIN f = DOMAIN g
           /\ \A i \in DOMAIN g : f[i].codigo = g[i].codigo /\ f[i].nombre = g[i].nombre /\ f[i].activo = g[i].activo
<1>1. DOMAIN f = DOMAIN DSalvo(f) /\ DOMAIN g = DOMAIN DSalvo(g)
  BY DEF DSalvo
<1>2. ASSUME NEW i \in DOMAIN g
      PROVE  f[i].codigo = g[i].codigo /\ f[i].nombre = g[i].nombre /\ f[i].activo = g[i].activo
  <2>1. [f[i] EXCEPT !.stock = Nada] = [g[i] EXCEPT !.stock = Nada] /\ DEsFila(f[i]) /\ DEsFila(g[i])
    BY <1>1 DEF DSalvo, DFilas
  <2> QED BY <2>1 DEF DEsFila
<1> QED BY <1>1, <1>2

LEMMA DFilasCon ==
    ASSUME NEW s, DFilas(s), NEW n, NEW x, DEsFila(x), NEW t,
           t = [j \in DOMAIN s \cup {n} |-> IF j = n THEN x ELSE s[j]] \/ t = [s EXCEPT ![n] = x]
    PROVE  DFilas(t)
<1>1. CASE t = [j \in DOMAIN s \cup {n} |-> IF j = n THEN x ELSE s[j]]
  <2>1. t = [j \in DOMAIN t |-> t[j]]
    BY <1>1
  <2>2. \A j \in DOMAIN t : DEsFila(t[j])
    BY <1>1 DEF DFilas
  <2> QED BY <2>1, <2>2 DEF DFilas
<1>2. CASE t = [s EXCEPT ![n] = x]
  <2>1. t = [j \in DOMAIN s |-> IF j = n THEN x ELSE s[j]]
    BY <1>2
  <2>2. t = [j \in DOMAIN t |-> t[j]] /\ \A j \in DOMAIN t : DEsFila(t[j])
    BY <2>1 DEF DFilas
  <2> QED BY <2>2 DEF DFilas
<1> QED BY <1>1, <1>2

LEMMA DBanco ==
    ASSUME NEW s, DFilas(s), NEW q, q.op \in DO
    PROVE  DFilas(Productos!Servidor(s, q).srv)
<1> DEFINE r == Productos!Servidor(s, q)
           x == [codigo |-> q.datos, nombre |-> q.datos, stock |-> 0, activo |-> TRUE]
<1>1. \/ r.srv = s
      \/ \E n : r.srv = Productos!Poner(s, n, x)
      \/ r.srv = [s EXCEPT ![q.id].nombre = q.datos]
      \/ \E y \in BOOLEAN : r.srv = [s EXCEPT ![q.id].activo = y]
      \/ \E y : r.srv = [s EXCEPT ![q.id].stock = y]
  BY DEF DO, Productos!Servidor, Productos!Acepta, Productos!Rechaza
<1>2. DEsFila(x)
  BY DEF DEsFila
<1> HIDE DEF r, x
<1>3. CASE q.id \notin DOMAIN s /\ \A n : r.srv # Productos!Poner(s, n, x)
  <2>1. r.srv = s
    BY <1>1, <1>3 DEF DFilas
  <2> QED BY <2>1 DEF r
<1>4. ASSUME NEW n, r.srv = Productos!Poner(s, n, x) PROVE DFilas(r.srv)
  BY <1>2, <1>4, DFilasCon DEF Productos!Poner
<1>5. CASE q.id \in DOMAIN s
  <2> DEFINE z == s[q.id]
  <2>1. DEsFila(z)
    BY <1>5 DEF DFilas
  <2>2. ASSUME NEW y \in BOOLEAN PROVE DEsFila([z EXCEPT !.activo = y])
    BY <2>1 DEF DEsFila
  <2>3. ASSUME NEW y PROVE DEsFila([z EXCEPT !.stock = y]) /\ DEsFila([z EXCEPT !.nombre = y])
    BY <2>1 DEF DEsFila
  <2>4. ASSUME \E y \in BOOLEAN : r.srv = [s EXCEPT ![q.id].activo = y] PROVE DFilas(r.srv)
    <3>1. PICK y \in BOOLEAN : r.srv = [s EXCEPT ![q.id].activo = y]
      BY <2>4
    <3>2. r.srv = [s EXCEPT ![q.id] = [z EXCEPT !.activo = y]]
      BY <3>1
    <3> QED BY <2>2, <3>2, DFilasCon
  <2>5. ASSUME \E y : r.srv = [s EXCEPT ![q.id].stock = y] PROVE DFilas(r.srv)
    <3>1. PICK y : r.srv = [s EXCEPT ![q.id].stock = y]
      BY <2>5
    <3>2. r.srv = [s EXCEPT ![q.id] = [z EXCEPT !.stock = y]]
      BY <3>1
    <3> QED BY <2>3, <3>2, DFilasCon
  <2>6. ASSUME r.srv = [s EXCEPT ![q.id].nombre = q.datos] PROVE DFilas(r.srv)
    <3>1. r.srv = [s EXCEPT ![q.id] = [z EXCEPT !.nombre = q.datos]]
      BY <2>6
    <3> QED BY <2>3, <3>1, DFilasCon
  <2> HIDE DEF z
  <2>7. DFilas(r.srv)
    BY <1>1, <1>4, <2>4, <2>5, <2>6
  <2> QED BY <2>7 DEF r
<1> QED BY <1>3, <1>4, <1>5 DEF r

\* A click that leaves the rows as they are, and what it asks for.
LEMMA DFielPide ==
    ASSUME NEW v, NEW s, NEW a, NEW b, DFiel(v, s, a, b), NEW w, "filas" \in DOMAIN w, w.filas = v.filas,
           NEW q, q.viva = TRUE,
           q.op \in DA => /\ q.id \in DOMAIN v.filas
                          /\ q.op = (IF v.filas[q.id].activo THEN "desactivar" ELSE "reactivar")
                          /\ \A k \in DOMAIN a : a[k].op \notin DL /\ ~(a[k].op \in DA /\ a[k].id = q.id)
                          /\ \A k \in DOMAIN b : b[k].q.op \notin DL /\ ~(b[k].q.op \in DA /\ b[k].q.id = q.id)
    PROVE  DFiel(w, s, a \o <<q>>, b)
<1> DEFINE p == <<q>>
           u == a \o p
           P == DBien(v.filas, s, a, b)
           P1 == DBien(w.filas, s, u, b)
           Y == {DSalvo(s)}
<1>1. /\ Vivas(a, b) /\ Sucesion(a) /\ Vivas(p, <<>>) /\ Sucesion(p) /\ Salen(u, a, {q})
      /\ Fresca(a, b, DCanal, P, Y) /\ Orden(a, b, DL, DA, FALSE) /\ Orden(a, b, DA, DA, TRUE)
  BY PideUna, SalenDe DEF DFiel, DTabla, Vivas
<1>2. P => P1
  <2> HIDE DEF u
  <2> QED BY <1>1 DEF DBien, Salen
<1>3. Orden(a \o <<q>>, b, DL, DA, FALSE)
  <2>1. /\ \A k \in DOMAIN a : ~Antes(a[k], q, DL, DA, FALSE)
        /\ \A k \in DOMAIN b : ~Antes(b[k].q, q, DL, DA, FALSE)
    BY DEF Antes
  <2> QED BY <1>1, <2>1, OrdenPide
<1>4. Orden(a \o <<q>>, b, DA, DA, TRUE)
  <2>1. /\ \A k \in DOMAIN a : ~Antes(a[k], q, DA, DA, TRUE)
        /\ \A k \in DOMAIN b : ~Antes(b[k].q, q, DA, DA, TRUE)
    BY DEF Antes
  <2> QED BY <1>1, <2>1, OrdenPide
<1>5. ASSUME NEW i \in DOMAIN s PROVE Fresca(u, b, DCanalDe(i), DBienDe(w.filas, s, i), {s[i].stock})
  <2> DEFINE c == DCanalDe(i)
             Q == DBienDe(v.filas, s, i)
             Z == {s[i].stock}
  <2>1. Fresca(a, b, c, Q, Z)
    BY DEF DFiel, DStock
  <2> HIDE DEF c, Q, Z, p
  <2>2. Fresca(u, b, c, Q, Z)
    BY <1>1, <2>1, FrescaPide
  <2> QED BY <2>2 DEF c, Q, Z
<1> HIDE DEF P, P1, Y, p
<1>6. Vivas(u, b) /\ Fresca(u, b, DCanal, P1, Y)
  BY <1>1, <1>2, VivasPide, FrescaPide
<1>7. Orden(u, b, DL, DA, FALSE) /\ Orden(u, b, DA, DA, TRUE)
  BY <1>3, <1>4 DEF p
<1>8. DFiel(w, s, u, b)
  <2> HIDE DEF u
  <2> QED BY <1>5, <1>6, <1>7 DEF DFiel, DTabla, DStock, P1, Y
<1> QED BY <1>8 DEF u, p

LEMMA DFielToca ==
    ASSUME NEW v, NEW s, NEW a, NEW b, DFiel(v, s, a, b), NEW w, "filas" \in DOMAIN w, w.filas = v.filas
    PROVE  DFiel(w, s, a \o <<>>, b)
<1>1. a \o <<>> = a
  BY JuntoNada DEF DFiel, DTabla, Vivas
<1>2. DFiel(w, s, a, b)
  BY DEF DFiel, DTabla, DStock
<1> QED BY <1>1, <1>2

LEMMA DFielMonta ==
    ASSUME NEW v, NEW s, "filas" \in DOMAIN v, v.filas = <<>>, NEW q, q.viva = TRUE, q.op = "listar"
    PROVE  DFiel(v, s, <<q>>, <<>>)
<1> DEFINE P == DBien(v.filas, s, <<q>>, <<>>)
           Y == {DSalvo(s)}
<1> HIDE DEF P, Y
<1>1. Vivas(<<q>>, <<>>) /\ Hay(<<q>>, {"listar", "borrar"}) /\ DOMAIN <<>> = {}
  <2>1. Vivas(<<q>>, <<>>) /\ (Hay(<<q>>, {"listar", "borrar"}) <=> q.op \in {"listar", "borrar"})
    BY PideUna
  <2> QED BY <2>1, SucesionUna
<1>2. Orden(<<q>>, <<>>, DL, DA, FALSE) /\ Orden(<<q>>, <<>>, DA, DA, TRUE)
  BY OrdenUna
<1>3. DFilas(v.filas)
  <2>1. <<>> = [i \in DOMAIN <<>> |-> <<>>[i]] /\ DOMAIN <<>> = {}
    BY SucesionUna
  <2> QED BY <2>1 DEF DFilas
<1>4. Fresca(<<q>>, <<>>, DCanal, P, Y)
  BY <1>1, DHabla DEF Fresca
<1>5. ASSUME NEW i, NEW Q, NEW Z PROVE Fresca(<<q>>, <<>>, DCanalDe(i), Q, Z)
  BY <1>1, DHabla DEF Fresca
<1> QED BY <1>1, <1>2, <1>3, <1>4, <1>5 DEF DFiel, DTabla, DStock, P, Y

LEMMA DFielResponde ==
    ASSUME ProductosInv, ProductosFiel, NEW i, Productos!Responde(i), dudosa' # TRUE
    PROVE  DFiel(vista', srv', ida', vuelta')
<1> DEFINE q == ida[1]
           r == Productos!Servidor(srv, q)
           s1 == r.srv
           ok == r.ok
           d == r.datos
           m == [q |-> q, ok |-> ok, datos |-> d]
           f == vista.filas
           a1 == Sin(ida, 1)
           b1 == Append(vuelta, m)
<1>1. /\ 1 \in DOMAIN ida /\ srv' = s1 /\ ida' = a1 /\ vista' = vista
      /\ vuelta' = b1 /\ dudosa # TRUE
  BY DEF Productos!Responde, Productos!Atiende, Productos!Sin, Sin
<1>2. DFiel(vista, srv, ida, vuelta) /\ DFilas(srv)
  BY <1>1 DEF ProductosFiel
<1>3. q.op \in DO /\ DFilas(s1)
  <2>1. q.op \in DO
    BY <1>1 DEF ProductosInv, Correo, SonPedidos, EsPedido
  <2> QED BY <1>2, <2>1, DBanco
<1> DEFINE P == DBien(f, srv, ida, vuelta)
           P1 == DBien(f, s1, a1, b1)
           Y == {DSalvo(srv)}
           Y1 == {DSalvo(s1)}
<1>4. /\ Sucesion(ida) /\ Sucesion(vuelta) /\ Vivas(ida, vuelta) /\ Fresca(ida, vuelta, DCanal, P, Y)
      /\ Orden(ida, vuelta, DL, DA, FALSE) /\ Orden(ida, vuelta, DA, DA, TRUE)
      /\ \A k \in DOMAIN vuelta : /\ vuelta[k].q.op \in DA => vuelta[k].ok = TRUE
                                  /\ vuelta[k].q.op = "listar" => vuelta[k].ok = TRUE /\ DFilas(vuelta[k].datos)
                                  /\ vuelta[k].ok \in BOOLEAN
      /\ "filas" \in DOMAIN vista /\ DFilas(f)
      /\ \A j \in DOMAIN srv : Fresca(ida, vuelta, DCanalDe(j), DBienDe(f, srv, j), {srv[j].stock})
  BY <1>2 DEF DFiel, DTabla, DStock, Vivas
<1>5. /\ q.op = "listar" => ok = TRUE /\ s1 = srv /\ d = srv
      /\ q.op \in DM => ok = TRUE \/ s1 = srv
      /\ q.op = "borrar" => ok = TRUE
      /\ q.op = "desactivar" => ok = TRUE /\ s1 = [srv EXCEPT ![q.id].activo = FALSE]
      /\ q.op = "reactivar" => ok = TRUE /\ s1 = [srv EXCEPT ![q.id].activo = TRUE]
      /\ q.op \in DS => (ok = TRUE /\ d = s1 /\ \E y : s1 = [srv EXCEPT ![q.id].stock = y]) \/ (ok # TRUE /\ s1 = srv)
      /\ ok \in BOOLEAN
  BY <1>3 DEF Productos!Servidor, Productos!Acepta, Productos!Rechaza, DO, DM, DS
<1>6. m.q = q /\ m.ok = ok /\ m.datos = d /\ m = [q |-> ida[1], ok |-> ok, datos |-> d]
  OBVIOUS
<1>7. /\ Salen(a1, ida, {}) /\ DOMAIN b1 = 1 .. Len(vuelta) + 1 /\ Len(vuelta) \in Nat
      /\ DOMAIN vuelta = 1 .. Len(vuelta)
      /\ \A k \in 1 .. Len(vuelta) : b1[k] = vuelta[k]
      /\ b1[Len(vuelta) + 1] = m
  <2> HIDE DEF m, P, P1, Y, Y1
  <2>1. Salen(Sin(ida, 1), ida, {})
    BY <1>1, <1>4, SalenDe
  <2>2. /\ Len(vuelta) \in Nat /\ DOMAIN vuelta = 1 .. Len(vuelta)
        /\ DOMAIN Append(vuelta, m) = 1 .. Len(vuelta) + 1
        /\ \A k \in 1 .. Len(vuelta) : Append(vuelta, m)[k] = vuelta[k]
        /\ Append(vuelta, m)[Len(vuelta) + 1] = m
    BY <1>4, UnoMas
  <2> QED BY <2>1, <2>2
<1>8. Orden(a1, b1, DL, DA, FALSE) /\ Orden(a1, b1, DA, DA, TRUE)
  BY <1>1, <1>4, <1>6, OrdenToma
<1> HIDE DEF m, r, s1, ok, d, a1, b1
<1>9. Vivas(a1, b1)
  BY <1>1, <1>4, <1>6, VivasToma DEF a1, b1
<1>10. \A j : DVirara(b1, j) <=> (DVirara(vuelta, j) \/ (q.op \in DA /\ q.id = j))
  <2> TAKE j
  <2>1. DVirara(vuelta, j) => DVirara(b1, j)
    BY <1>7 DEF DVirara
  <2>2. q.op \in DA /\ q.id = j => DVirara(b1, j)
    <3>1. Len(vuelta) + 1 \in DOMAIN b1
      BY <1>7
    <3> QED BY <1>6, <1>7, <3>1 DEF DVirara
  <2>3. DVirara(b1, j) => DVirara(vuelta, j) \/ (q.op \in DA /\ q.id = j)
    <3>1. \A k \in DOMAIN b1 : k \in DOMAIN vuelta \/ k = Len(vuelta) + 1
      BY <1>7
    <3> QED BY <1>6, <1>7, <3>1 DEF DVirara
  <2> QED BY <2>1, <2>2, <2>3
<1>11. \A k \in DOMAIN b1 : /\ b1[k].q.op \in DA => b1[k].ok = TRUE
                            /\ b1[k].q.op = "listar" => b1[k].ok = TRUE /\ DFilas(b1[k].datos)
                            /\ b1[k].ok \in BOOLEAN
  <2>1. \A k \in DOMAIN b1 : k \in DOMAIN vuelta \/ k = Len(vuelta) + 1
    BY <1>7
  <2>2. (m.q.op \in DA => m.ok = TRUE) /\ m.ok \in BOOLEAN /\ (m.q.op = "listar" => m.ok = TRUE /\ DFilas(m.datos))
    BY <1>2, <1>5, <1>6 DEF DA
  <2> QED BY <1>4, <1>7, <2>1, <2>2
<1>12. /\ (Habla(m, DCanal) <=> q.op = "listar") /\ Dicho(m, DCanal.dato) = DSalvo(d)
       /\ DCanal.pide = {"listar", "borrar"} /\ DCanal.relee = DM
  BY <1>6, DHabla
<1>13. Fresca(a1, b1, DCanal, P1, Y1)
  <2>1. CASE q.op = "listar"
    <3>1. Dicho(m, DCanal.dato) \in Y1 /\ Habla(m, DCanal)
      BY <1>5, <1>12, <2>1
    <3>2. m = [q |-> ida[1], ok |-> TRUE, datos |-> d]
      BY <1>5, <1>6, <2>1
    <3> HIDE DEF P1, Y1
    <3> QED BY <1>1, <1>4, <3>1, <3>2, TomaDice DEF a1, b1
  <2>2. CASE q.op \in DM /\ ok = TRUE
    <3> HIDE DEF P1, Y1
    <3> QED BY <1>1, <1>4, <1>6, <1>12, <2>2, TomaCambia DEF a1, b1
  <2>3. CASE q.op \in DM \cup DS /\ s1 = srv /\ ~(q.op \in DM /\ ok = TRUE)
    <3>1. P => P1
      BY <1>7, <1>10, <2>3 DEF DBien, Salen, DM, DS, DA
    <3>2. Y \subseteq Y1
      BY <2>3
    <3>3. q.op \notin DCanal.pide /\ ~Habla(m, DCanal)
      BY <1>5, <1>12, <2>3 DEF DM, DS
    <3> HIDE DEF P, P1, Y, Y1
    <3> QED BY <1>1, <1>4, <1>6, <1>12, <3>1, <3>2, <3>3, TomaSigue DEF a1, b1
  <2>4. CASE q.op \in DS /\ \E y : s1 = [srv EXCEPT ![q.id].stock = y]
    <3>1. PICK y : s1 = [srv EXCEPT ![q.id].stock = y]
      BY <2>4
    <3>2. /\ DOMAIN s1 = DOMAIN srv
          /\ \A j \in DOMAIN srv : s1[j] = srv[j] \/ s1[j] = [srv[j] EXCEPT !.stock = y]
      BY <3>1
    <3>3. ASSUME NEW j \in DOMAIN srv
          PROVE  /\ s1[j].codigo = srv[j].codigo /\ s1[j].nombre = srv[j].nombre
                 /\ s1[j].activo = srv[j].activo
                 /\ [s1[j] EXCEPT !.stock = Nada] = [srv[j] EXCEPT !.stock = Nada]
      <4>1. DEsFila(srv[j])
        BY <1>2 DEF DFilas
      <4> QED BY <3>2, <4>1 DEF DEsFila
    <3>4. DSalvo(s1) = DSalvo(srv)
      BY <3>2, <3>3 DEF DSalvo
    <3>5. P => P1
      BY <1>7, <1>10, <2>4, <3>2, <3>3 DEF DBien, Salen, DS, DA
    <3>6. Y \subseteq Y1
      BY <3>4
    <3>7. q.op \notin DCanal.pide /\ ~Habla(m, DCanal)
      BY <1>12, <2>4 DEF DS
    <3> HIDE DEF P, P1, Y, Y1
    <3> QED BY <1>1, <1>4, <1>6, <1>12, <3>5, <3>6, <3>7, TomaSigue DEF a1, b1
  <2>5. CASE q.op \in DA
    <3>1. \A k \in DOMAIN vuelta : ~Habla(vuelta[k], DCanal)
      BY <1>1, <1>4, <2>5, DHabla DEF Orden, Antes, DL
    <3>2. P => P1
      <4> SUFFICES ASSUME P PROVE P1
        OBVIOUS
      <4>1. q.id \in DOMAIN f /\ q.op = (IF f[q.id].activo THEN "desactivar" ELSE "reactivar")
        BY <1>1, <2>5 DEF DBien
      <4>2. ~DVirara(vuelta, q.id)
        BY <1>1, <1>4, <2>5 DEF Orden, Antes, DVirara
      <4>3. q.id \in DOMAIN srv /\ f[q.id].activo = srv[q.id].activo /\ DEsFila(srv[q.id]) /\ DOMAIN f = DOMAIN srv
        BY <1>2, <4>1, <4>2 DEF DBien, DFilas
      <4>4. s1 = [srv EXCEPT ![q.id].activo = ~srv[q.id].activo]
        BY <1>5, <2>5, <4>1, <4>3 DEF DA, DEsFila
      <4>5. /\ DOMAIN s1 = DOMAIN srv
            /\ \A j \in DOMAIN srv : j # q.id => s1[j] = srv[j]
            /\ s1[q.id] = [srv[q.id] EXCEPT !.activo = ~srv[q.id].activo]
        BY <4>3, <4>4
      <4>6. /\ s1[q.id].codigo = srv[q.id].codigo /\ s1[q.id].nombre = srv[q.id].nombre
            /\ s1[q.id].activo = ~srv[q.id].activo /\ srv[q.id].activo = ~s1[q.id].activo
        BY <4>3, <4>5 DEF DEsFila
      <4>7. \A j \in DOMAIN s1 : /\ f[j].codigo = s1[j].codigo /\ f[j].nombre = s1[j].nombre
                                 /\ f[j].activo = (IF DVirara(b1, j) THEN ~s1[j].activo ELSE s1[j].activo)
        <5> TAKE j \in DOMAIN s1
        <5>1. /\ j \in DOMAIN srv /\ f[j].codigo = srv[j].codigo /\ f[j].nombre = srv[j].nombre
              /\ f[j].activo = (IF DVirara(vuelta, j) THEN ~srv[j].activo ELSE srv[j].activo)
          BY <4>5 DEF DBien
        <5>2. CASE j = q.id
          BY <1>10, <2>5, <4>2, <4>6, <5>1, <5>2
        <5>3. CASE j # q.id
          <6>1. s1[j] = srv[j] /\ (DVirara(b1, j) <=> DVirara(vuelta, j))
            BY <1>10, <4>5, <5>1, <5>3
          <6> QED BY <5>1, <6>1
        <5> QED BY <5>2, <5>3
      <4>8. \A k \in DOMAIN a1 : a1[k].op \in DA =>
              a1[k].id \in DOMAIN f /\ a1[k].op = (IF f[a1[k].id].activo THEN "desactivar" ELSE "reactivar")
        BY <1>7 DEF DBien, Salen
      <4> QED BY <4>3, <4>5, <4>7, <4>8 DEF DBien
    <3>3. q.op \notin DCanal.pide /\ ~Habla(m, DCanal)
      BY <1>12, <2>5 DEF DA
    <3> HIDE DEF P, P1, Y, Y1
    <3>4. Fresca(ida, vuelta, DCanal, P, Y1) /\ Y1 \subseteq Y1
      BY <1>4, <3>1, FrescaCalla
    <3> QED BY <1>1, <1>4, <1>6, <1>12, <3>2, <3>3, <3>4, TomaSigue DEF a1, b1
  <2> QED BY <1>3, <1>5, <2>1, <2>2, <2>3, <2>4, <2>5 DEF DO, DM, DA, DS
<1>14. ASSUME NEW j \in DOMAIN s1 PROVE Fresca(a1, b1, DCanalDe(j), DBienDe(f, s1, j), {s1[j].stock})
  <2> DEFINE c == DCanalDe(j)
             Q == DBienDe(f, srv, j)
             Q1 == DBienDe(f, s1, j)
             Z == {srv[j].stock}
             Z1 == {s1[j].stock}
             propia == ok = TRUE /\ q.op \in DS /\ q.id = j
  <2>1. /\ (Habla(m, c) <=> q.op = "listar" \/ propia) /\ Dicho(m, c.dato) = d[j].stock
        /\ c.pide = {"listar", "borrar"} /\ c.relee = DM
    <3>1. /\ Habla(m, DCanalDe(j)) <=> m.q.op = "listar" \/ (m.ok = TRUE /\ m.q.op \in DS /\ m.q.id = j)
          /\ Dicho(m, DCanalDe(j).dato) = m.datos[j].stock
          /\ DCanalDe(j).pide = {"listar", "borrar"} /\ DCanalDe(j).relee = DM
      BY DHabla
    <3> QED BY <1>6, <3>1
  <2>2. CASE q.op = "listar" \/ propia
    <3>1. ok = TRUE /\ d[j].stock = s1[j].stock
      BY <1>5, <2>2
    <3>2. m = [q |-> ida[1], ok |-> TRUE, datos |-> d] /\ Habla(m, c) /\ Dicho(m, c.dato) \in Z1
      BY <1>6, <2>1, <2>2, <3>1
    <3> HIDE DEF c, Q1, Z1
    <3>3. Fresca(a1, b1, c, Q1, Z1)
      BY <1>1, <1>4, <3>2, TomaDice DEF a1, b1
    <3> QED BY <3>3 DEF c, Q1, Z1
  <2>3. CASE q.op \in DM /\ ok = TRUE
    <3>1. q.op \in c.relee /\ m = [q |-> ida[1], ok |-> TRUE, datos |-> d]
      BY <1>6, <2>1, <2>3
    <3> HIDE DEF c, Q1, Z1
    <3>2. Fresca(a1, b1, c, Q1, Z1)
      BY <1>1, <1>4, <3>1, TomaCambia DEF a1, b1
    <3> QED BY <3>2 DEF c, Q1, Z1
  <2>4. CASE q.op \in DM \cup DS \cup DA /\ ~propia /\ ~(q.op \in DM /\ ok = TRUE)
    <3>1. j \in DOMAIN srv /\ s1[j].stock = srv[j].stock
      <4>1. \/ s1 = srv
            \/ \E y : s1 = [srv EXCEPT ![q.id].activo = y]
            \/ q.id # j /\ \E y : s1 = [srv EXCEPT ![q.id].stock = y]
        BY <1>5, <2>4 DEF DA
      <4>2. j \in DOMAIN srv /\ (DEsFila(srv[j]))
        BY <1>2, <4>1 DEF DFilas
      <4>3. ASSUME NEW y, s1 = [srv EXCEPT ![q.id].activo = y] PROVE s1[j].stock = srv[j].stock
        <5>1. s1[j] = srv[j] \/ s1[j] = [srv[j] EXCEPT !.activo = y]
          BY <4>2, <4>3
        <5> QED BY <4>2, <5>1 DEF DEsFila
      <4>4. ASSUME NEW y, s1 = [srv EXCEPT ![q.id].stock = y], q.id # j PROVE s1[j].stock = srv[j].stock
        BY <4>2, <4>4
      <4> QED BY <4>1, <4>2, <4>3, <4>4
    <3>2. (Q => Q1) /\ Z \subseteq Z1 /\ Fresca(ida, vuelta, c, Q, Z)
      BY <1>4, <3>1 DEF DBienDe
    <3>3. q.op \notin c.pide /\ ~Habla(m, c)
      <4> HIDE DEF c
      <4> QED BY <1>5, <2>1, <2>4 DEF DM, DS, DA
    <3> HIDE DEF c, Q, Q1, Z, Z1
    <3>4. Fresca(a1, b1, c, Q1, Z1)
      BY <1>1, <1>4, <1>6, <3>2, <3>3, TomaSigue DEF a1, b1
    <3> QED BY <3>4 DEF c, Q1, Z1
  <2> QED BY <1>3, <2>2, <2>3, <2>4 DEF DO, DM, DA, DS
<1>15. DTabla(vista, s1, a1, b1)
  BY <1>4, <1>8, <1>9, <1>11, <1>13 DEF DTabla
<1> QED BY <1>1, <1>14, <1>15 DEF DFiel, DStock

LEMMA DBorra ==
    ASSUME NEW S
    PROVE  \E q : Productos!BorrarDesde(S) = <<q>> /\ q.op \in {"listar", "borrar"} /\ q.viva = TRUE
<1> DEFINE x == CHOOSE y \in S : \A z \in S : y <= z
           l == Productos!Tras(Productos!Pedido("listar", Productos!Nadie, Nada), "borrar")
           n == Productos!Pedido("borrar", x, S \ {x})
<1>1. l.op = "listar" /\ l.viva = TRUE /\ n.op = "borrar" /\ n.viva = TRUE
  BY DEF Productos!Tras, Productos!Pedido
<1>2. Productos!BorrarDesde(S) = <<l>> \/ Productos!BorrarDesde(S) = <<n>>
  BY DEF Productos!BorrarDesde
<1> HIDE DEF l, n
<1> QED BY <1>1, <1>2

LEMMA DListar == \E q : Productos!Listar = <<q>> /\ q.op = "listar" /\ q.viva = TRUE
<1> DEFINE q == Productos!Pedido("listar", Productos!Nadie, Nada)
<1>1. Productos!Listar = <<q>> /\ q.op = "listar" /\ q.viva = TRUE
  BY DEF Productos!Listar, Productos!Pedido
<1> HIDE DEF q
<1> QED BY <1>1

LEMMA DFielRecibe ==
    ASSUME ProductosInv, ProductosFiel, NEW i, Productos!Recibe(i), dudosa' # TRUE
    PROVE  DFiel(vista', srv', ida', vuelta')
<1> DEFINE m == vuelta[1]
           r == Productos!Recibir(m)
           p == r.pide
           f == vista.filas
           g == r.vista.filas
           b1 == Sin(vuelta, 1)
           u == ida \o p
<1>1. i = 1 /\ dudosa # TRUE /\ 1 \in DOMAIN vuelta /\ m.q.op \in DO
  <2>1. i \in DOMAIN vuelta /\ vuelta[i].q.op \in DO
    BY DEF Productos!Recibe, Productos!Llega, ProductosInv, Correo, SonRespuestas, EsRespuesta, EsPedido
  <2>2. Productos!Recibir(vuelta[i]).va = FALSE
    BY <2>1 DEF DO, Productos!Recibir, Productos!Queda, Productos!Pide
  <2>3. i = 1 /\ dudosa # TRUE
    BY <2>2 DEF Productos!Recibe, Productos!Llega
  <2> QED BY <2>1, <2>3
<1> DEFINE P == DBien(f, srv, ida, vuelta)
           P1 == DBien(g, srv, u, b1)
           Y == {DSalvo(srv)}
<1>2. /\ Sucesion(ida) /\ Sucesion(vuelta) /\ Vivas(ida, vuelta) /\ Fresca(ida, vuelta, DCanal, P, Y)
      /\ Orden(ida, vuelta, DL, DA, FALSE) /\ Orden(ida, vuelta, DA, DA, TRUE)
      /\ \A k \in DOMAIN vuelta : /\ vuelta[k].q.op \in DA => vuelta[k].ok = TRUE
                                  /\ vuelta[k].q.op = "listar" => vuelta[k].ok = TRUE /\ DFilas(vuelta[k].datos)
                                  /\ vuelta[k].ok \in BOOLEAN
      /\ "filas" \in DOMAIN vista /\ m.q.viva = TRUE /\ DFilas(f) /\ DFilas(srv)
      /\ \A j \in DOMAIN srv : Fresca(ida, vuelta, DCanalDe(j), DBienDe(f, srv, j), {srv[j].stock})
  BY <1>1 DEF ProductosFiel, DFiel, DTabla, DStock, Vivas
<1> DEFINE con == [j \in DOMAIN f |-> IF j = m.q.id THEN [f[j] EXCEPT !.stock = m.datos[j].stock] ELSE f[j]]
<1>3. /\ r.va = FALSE /\ "filas" \in DOMAIN r.vista
      /\ m.q.op = "listar" => p = <<>> /\ (m.ok = TRUE => g = m.datos)
      /\ m.q.op \in {"crear", "actualizar"} /\ m.ok = TRUE => p = Productos!Listar /\ g = f
      /\ m.q.op \in {"crear", "actualizar"} /\ m.ok # TRUE => p = <<>> /\ g = f
      /\ m.q.op = "borrar" => p = Productos!BorrarDesde(m.q.datos) /\ g = f
      /\ m.q.op \in DA => p = <<>>
      /\ m.q.op \in DA /\ m.ok = TRUE /\ m.q.id \in DOMAIN f => g = [f EXCEPT ![m.q.id].activo = ~@]
      /\ m.q.op \in DA /\ m.q.id \notin DOMAIN f => g = f
      /\ m.q.op \in DS => p = <<>>
      /\ m.q.op \in DS /\ m.ok # TRUE => g = f
      /\ m.q.op \in DS /\ m.ok = TRUE => g = con
  BY <1>1, <1>2 DEF DO, DS, DA, Productos!Recibir, Productos!Queda, Productos!Pide
<1>4. /\ vista' = r.vista /\ srv' = srv /\ ida' = u /\ vuelta' = b1
  BY <1>1, <1>2, <1>3 DEF Productos!Recibe, Productos!Llega, Productos!Sin, Sin
<1>5. /\ m.q.op \in DA => m.ok = TRUE
      /\ m.q.op = "listar" => m.ok = TRUE /\ DFilas(m.datos)
  BY <1>1, <1>2
<1>6. \/ p = <<>> /\ u = ida
      \/ g = f /\ \E q : p = <<q>> /\ q.op \in {"listar", "borrar"} /\ q.viva = TRUE
  <2>1. ida \o <<>> = ida
    BY <1>2, JuntoNada
  <2>2. p = <<>> => u = ida
    BY <2>1
  <2> HIDE DEF p, m, u, r
  <2> QED BY <1>1, <1>3, <2>2, DBorra, DListar DEF DO, DA, DS
<1>7. (m.q.op \in DM /\ m.ok = TRUE) \/ m.q.op = "borrar" => \E q : p = <<q>>
  <2> HIDE DEF p, m, u, r
  <2> QED BY <1>3, DBorra, DListar DEF DM
<1> HIDE DEF p, r, u, m, b1
<1>8. /\ Orden(ida, b1, DL, DA, FALSE) /\ Orden(ida, b1, DA, DA, TRUE)
      /\ \A k \in DOMAIN ida : ~Antes(m.q, ida[k], DL, DA, FALSE)
      /\ \A k \in DOMAIN b1 : ~Antes(m.q, b1[k].q, DL, DA, FALSE) /\ ~Antes(m.q, b1[k].q, DA, DA, TRUE)
  BY <1>1, <1>2, OrdenLlega DEF m, b1
<1>9. Salen(b1, vuelta, {}) /\ (\A k \in DOMAIN vuelta : vuelta[k] = m \/ \E j \in DOMAIN b1 : b1[j] = vuelta[k])
  <2>1. /\ Len(vuelta) \in Nat \ {0} /\ DOMAIN vuelta = 1 .. Len(vuelta) /\ DOMAIN b1 = 1 .. Len(vuelta) - 1
        /\ \A k \in 1 .. Len(vuelta) - 1 : b1[k] = vuelta[k + 1]
    BY <1>1, <1>2, PrimeroSale DEF b1
  <2>2. ASSUME NEW k \in DOMAIN vuelta, k # 1 PROVE \E j \in DOMAIN b1 : b1[j] = vuelta[k]
    <3>1. k - 1 \in DOMAIN b1 /\ b1[k - 1] = vuelta[k]
      BY <2>1, <2>2
    <3> QED BY <3>1
  <2>3. Salen(b1, vuelta, {})
    BY <1>1, <1>2, SalenDe DEF b1
  <2> QED BY <2>2, <2>3 DEF m
<1>10. \A k \in DOMAIN b1 : /\ b1[k].q.op \in DA => b1[k].ok = TRUE
                            /\ b1[k].q.op = "listar" => b1[k].ok = TRUE /\ DFilas(b1[k].datos)
                            /\ b1[k].ok \in BOOLEAN
  BY <1>2, <1>9 DEF Salen
<1>11. ~(DVirara(b1, m.q.id) /\ m.q.op \in DA)
  BY <1>8 DEF Antes, DVirara
<1>12. \A j : DVirara(vuelta, j) <=> (DVirara(b1, j) \/ (m.q.op \in DA /\ m.q.id = j))
  BY <1>1, <1>9 DEF DVirara, Salen, m
<1>13. CASE p = <<>>
  <2>1. u = ida /\ Vivas(p, <<>>) /\ Sucesion(p) /\ ~(m.q.op \in DM /\ m.ok = TRUE) /\ m.q.op # "borrar"
    <3>1. \A q : <<q>> # <<>>
      OBVIOUS
    <3> QED BY <1>6, <1>7, <1>13, <3>1, PideNada
  <2>2. \/ m.q.op = "listar" /\ g = m.datos
        \/ m.q.op \notin DA \cup {"listar"} /\ ~(m.q.op \in DS /\ m.ok = TRUE) /\ g = f
        \/ m.q.op \in DS /\ m.ok = TRUE /\ g = con
        \/ m.q.op \in DA /\ (IF m.q.id \in DOMAIN f THEN g = [f EXCEPT ![m.q.id].activo = ~@] ELSE g = f)
    BY <1>1, <1>3, <1>5, <2>1 DEF DO, DM, DA, DS
  <2>3. ASSUME m.q.op \in DS, g = con
        PROVE  /\ DFilas(g) /\ DOMAIN g = DOMAIN f
               /\ \A j \in DOMAIN f : /\ g[j].codigo = f[j].codigo /\ g[j].nombre = f[j].nombre /\ g[j].activo = f[j].activo
                                     /\ g[j].stock = (IF j = m.q.id THEN m.datos[j].stock ELSE f[j].stock)
    <3>1. DOMAIN g = DOMAIN f /\ g = [j \in DOMAIN g |-> g[j]]
      BY <2>3
    <3>2. ASSUME NEW j \in DOMAIN f
          PROVE  /\ DEsFila(g[j])
                 /\ g[j].codigo = f[j].codigo /\ g[j].nombre = f[j].nombre /\ g[j].activo = f[j].activo
                 /\ g[j].stock = (IF j = m.q.id THEN m.datos[j].stock ELSE f[j].stock)
      <4> DEFINE x == f[j]
                 y == m.datos[j].stock
      <4>1. DEsFila(x)
        BY <1>2 DEF DFilas
      <4>2. g[j] = IF j = m.q.id THEN [x EXCEPT !.stock = y] ELSE x
        BY <2>3
      <4> HIDE DEF x, y
      <4>3. /\ DEsFila(g[j])
            /\ g[j].codigo = x.codigo /\ g[j].nombre = x.nombre /\ g[j].activo = x.activo
            /\ g[j].stock = (IF j = m.q.id THEN y ELSE x.stock)
        BY <4>1, <4>2 DEF DEsFila
      <4> QED BY <4>3 DEF x, y
    <3> QED BY <3>1, <3>2 DEF DFilas
  <2>4. ASSUME m.q.op \in DA, m.q.id \in DOMAIN f, g = [f EXCEPT ![m.q.id].activo = ~@]
        PROVE  /\ DFilas(g) /\ DOMAIN g = DOMAIN f
               /\ \A j \in DOMAIN f : /\ g[j].codigo = f[j].codigo /\ g[j].nombre = f[j].nombre /\ g[j].stock = f[j].stock
                                     /\ g[j].activo = (IF j = m.q.id THEN ~f[j].activo ELSE f[j].activo)
    <3> DEFINE n == m.q.id
               x == f[n]
               y == [x EXCEPT !.activo = ~x.activo]
    <3>1. DEsFila(x) /\ g = [f EXCEPT ![n] = y]
      BY <1>2, <2>4 DEF DFilas
    <3>2. DEsFila(y) /\ y.codigo = x.codigo /\ y.nombre = x.nombre /\ y.stock = x.stock /\ y.activo = ~x.activo
      BY <3>1 DEF DEsFila
    <3> HIDE DEF y
    <3>3. DFilas(g)
      BY <1>2, <3>1, <3>2, DFilasCon
    <3>4. DOMAIN g = DOMAIN f /\ g[n] = y /\ \A j \in DOMAIN f : j # n => g[j] = f[j]
      BY <2>4, <3>1
    <3> QED BY <3>2, <3>3, <3>4
  <2>5. DFilas(g)
    BY <1>2, <1>5, <2>2, <2>3, <2>4
  <2>6. m.q.op = "listar" /\ DSalvo(m.datos) \in Y => P1
    <3> SUFFICES ASSUME m.q.op = "listar", DSalvo(m.datos) \in Y PROVE P1
      OBVIOUS
    <3>1. /\ \A k \in DOMAIN ida : ida[k].op \notin DA
          /\ \A k \in DOMAIN b1 : b1[k].q.op \notin DA
      BY <1>8 DEF Antes, DL
    <3>2. \A j : ~DVirara(b1, j)
      BY <3>1 DEF DVirara
    <3>3. g = m.datos /\ DSalvo(g) = DSalvo(srv)
      BY <1>3, <1>5
    <3>4. /\ DOMAIN g = DOMAIN srv
          /\ \A j \in DOMAIN srv : g[j].codigo = srv[j].codigo /\ g[j].nombre = srv[j].nombre /\ g[j].activo = srv[j].activo
      <4> HIDE DEF g
      <4> QED BY <1>2, <2>5, <3>3, DSalvos
    <3> QED BY <2>1, <3>1, <3>2, <3>4 DEF DBien
  <2>7. m.q.op # "listar" /\ P => P1
    <3> SUFFICES ASSUME m.q.op # "listar", P PROVE P1
      OBVIOUS
    <3>1. CASE g = f /\ m.q.op \notin DA
      <4>1. \A j : DVirara(vuelta, j) <=> DVirara(b1, j)
        BY <1>12, <3>1
      <4> QED BY <2>1, <3>1, <4>1 DEF DBien
    <3>2. CASE m.q.op \in DS /\ g = con
      <4>1. \A j : DVirara(vuelta, j) <=> DVirara(b1, j)
        BY <1>12, <3>2 DEF DA, DS
      <4> HIDE DEF g, con
      <4> QED BY <2>1, <2>3, <3>2, <4>1 DEF DBien
    <3>3. CASE m.q.op \in DA
      <4> DEFINE n == m.q.id
      <4>1. ~DVirara(b1, n) /\ DVirara(vuelta, n)
        BY <1>11, <1>12, <3>3
      <4>2. CASE n \notin DOMAIN f
        BY <1>12, <2>1, <2>2, <3>3, <4>2 DEF DBien, DA, DS
      <4>3. CASE n \in DOMAIN f
        <5>1. n \in DOMAIN srv /\ f[n].activo = ~srv[n].activo /\ DEsFila(srv[n]) /\ DOMAIN f = DOMAIN srv
          BY <1>2, <4>1, <4>3 DEF DBien, DFilas
        <5>2. /\ DOMAIN g = DOMAIN f
              /\ \A j \in DOMAIN f : /\ g[j].codigo = f[j].codigo /\ g[j].nombre = f[j].nombre
                                    /\ g[j].activo = (IF j = n THEN ~f[j].activo ELSE f[j].activo)
          BY <2>2, <2>4, <3>3, <4>3 DEF DA, DS
        <5>3. srv[n].activo = (~f[n].activo)
          BY <5>1 DEF DEsFila
        <5> HIDE DEF g
        <5>4. ASSUME NEW j \in DOMAIN srv
              PROVE  /\ g[j].codigo = srv[j].codigo /\ g[j].nombre = srv[j].nombre
                     /\ g[j].activo = (IF DVirara(b1, j) THEN ~srv[j].activo ELSE srv[j].activo)
          <6>1. /\ f[j].codigo = srv[j].codigo /\ f[j].nombre = srv[j].nombre
                /\ f[j].activo = (IF DVirara(vuelta, j) THEN ~srv[j].activo ELSE srv[j].activo)
            BY DEF DBien
          <6>2. CASE j = n
            <7>1. g[n].codigo = f[n].codigo /\ g[n].nombre = f[n].nombre /\ g[n].activo = ~f[n].activo
              BY <4>3, <5>2
            <7>2. g[n].activo = srv[n].activo
              BY <5>3, <7>1
            <7> HIDE DEF f
            <7> QED BY <4>1, <6>1, <6>2, <7>1, <7>2
          <6>3. CASE j # n
            <7>1. DVirara(b1, j) <=> DVirara(vuelta, j)
              BY <1>12, <6>3
            <7> QED BY <5>1, <5>2, <6>1, <6>3, <7>1
          <6> QED BY <6>2, <6>3
        <5>5. \A k \in DOMAIN ida : ida[k].op \in DA =>
                ida[k].id \in DOMAIN g /\ ida[k].op = (IF g[ida[k].id].activo THEN "desactivar" ELSE "reactivar")
          <6>1. \A k \in DOMAIN ida : ida[k].op \in DA => ida[k].id # n
            BY <1>1, <1>2, <3>3 DEF Orden, Antes, m
          <6> QED BY <5>2, <6>1 DEF DBien
        <5> QED BY <2>1, <5>1, <5>2, <5>4, <5>5 DEF DBien
      <4> QED BY <4>2, <4>3
    <3> QED BY <2>2, <3>1, <3>2, <3>3
  <2>8. /\ (Habla(m, DCanal) <=> m.q.op = "listar") /\ Dicho(m, DCanal.dato) = DSalvo(m.datos)
        /\ DCanal.relee = DM
    BY DHabla
  <2>9. Fresca(u, b1, DCanal, P1, Y)
    <3> HIDE DEF P, P1, Y
    <3> QED BY <1>1, <1>2, <2>1, <2>6, <2>7, <2>8, FrescaRecibe DEF u, b1, m
  <2>10. Vivas(u, b1)
    BY <1>1, <1>2, <2>1, VivasLlega DEF u, b1
  <2>11. ASSUME NEW j \in DOMAIN srv PROVE Fresca(u, b1, DCanalDe(j), DBienDe(g, srv, j), {srv[j].stock})
    <3> DEFINE c == DCanalDe(j)
               Q == DBienDe(f, srv, j)
               Q1 == DBienDe(g, srv, j)
               Z == {srv[j].stock}
    <3>1. /\ Habla(m, c) <=> m.q.op = "listar" \/ (m.ok = TRUE /\ m.q.op \in DS /\ m.q.id = j)
          /\ Dicho(m, c.dato) = m.datos[j].stock /\ c.relee = DM
      BY DHabla
    <3>2. Habla(m, c) /\ Dicho(m, c.dato) \in Z => Q1
      <4> SUFFICES ASSUME Habla(m, c), m.datos[j].stock = srv[j].stock, j \in DOMAIN g PROVE g[j].stock = srv[j].stock
        BY <3>1 DEF DBienDe
      <4>1. CASE m.q.op = "listar"
        BY <1>3, <1>5, <4>1
      <4>2. CASE m.ok = TRUE /\ m.q.op \in DS /\ m.q.id = j
        <5>1. g = con
          BY <1>3, <4>2
        <5> HIDE DEF g, con
        <5> QED BY <2>3, <4>2, <5>1
      <4> QED BY <3>1, <4>1, <4>2
    <3>3. ~Habla(m, c) /\ Q => Q1
      <4> SUFFICES ASSUME ~Habla(m, c), Q, j \in DOMAIN g PROVE g[j].stock = srv[j].stock
        BY DEF DBienDe
      <4>1. m.q.op # "listar" /\ ~(m.ok = TRUE /\ m.q.op \in DS /\ m.q.id = j)
        BY <3>1
      <4>2. CASE g = f
        BY <4>2 DEF DBienDe
      <4>3. CASE m.q.op \in DS /\ m.ok = TRUE /\ g = con
        <5>1. j # m.q.id
          BY <4>1, <4>3
        <5> HIDE DEF g, con
        <5> QED BY <2>3, <4>3, <5>1 DEF DBienDe
      <4>4. CASE m.q.op \in DA /\ m.q.id \in DOMAIN f
        <5>1. g = [f EXCEPT ![m.q.id].activo = ~@]
          BY <2>2, <4>4 DEF DA, DS
        <5>2. DOMAIN g = DOMAIN f /\ \A k \in DOMAIN f : g[k].stock = f[k].stock
          BY <2>4, <4>4, <5>1
        <5> HIDE DEF g
        <5> QED BY <5>2 DEF DBienDe
      <4> QED BY <2>2, <4>1, <4>2, <4>3, <4>4
    <3> HIDE DEF c, Q, Q1, Z
    <3>4. Fresca(ida, vuelta, c, Q, Z)
      BY <1>2 DEF c, Q, Z
    <3>5. Fresca(u, b1, c, Q1, Z)
      BY <1>1, <1>2, <2>1, <3>1, <3>2, <3>3, <3>4, FrescaRecibe DEF u, b1, m
    <3> QED BY <3>5 DEF c, Q1, Z
  <2>12. Orden(u, b1, DL, DA, FALSE) /\ Orden(u, b1, DA, DA, TRUE)
    BY <1>8, <2>1
  <2>13. DTabla(r.vista, srv, u, b1)
    <3> HIDE DEF P
    <3> QED BY <1>3, <1>10, <2>5, <2>9, <2>10, <2>12 DEF DTabla
  <2>14. DStock(r.vista, srv, u, b1)
    BY <2>11 DEF DStock
  <2> QED BY <1>4, <2>13, <2>14 DEF DFiel
<1>14. ASSUME NEW q, p = <<q>>, q.op \in {"listar", "borrar"}, q.viva = TRUE, g = f
       PROVE  DFiel(vista', srv', ida', vuelta')
  <2>1. Hay(p, {"listar", "borrar"}) /\ DCanal.pide = {"listar", "borrar"} /\ Vivas(p, <<>>) /\ Sucesion(p)
    BY <1>14, PideUna, DHabla
  <2>2. Vivas(ida, b1) /\ Vivas(u, b1)
    BY <1>1, <1>2, <2>1, VivasLlega, VivasNada DEF u, b1, Vivas
  <2>3. Fresca(u, b1, DCanal, P1, Y)
    <3> HIDE DEF P1, Y
    <3> QED BY <1>2, <2>1, FrescaPidiendo DEF u
  <2>4. /\ \A k \in DOMAIN ida : ~Antes(ida[k], q, DL, DA, FALSE) /\ ~Antes(ida[k], q, DA, DA, TRUE)
        /\ \A k \in DOMAIN b1 : ~Antes(b1[k].q, q, DL, DA, FALSE) /\ ~Antes(b1[k].q, q, DA, DA, TRUE)
    BY <1>14 DEF Antes, DA
  <2>5. Orden(ida \o <<q>>, b1, DL, DA, FALSE) /\ Orden(ida \o <<q>>, b1, DA, DA, TRUE)
    BY <1>8, <2>2, <2>4, OrdenPide
  <2>6. Orden(u, b1, DL, DA, FALSE) /\ Orden(u, b1, DA, DA, TRUE)
    BY <1>14, <2>5 DEF u
  <2>7. ASSUME NEW j, NEW Q, NEW Z PROVE Fresca(u, b1, DCanalDe(j), Q, Z)
    <3> DEFINE c == DCanalDe(j)
    <3>1. c.pide = {"listar", "borrar"}
      BY DHabla
    <3> HIDE DEF c
    <3>2. Fresca(u, b1, c, Q, Z)
      BY <1>2, <2>1, <3>1, FrescaPidiendo DEF u
    <3> QED BY <3>2 DEF c
  <2>8. DTabla(r.vista, srv, u, b1)
    BY <1>2, <1>3, <1>10, <1>14, <2>2, <2>3, <2>6 DEF DTabla
  <2>9. DStock(r.vista, srv, u, b1)
    BY <2>7 DEF DStock
  <2> QED BY <1>4, <2>8, <2>9 DEF DFiel
<1> QED BY <1>6, <1>13, <1>14

LEMMA ProductosFielSigue == ProductosInv /\ ProductosFiel /\ Productos!Next => ProductosFiel'
<1> SUFFICES ASSUME ProductosInv, ProductosFiel, Productos!Next PROVE ProductosFiel'
  OBVIOUS
<1>1. /\ DFilas(srv)
      /\ dudosa # TRUE => DFiel(vista, srv, ida, vuelta) /\ "filas" \in DOMAIN vista /\ Vivas(ida, vuelta)
  BY DEF ProductosFiel, DFiel, DTabla
<1>2. DFilas(srv')
  <2>1. ASSUME NEW i, Productos!Responde(i) PROVE DFilas(srv')
    <3>1. i \in DOMAIN ida /\ srv' \in {srv, Productos!Servidor(srv, ida[i]).srv}
      BY <2>1 DEF Productos!Responde, Productos!Atiende
    <3>2. ida[i].op \in DO
      BY <3>1 DEF ProductosInv, Correo, SonPedidos, EsPedido
    <3> QED BY <1>1, <3>1, <3>2, DBanco
  <2>2. ASSUME NEW i, Productos!Recibe(i) PROVE srv' = srv
    BY <2>2 DEF Productos!Recibe, Productos!Llega
  <2> QED
    BY <1>1, <2>1, <2>2 DEF Productos!Next, Productos!AbrirAlta, Productos!AbrirEdicion, Productos!Guardar,
       Productos!AbrirStock, Productos!AjustarStock, Productos!CerrarModal, Productos!AlternarActivo, Productos!Marcar,
       Productos!AbrirBorrado, Productos!BorrarMarcados, Productos!Montar, Productos!Toque, Productos!Tropiezo
<1> SUFFICES ASSUME dudosa' # TRUE PROVE DFiel(vista', srv', ida', vuelta')
  BY <1>2 DEF ProductosFiel
<1> DEFINE Suya == /\ dudosa # TRUE /\ srv' = srv /\ vuelta' = vuelta
                   /\ "filas" \in DOMAIN vista' /\ vista'.filas = vista.filas
<1>3. ASSUME Suya, NEW q, q.viva = TRUE, q.op \notin DA, ida' = ida \o <<q>> PROVE DFiel(vista', srv', ida', vuelta')
  BY <1>1, <1>3, DFielPide
<1>4. CASE Productos!AbrirAlta \/ Productos!AbrirEdicion \/ Productos!AbrirStock \/ Productos!CerrarModal
           \/ Productos!Marcar \/ Productos!AbrirBorrado
  <2>1. Suya /\ ida' = ida \o <<>>
    BY <1>1, <1>4 DEF Productos!AbrirAlta, Productos!AbrirEdicion, Productos!AbrirStock, Productos!CerrarModal,
       Productos!Marcar, Productos!AbrirBorrado, Productos!Toque
  <2> QED BY <1>1, <2>1, DFielToca
<1>5. CASE Productos!Guardar
  <2>1. PICK nombre \in Nombres :
           Productos!Toque(vista, <<Productos!Pedido(IF vista.objetivo = Productos!Nadie THEN "crear" ELSE "actualizar",
                                   vista.objetivo, nombre)>>)
    BY <1>5 DEF Productos!Guardar
  <2> DEFINE q == Productos!Pedido(IF vista.objetivo = Productos!Nadie THEN "crear" ELSE "actualizar",
                                   vista.objetivo, nombre)
  <2>2. q.op \notin DA /\ q.viva = TRUE
    BY DEF Productos!Pedido, DA
  <2>3. Suya /\ ida' = ida \o <<q>>
    BY <1>1, <2>1 DEF Productos!Toque
  <2> HIDE DEF q
  <2> QED BY <1>3, <2>2, <2>3
<1>6. CASE Productos!AjustarStock
  <2>1. PICK op \in {"sumar", "restar"} : Productos!Toque(vista, <<Productos!Pedido(op, vista.objetivo, Nada)>>)
    BY <1>6 DEF Productos!AjustarStock
  <2> DEFINE q == Productos!Pedido(op, vista.objetivo, Nada)
  <2>2. q.op \notin DA /\ q.viva = TRUE
    BY DEF Productos!Pedido, DA
  <2>3. Suya /\ ida' = ida \o <<q>>
    BY <1>1, <2>1 DEF Productos!Toque
  <2> HIDE DEF q
  <2> QED BY <1>3, <2>2, <2>3
<1>7. CASE Productos!BorrarMarcados
  <2>1. PICK q : Productos!BorrarDesde(vista.seleccion) = <<q>> /\ q.op \in {"listar", "borrar"} /\ q.viva = TRUE
    BY DBorra
  <2>2. Suya /\ ida' = ida \o <<q>>
    BY <1>1, <1>7, <2>1 DEF Productos!BorrarMarcados, Productos!Toque
  <2>3. q.op \notin DA
    BY <2>1 DEF DA
  <2> QED BY <1>3, <2>1, <2>2, <2>3
<1>8. CASE Productos!AlternarActivo
  <2>1. PICK j \in Productos!Filas :
          LET pedido == <<Productos!Pedido(IF vista.filas[j].activo THEN "desactivar" ELSE "reactivar", j, Nada)>>
              otro == \/ \E n \in DOMAIN ida : Productos!Alternan(ida[n], j)
                      \/ \E n \in DOMAIN vuelta : Productos!Alternan(vuelta[n].q, j)
                      \/ Productos!EnVuelo({"listar"}) > 0
          IN  (otro /\ Productos!Tropiezo(vista, pedido)) \/ (~otro /\ Productos!Toque(vista, pedido))
    BY <1>8 DEF Productos!AlternarActivo
  <2> DEFINE q == Productos!Pedido(IF vista.filas[j].activo THEN "desactivar" ELSE "reactivar", j, Nada)
  <2>2. /\ Suya /\ ida' = ida \o <<q>>
        /\ \A n \in DOMAIN ida : ~Productos!Alternan(ida[n], j)
        /\ \A n \in DOMAIN vuelta : ~Productos!Alternan(vuelta[n].q, j)
        /\ ~(EnVuelo(DL) > 0)
    <3>1. Productos!EnVuelo(DL) = EnVuelo(DL)
      BY DEF Productos!EnVuelo, EnVuelo, Productos!Cardinality, Cardinality
    <3>2. DL = {"listar"}
      BY DEF DL
    <3> HIDE DEF q
    <3>3. dudosa # TRUE /\ Productos!Toque(vista, <<q>>)
      BY <2>1 DEF q, Productos!Tropiezo, Productos!Toque
    <3> QED BY <1>1, <2>1, <3>1, <3>2, <3>3 DEF Productos!Tropiezo, Productos!Toque
  <2>3. /\ \A k \in DOMAIN ida : ida[k].op \notin DL
        /\ \A k \in DOMAIN vuelta : vuelta[k].q.op \notin DL
    BY <1>1, <2>2, NadieVuela
  <2>4. q.viva = TRUE /\ q.id = j /\ q.op = (IF vista.filas[j].activo THEN "desactivar" ELSE "reactivar")
    BY DEF Productos!Pedido
  <2>5. j \in DOMAIN vista.filas
    <3>1. \A x \in {"filas"} : \A e : j \in Productos!EnVista(e) => j \in DOMAIN vista.filas
      BY DEF Productos!EnVista
    <3> QED BY <3>1 DEF Productos!Filas
  <2> HIDE DEF q
  <2> QED BY <1>1, <2>2, <2>3, <2>4, <2>5, DFielPide DEF Productos!Alternan, DA
<1>9. CASE Productos!Montar(Productos!VistaInicial, Productos!Listar)
  <2>1. PICK q : Productos!Listar = <<q>> /\ q.op = "listar" /\ q.viva = TRUE
    BY DListar
  <2>2. /\ ida' = Huerfanos(ida) \o <<q>> /\ vuelta' = HuerfanasDe(vuelta) /\ srv' = srv
        /\ ida = <<>> /\ vuelta = <<>> /\ "filas" \in DOMAIN vista' /\ vista'.filas = <<>>
    BY <1>9, <2>1 DEF Productos!Montar, Productos!VistaInicial, Productos!Huerfanos, Huerfanos,
       Productos!HuerfanasDe, HuerfanasDe, Productos!EnReposo
  <2>3. ida' = <<q>> /\ vuelta' = <<>>
    BY <2>2, NadieEnReposo
  <2> QED BY <2>1, <2>2, <2>3, DFielMonta
<1>10. ASSUME NEW i, Productos!Responde(i) \/ Productos!Recibe(i) PROVE DFiel(vista', srv', ida', vuelta')
  BY <1>10, DFielResponde, DFielRecibe
<1> QED BY <1>4, <1>5, <1>6, <1>7, <1>8, <1>9, <1>10 DEF Productos!Next

LEMMA ProductosFielEmpieza == Productos!Init => ProductosFiel
<1> SUFFICES ASSUME Productos!Init PROVE DFilas(srv) /\ DFiel(vista, srv, ida, vuelta)
  BY DEF ProductosFiel
<1>1. PICK q : Productos!Listar = <<q>> /\ q.op = "listar" /\ q.viva = TRUE
  BY DListar
<1>2. ida = <<q>> /\ vuelta = <<>> /\ "filas" \in DOMAIN vista /\ vista.filas = <<>>
  BY <1>1 DEF Productos!Init, Productos!PeticionesInit, Productos!VistaInicial
<1>3. DFilas(srv)
  <2>1. PICK n \in Nombres : srv = <<[codigo |-> n, nombre |-> n, stock |-> 1, activo |-> TRUE]>>
    BY DEF Productos!Init
  <2> DEFINE x == [codigo |-> n, nombre |-> n, stock |-> 1, activo |-> TRUE]
  <2>2. DEsFila(x)
    BY DEF DEsFila
  <2> HIDE DEF x
  <2>3. <<x>> \in Seq({x})
    OBVIOUS
  <2>4. <<x>> \in [1 .. Len(<<x>>) -> {x}]
    BY <2>3, LenProperties
  <2> DEFINE z == <<x>>
  <2>5. z \in [1 .. Len(z) -> {x}] /\ srv = z
    BY <2>1, <2>4 DEF x
  <2> HIDE DEF z
  <2>6. z = [j \in DOMAIN z |-> z[j]] /\ \A j \in DOMAIN z : z[j] = x
    BY <2>5
  <2> QED BY <2>2, <2>5, <2>6 DEF DFilas
<1> QED BY <1>1, <1>2, <1>3, DFielMonta

LEMMA ProductosFielDice == ProductosFiel /\ EnReposo /\ dudosa # TRUE => Productos!Mostrado
<1> SUFFICES ASSUME DFilas(srv), DFiel(vista, srv, <<>>, <<>>) PROVE Productos!Mostrado
  BY DEF ProductosFiel, EnReposo
<1> DEFINE f == vista.filas
           P == DBien(f, srv, <<>>, <<>>)
           Y == {DSalvo(srv)}
<1>1. Fresca(<<>>, <<>>, DCanal, P, Y) /\ DFilas(f)
  BY DEF DFiel, DTabla
<1>2. P
  <2> HIDE DEF P, Y
  <2> QED BY <1>1, FrescaEnReposo
<1>3. \A j : ~DVirara(<<>>, j)
  BY SucesionUna DEF DVirara
<1>4. ASSUME NEW j \in DOMAIN srv PROVE f[j].stock = srv[j].stock
  <2> DEFINE c == DCanalDe(j)
             Q == DBienDe(f, srv, j)
             Z == {srv[j].stock}
  <2>1. Fresca(<<>>, <<>>, c, Q, Z)
    BY DEF DFiel, DStock
  <2> HIDE DEF c, Q, Z
  <2>2. Q
    BY <2>1, FrescaEnReposo
  <2> QED BY <1>2, <2>2 DEF Q, DBienDe, DBien
<1>5. DOMAIN f = DOMAIN srv
  BY <1>2 DEF DBien
<1>6. ASSUME NEW j \in DOMAIN srv PROVE f[j] = srv[j]
  <2>1. /\ f[j].codigo = srv[j].codigo /\ f[j].nombre = srv[j].nombre /\ f[j].activo = srv[j].activo
        /\ f[j].stock = srv[j].stock
    BY <1>2, <1>3, <1>4 DEF DBien
  <2>2. DEsFila(f[j]) /\ DEsFila(srv[j])
    BY <1>1, <1>5 DEF DFilas
  <2> QED BY <2>1, <2>2 DEF DEsFila
<1> HIDE DEF f
<1>7. f = [j \in DOMAIN f |-> f[j]] /\ srv = [j \in DOMAIN srv |-> srv[j]]
  BY <1>1 DEF DFilas
<1>8. f = srv
  BY <1>5, <1>6, <1>7
<1> QED BY <1>8 DEF f, Productos!Mostrado

LEMMA ProductosFielQuieta == ProductosFiel /\ UNCHANGED vars => ProductosFiel'
<1> SUFFICES ASSUME ProductosFiel, UNCHANGED vars PROVE ProductosFiel'
  OBVIOUS
<1>1. vista' = vista /\ srv' = srv /\ ida' = ida /\ vuelta' = vuelta /\ dudosa' = dudosa
  BY DEF vars
<1>2. DFilas(srv) /\ (dudosa # TRUE => DFiel(vista, srv, ida, vuelta))
  BY DEF ProductosFiel
<1>3. DFilas(srv') /\ (dudosa' # TRUE => DFiel(vista', srv', ida', vuelta'))
  BY <1>1, <1>2
<1> QED BY <1>3 DEF ProductosFiel

-----------------------------------------------------------------------------
(* The inventory: links, stock of each product and alerts, which a failed  *)
(* load leaves as they were.                                               *)

IM == {"crear", "editar", "eliminar", "desarmar"}
IVinculos == Canal({"cargar"}, IM, {"cargar"}, {}, <<"campo", "vinculos">>)
IStock(p) == Canal({"cargar"}, IM, {"cargar"}, {<<"ajustar", p>>}, <<"de", "stock", p>>)
IAlertas == Canal({"cargar", "alertas"}, IM \cup {"ajustar"}, {"cargar", "alertas"}, {}, <<"campo", "alertas">>)

IForma(f) == f = [p \in DOMAIN f |-> f[p]] /\ DOMAIN f = Inventario!Productos
IBanco(s) == s = [stock |-> s.stock, vinculos |-> s.vinculos] /\ IForma(s.stock)
IVinculan(v, s) == v.vinculos = s.vinculos /\ DOMAIN v.stock = Inventario!Productos
IQueda(v, s, p) == p \in DOMAIN v.stock => v.stock[p] = s.stock[p]
IAvisan(v, s) == v.alertas = Inventario!Cortos(s.stock)

\* Links, stock of each product and alerts, and the shape of what the backend says.
IFrescas(v, s, a, b) ==
    /\ Fresca(a, b, IVinculos, IVinculan(v, s), {s.vinculos})
    /\ Fresca(a, b, IAlertas, IAvisan(v, s), {Inventario!Cortos(s.stock)})
    /\ \A p \in Inventario!Productos : Fresca(a, b, IStock(p), IQueda(v, s, p), {s.stock[p]})
IContesta(m) ==
    /\ m.ok \in BOOLEAN
    /\ m.q.op \in {"cargar", "alertas"} => m.ok = TRUE
    /\ m.ok = TRUE => IForma(m.datos.stock)
ITiene(v) == /\ {"stock", "vinculos", "alertas"} \subseteq DOMAIN v
             /\ v.stock = [p \in DOMAIN v.stock |-> v.stock[p]]
IFiel(v, s, a, b) ==
    /\ Vivas(a, b) /\ ITiene(v) /\ IFrescas(v, s, a, b)
    /\ \A k \in DOMAIN b : IContesta(b[k])
InventarioFiel == IBanco(srv) /\ (dudosa # TRUE => IFiel(vista, srv, ida, vuelta))

LEMMA IHabla ==
    ASSUME NEW m, NEW p
    PROVE  /\ IVinculos.pide = {"cargar"} /\ IVinculos.relee = IM
           /\ Habla(m, IVinculos) <=> m.q.op = "cargar"
           /\ Dicho(m, IVinculos.dato) = m.datos["vinculos"]
           /\ IStock(p).pide = {"cargar"} /\ IStock(p).relee = IM
           /\ Habla(m, IStock(p)) <=> m.q.op = "cargar" \/ (m.ok = TRUE /\ m.q.op = "ajustar" /\ m.q.id = p)
           /\ Dicho(m, IStock(p).dato) = m.datos["stock"][p]
           /\ IAlertas.pide = {"cargar", "alertas"} /\ IAlertas.relee = IM \cup {"ajustar"}
           /\ Habla(m, IAlertas) <=> m.q.op \in {"cargar", "alertas"}
           /\ Dicho(m, IAlertas.dato) = m.datos["alertas"]
<1>1. /\ IVinculos.pide = {"cargar"} /\ IVinculos.relee = IM
      /\ Habla(m, IVinculos) <=> m.q.op = "cargar"
      /\ Dicho(m, IVinculos.dato) = m.datos["vinculos"]
  BY DEF IVinculos, Canal, Habla, Dicho
<1>2. /\ IStock(p).pide = {"cargar"} /\ IStock(p).relee = IM
      /\ Habla(m, IStock(p)) <=> m.q.op = "cargar" \/ (m.ok = TRUE /\ m.q.op = "ajustar" /\ m.q.id = p)
      /\ Dicho(m, IStock(p).dato) = m.datos["stock"][p]
  BY DEF IStock, Canal, Habla, Dicho
<1>3. /\ IAlertas.pide = {"cargar", "alertas"} /\ IAlertas.relee = IM \cup {"ajustar"}
      /\ Habla(m, IAlertas) <=> m.q.op \in {"cargar", "alertas"}
      /\ Dicho(m, IAlertas.dato) = m.datos["alertas"]
  BY DEF IAlertas, Canal, Habla, Dicho
<1> QED BY <1>1, <1>2, <1>3

LEMMA IFielPide ==
    ASSUME NEW v, NEW s, NEW a, NEW b, IFiel(v, s, a, b), NEW w, ITiene(w), w.stock = v.stock,
           w.vinculos = v.vinculos, w.alertas = v.alertas, NEW p, Vivas(p, <<>>)
    PROVE  IFiel(w, s, a \o p, b)
<1> DEFINE u == a \o p
<1>1. Vivas(a, b) /\ Sucesion(a) /\ Sucesion(p) /\ IFrescas(v, s, a, b)
  BY DEF IFiel, Vivas
<1>2. /\ IVinculan(v, s) <=> IVinculan(w, s)
      /\ IAvisan(v, s) <=> IAvisan(w, s)
      /\ \A n : IQueda(v, s, n) <=> IQueda(w, s, n)
  BY DEF IVinculan, IAvisan, IQueda
<1>3. ASSUME NEW c, NEW P, NEW P1, P => P1, NEW Y, Fresca(a, b, c, P, Y) PROVE Fresca(u, b, c, P1, Y)
  BY <1>1, <1>3, FrescaPide
<1>4. Vivas(u, b)
  BY <1>1, VivasPide
<1> HIDE DEF u
<1>5. IFrescas(w, s, u, b)
  <2>1. Fresca(u, b, IVinculos, IVinculan(w, s), {s.vinculos})
    BY <1>1, <1>2, <1>3 DEF IFrescas
  <2>2. Fresca(u, b, IAlertas, IAvisan(w, s), {Inventario!Cortos(s.stock)})
    BY <1>1, <1>2, <1>3 DEF IFrescas
  <2>3. ASSUME NEW n \in Inventario!Productos PROVE Fresca(u, b, IStock(n), IQueda(w, s, n), {s.stock[n]})
    <3>1. Fresca(a, b, IStock(n), IQueda(v, s, n), {s.stock[n]}) /\ (IQueda(v, s, n) => IQueda(w, s, n))
      BY <1>1, <1>2 DEF IFrescas
    <3> QED BY <1>3, <3>1
  <2> QED BY <2>1, <2>2, <2>3 DEF IFrescas
<1>6. IFiel(w, s, u, b)
  BY <1>4, <1>5 DEF IFiel
<1> QED BY <1>6 DEF u

LEMMA IFielMonta ==
    ASSUME NEW v, NEW s, ITiene(v), NEW q, q.viva = TRUE, q.op = "cargar"
    PROVE  IFiel(v, s, <<q>>, <<>>)
<1>1. Vivas(<<q>>, <<>>) /\ Hay(<<q>>, {"cargar"}) /\ Hay(<<q>>, {"cargar", "alertas"})
  <2>1. \A N : Hay(<<q>>, N) <=> q.op \in N
    BY PideUna
  <2> QED BY <2>1, PideUna
<1>2. DOMAIN <<>> = {}
  BY SucesionUna
<1>3. ASSUME NEW c, Hay(<<q>>, c.pide), NEW P, NEW Y PROVE Fresca(<<q>>, <<>>, c, P, Y)
  BY <1>3 DEF Fresca
<1>4. Hay(<<q>>, IVinculos.pide) /\ Hay(<<q>>, IAlertas.pide) /\ \A n : Hay(<<q>>, IStock(n).pide)
  BY <1>1, IHabla
<1>5. IFrescas(v, s, <<q>>, <<>>)
  BY <1>3, <1>4 DEF IFrescas
<1> QED BY <1>1, <1>2, <1>5 DEF IFiel

ISalida(s, q, r) ==
    /\ IBanco(r.srv) /\ r.ok \in BOOLEAN
    /\ r.ok = TRUE => r.datos = Inventario!Respuesta(r.srv)
    /\ r.ok # TRUE => r.srv = s
    /\ q.op \in {"cargar", "alertas"} => r.ok = TRUE /\ r.srv = s
    /\ q.op = "ajustar" => /\ r.srv.vinculos = s.vinculos
                           /\ \A p : p # q.id => r.srv.stock[p] = s.stock[p]

LEMMA IBancoSigue ==
    ASSUME NEW s, IBanco(s), NEW q, q.op \in IO
    PROVE  ISalida(s, q, Inventario!Servidor(s, q))
<1> DEFINE r == Inventario!Servidor(s, q)
           t == s.stock
<1>1. s = [stock |-> s.stock, vinculos |-> s.vinculos] /\ IForma(t)
  BY DEF IBanco
<1>2. /\ r.ok \in BOOLEAN
      /\ r.ok = TRUE => r.datos = Inventario!Respuesta(r.srv)
      /\ r.ok # TRUE => r.srv = s
      /\ q.op \in {"cargar", "alertas"} => r.ok = TRUE /\ r.srv = s
  BY DEF IO, Inventario!Servidor, Inventario!Acepta, Inventario!Rechaza
<1>3. \/ r.srv = s
      \/ q.op = "ajustar" /\ \E n : r.srv = [s EXCEPT !.stock[q.id] = @ + n]
      \/ q.op # "ajustar" /\ \E x : r.srv = [s EXCEPT !.vinculos = x]
      \/ q.op # "ajustar" /\ \E k, n : r.srv = [[s EXCEPT !.stock[Bulto] = k] EXCEPT !.stock[Unidad] = n]
  BY DEF IO, Inventario!Servidor, Inventario!Acepta, Inventario!Rechaza
<1> HIDE DEF r
<1>4. ASSUME NEW n, r.srv = [s EXCEPT !.stock[q.id] = @ + n]
      PROVE  IBanco(r.srv) /\ r.srv.vinculos = s.vinculos /\ \A p : p # q.id => r.srv.stock[p] = t[p]
  <2> DEFINE y == [t EXCEPT ![q.id] = @ + n]
  <2>1. r.srv = [stock |-> y, vinculos |-> s.vinculos]
    BY <1>1, <1>4
  <2>2. IForma(y)
    BY <1>1 DEF IForma
  <2>3. ASSUME NEW p, p # q.id PROVE y[p] = t[p]
    BY <2>3
  <2> HIDE DEF y
  <2> QED BY <2>1, <2>2, <2>3 DEF IBanco
<1>5. ASSUME NEW x, r.srv = [s EXCEPT !.vinculos = x] PROVE IBanco(r.srv)
  <2>1. r.srv = [stock |-> t, vinculos |-> x]
    BY <1>1, <1>5
  <2> QED BY <1>1, <2>1 DEF IBanco
<1>6. ASSUME NEW k, NEW n, r.srv = [[s EXCEPT !.stock[Bulto] = k] EXCEPT !.stock[Unidad] = n] PROVE IBanco(r.srv)
  <2> DEFINE x == [t EXCEPT ![Bulto] = k]
             y == [x EXCEPT ![Unidad] = n]
             s1 == [s EXCEPT !.stock[Bulto] = k]
  <2>1. s1 = [stock |-> x, vinculos |-> s.vinculos]
    BY <1>1
  <2>2. r.srv = [stock |-> y, vinculos |-> s.vinculos]
    <3>1. r.srv = [s1 EXCEPT !.stock[Unidad] = n]
      BY <1>6
    <3> HIDE DEF s1, x
    <3> QED BY <2>1, <3>1
  <2>3. IForma(y)
    BY <1>1 DEF IForma
  <2> HIDE DEF y
  <2> QED BY <2>2, <2>3 DEF IBanco
<1>7. q.op = "ajustar" => r.srv.vinculos = s.vinculos /\ \A p : p # q.id => r.srv.stock[p] = s.stock[p]
  BY <1>3, <1>4
<1>8. IBanco(r.srv)
  BY <1>3, <1>4, <1>5, <1>6
<1> QED BY <1>2, <1>7, <1>8 DEF r, ISalida

LEMMA IFielResponde ==
    ASSUME InventarioInv, InventarioFiel, NEW i, Inventario!Responde(i), dudosa' # TRUE
    PROVE  IFiel(vista', srv', ida', vuelta')
<1> DEFINE q == ida[1]
           r == Inventario!Servidor(srv, q)
           s1 == r.srv
           ok == r.ok
           d == r.datos
           m == [q |-> q, ok |-> ok, datos |-> d]
           v == vista
           a1 == Sin(ida, 1)
           b1 == Append(vuelta, m)
<1>1. /\ 1 \in DOMAIN ida /\ srv' = s1 /\ ida' = a1 /\ vista' = v
      /\ vuelta' = b1 /\ dudosa # TRUE
  BY DEF Inventario!Responde, Inventario!Atiende, Inventario!Sin, Sin
<1>2. /\ Sucesion(ida) /\ Sucesion(vuelta) /\ Vivas(ida, vuelta) /\ IFrescas(v, srv, ida, vuelta)
      /\ ITiene(v) /\ (\A k \in DOMAIN vuelta : IContesta(vuelta[k])) /\ IBanco(srv)
  BY <1>1 DEF InventarioFiel, IFiel, Vivas
<1>3. q.op \in IO
  BY <1>1 DEF InventarioInv, Correo, SonPedidos, EsPedido
<1>4. /\ IBanco(s1) /\ ok \in BOOLEAN
      /\ ok = TRUE => d = Inventario!Respuesta(s1)
      /\ ok # TRUE => s1 = srv
      /\ q.op \in {"cargar", "alertas"} => ok = TRUE /\ s1 = srv
      /\ q.op = "ajustar" => /\ s1.vinculos = srv.vinculos
                             /\ \A p : p # q.id => s1.stock[p] = srv.stock[p]
  <2>1. ISalida(srv, q, r)
    <3> HIDE DEF m, q
    <3> QED BY <1>2, <1>3, IBancoSigue
  <2> HIDE DEF r, q
  <2> QED BY <2>1 DEF ISalida
<1>5. m.q = q /\ m.ok = ok /\ m.datos = d /\ m = [q |-> ida[1], ok |-> ok, datos |-> d]
  OBVIOUS
<1>6. /\ DOMAIN b1 = 1 .. Len(vuelta) + 1 /\ Len(vuelta) \in Nat /\ DOMAIN vuelta = 1 .. Len(vuelta)
      /\ \A k \in 1 .. Len(vuelta) : b1[k] = vuelta[k]
      /\ b1[Len(vuelta) + 1] = m
  <2> HIDE DEF m
  <2> QED BY <1>2, UnoMas
<1> HIDE DEF m, r, s1, ok, d, a1, b1
<1>7. Vivas(a1, b1)
  BY <1>1, <1>2, <1>5, VivasToma DEF a1, b1
<1>8. ok = TRUE => d["stock"] = s1.stock /\ d["vinculos"] = s1.vinculos /\ d["alertas"] = Inventario!Cortos(s1.stock)
  BY <1>4 DEF Inventario!Respuesta
<1>9. \A k \in DOMAIN b1 : IContesta(b1[k])
  <2>1. IContesta(m)
    BY <1>4, <1>5, <1>8 DEF IContesta, IBanco
  <2>2. \A k \in DOMAIN b1 : k \in DOMAIN vuelta \/ k = Len(vuelta) + 1
    BY <1>6
  <2> QED BY <1>2, <1>6, <2>1, <2>2
<1>10. /\ IVinculos.pide = {"cargar"} /\ IVinculos.relee = IM
       /\ Habla(m, IVinculos) <=> q.op = "cargar"
       /\ Dicho(m, IVinculos.dato) = d["vinculos"]
       /\ IAlertas.pide = {"cargar", "alertas"} /\ IAlertas.relee = IM \cup {"ajustar"}
       /\ Habla(m, IAlertas) <=> q.op \in {"cargar", "alertas"}
       /\ Dicho(m, IAlertas.dato) = d["alertas"]
  <2> HIDE DEF q
  <2>1. m.q = q /\ m.datos = d
    BY <1>5
  <2>2. /\ IVinculos.pide = {"cargar"} /\ IVinculos.relee = IM
        /\ Habla(m, IVinculos) <=> m.q.op = "cargar"
        /\ Dicho(m, IVinculos.dato) = m.datos["vinculos"]
    BY IHabla
  <2>3. /\ IAlertas.pide = {"cargar", "alertas"} /\ IAlertas.relee = IM \cup {"ajustar"}
        /\ Habla(m, IAlertas) <=> m.q.op \in {"cargar", "alertas"}
        /\ Dicho(m, IAlertas.dato) = m.datos["alertas"]
    BY IHabla
  <2> QED BY <2>1, <2>2, <2>3
<1> DEFINE Va(c, P, P1, Y, Y1) ==
             /\ Fresca(ida, vuelta, c, P, Y)
             /\ \/ ok = TRUE /\ Habla(m, c) /\ Dicho(m, c.dato) \in Y1
                \/ ok = TRUE /\ q.op \in c.relee
                \/ q.op \notin c.pide /\ ~Habla(m, c) /\ (P => P1) /\ Y \subseteq Y1
<1>11. ASSUME NEW c, NEW P, NEW P1, NEW Y, NEW Y1, Va(c, P, P1, Y, Y1) PROVE Fresca(a1, b1, c, P1, Y1)
  BY <1>1, <1>2, <1>5, <1>11, FrescaToma DEF a1, b1
<1>12. Fresca(a1, b1, IVinculos, IVinculan(v, s1), {s1.vinculos})
  <2> DEFINE c == IVinculos
             P == IVinculan(v, srv)
             P1 == IVinculan(v, s1)
             Y == {srv.vinculos}
             Y1 == {s1.vinculos}
  <2>1. Fresca(ida, vuelta, c, P, Y)
    BY <1>2 DEF IFrescas
  <2>2. q.op \notin IM \/ ok # TRUE => s1.vinculos = srv.vinculos
    BY <1>3, <1>4 DEF IO, IM
  <2>3. q.op \notin IM \/ ok # TRUE => (P => P1) /\ Y \subseteq Y1
    BY <2>2 DEF IVinculan
  <2>4. q.op = "cargar" => ok = TRUE /\ Dicho(m, c.dato) \in Y1
    BY <1>4, <1>8, <1>10
  <2>5. /\ c.pide = {"cargar"} /\ c.relee = IM /\ (Habla(m, c) <=> q.op = "cargar")
    BY <1>10
  <2> HIDE DEF c, P, P1, Y, Y1
  <2>6. Va(c, P, P1, Y, Y1)
    BY <2>1, <2>3, <2>4, <2>5
  <2>7. Fresca(a1, b1, c, P1, Y1)
    BY <1>11, <2>6
  <2> QED BY <2>7 DEF c, P1, Y1
<1>13. Fresca(a1, b1, IAlertas, IAvisan(v, s1), {Inventario!Cortos(s1.stock)})
  <2> DEFINE c == IAlertas
             P == IAvisan(v, srv)
             P1 == IAvisan(v, s1)
             Y == {Inventario!Cortos(srv.stock)}
             Y1 == {Inventario!Cortos(s1.stock)}
  <2>1. Fresca(ida, vuelta, c, P, Y)
    BY <1>2 DEF IFrescas
  <2>2. ok # TRUE => s1 = srv
    BY <1>4
  <2>3. ok # TRUE => (P => P1) /\ Y \subseteq Y1
    BY <2>2
  <2>4. q.op \in {"cargar", "alertas"} => ok = TRUE /\ Dicho(m, c.dato) \in Y1
    BY <1>4, <1>8, <1>10
  <2>5. /\ c.pide = {"cargar", "alertas"} /\ c.relee = IM \cup {"ajustar"}
        /\ (Habla(m, c) <=> q.op \in {"cargar", "alertas"})
    BY <1>10
  <2> HIDE DEF c, P, P1, Y, Y1
  <2>6. Va(c, P, P1, Y, Y1)
    BY <1>3, <2>1, <2>3, <2>4, <2>5 DEF IO, IM
  <2>7. Fresca(a1, b1, c, P1, Y1)
    BY <1>11, <2>6
  <2> QED BY <2>7 DEF c, P1, Y1
<1>14. ASSUME NEW p \in Inventario!Productos PROVE Fresca(a1, b1, IStock(p), IQueda(v, s1, p), {s1.stock[p]})
  <2> DEFINE c == IStock(p)
             P == IQueda(v, srv, p)
             P1 == IQueda(v, s1, p)
             Y == {srv.stock[p]}
             Y1 == {s1.stock[p]}
             propia == ok = TRUE /\ q.op = "ajustar" /\ q.id = p
  <2>1. Fresca(ida, vuelta, c, P, Y)
    BY <1>2 DEF IFrescas
  <2>2. (q.op \notin IM \/ ok # TRUE) /\ ~propia => s1.stock[p] = srv.stock[p]
    BY <1>3, <1>4 DEF IO, IM
  <2>3. (q.op \notin IM \/ ok # TRUE) /\ ~propia => (P => P1) /\ Y \subseteq Y1
    BY <2>2 DEF IQueda
  <2>4. /\ c.pide = {"cargar"} /\ c.relee = IM /\ (Habla(m, c) <=> q.op = "cargar" \/ propia)
        /\ Dicho(m, c.dato) = d["stock"][p]
    <3>1. /\ IStock(p).pide = {"cargar"} /\ IStock(p).relee = IM
          /\ Habla(m, IStock(p)) <=> m.q.op = "cargar" \/ (m.ok = TRUE /\ m.q.op = "ajustar" /\ m.q.id = p)
          /\ Dicho(m, IStock(p).dato) = m.datos["stock"][p]
      BY IHabla
    <3> QED BY <1>5, <3>1
  <2>5. q.op = "cargar" \/ propia => ok = TRUE /\ Dicho(m, c.dato) \in Y1
    BY <1>4, <1>8, <2>4
  <2> HIDE DEF c, P, P1, Y, Y1
  <2>6. Va(c, P, P1, Y, Y1)
    BY <2>1, <2>3, <2>4, <2>5
  <2>7. Fresca(a1, b1, c, P1, Y1)
    BY <1>11, <2>6
  <2> QED BY <2>7 DEF c, P1, Y1
<1>15. IFrescas(v, s1, a1, b1)
  BY <1>12, <1>13, <1>14 DEF IFrescas
<1> QED BY <1>1, <1>2, <1>7, <1>9, <1>15 DEF IFiel

LEMMA ICargar == \E q : Inventario!Cargar = <<q>> /\ q.op = "cargar" /\ q.viva = TRUE
<1> DEFINE q == Inventario!Pedido("cargar", Inventario!Nadie, Nada)
<1>1. Inventario!Cargar = <<q>> /\ q.op = "cargar" /\ q.viva = TRUE
  BY DEF Inventario!Cargar, Inventario!Pedido
<1> HIDE DEF q
<1> QED BY <1>1

LEMMA IFielRecibe ==
    ASSUME InventarioInv, InventarioFiel, NEW i, Inventario!Recibe(i), dudosa' # TRUE
    PROVE  IFiel(vista', srv', ida', vuelta')
<1> DEFINE m == vuelta[1]
           r == Inventario!Recibir(m)
           p == r.pide
           v == vista
           w == r.vista
           b1 == Sin(vuelta, 1)
           u == ida \o p
           n == m.q.id
<1>1. i = 1 /\ dudosa # TRUE /\ 1 \in DOMAIN vuelta /\ m.q.op \in IO
  <2>1. i \in DOMAIN vuelta /\ vuelta[i].q.op \in IO
    BY DEF Inventario!Recibe, Inventario!Llega, InventarioInv, Correo, SonRespuestas, EsRespuesta, EsPedido
  <2>2. Inventario!Recibir(vuelta[i]).va = FALSE
    BY <2>1 DEF IO, Inventario!Recibir, Inventario!Queda, Inventario!Pide, Inventario!Inventa
  <2>3. i = 1 /\ dudosa # TRUE
    BY <2>2 DEF Inventario!Recibe, Inventario!Llega
  <2> QED BY <2>1, <2>3
<1>2. /\ Sucesion(ida) /\ Sucesion(vuelta) /\ Vivas(ida, vuelta) /\ IFrescas(v, srv, ida, vuelta)
      /\ ITiene(v) /\ (\A k \in DOMAIN vuelta : IContesta(vuelta[k])) /\ IBanco(srv) /\ m.q.viva = TRUE
      /\ IContesta(m)
  BY <1>1 DEF InventarioFiel, IFiel, Vivas
<1>3. r.va = FALSE /\ (m.q.op = "ajustar" /\ m.ok # TRUE => r.duda = TRUE)
  BY <1>1, <1>2 DEF IO, Inventario!Recibir, Inventario!Queda, Inventario!Pide, Inventario!Inventa, IContesta
<1>4. /\ vista' = w /\ srv' = srv /\ ida' = u /\ vuelta' = b1 /\ (m.q.op = "ajustar" => m.ok = TRUE)
  BY <1>1, <1>2, <1>3 DEF Inventario!Recibe, Inventario!Llega, Inventario!Sin, Sin
<1>5. {"stock", "vinculos", "alertas"} \subseteq DOMAIN w
  BY <1>1, <1>2 DEF IO, ITiene, Inventario!Recibir, Inventario!Queda, Inventario!Pide, Inventario!Inventa
<1> DEFINE con == [x \in DOMAIN v.stock |-> IF x = n THEN m.datos.stock[n] ELSE v.stock[x]]
           ave == <<Inventario!Pedido("alertas", Inventario!Nadie, Nada)>>
           rec == <<Inventario!Tras(Inventario!Pedido("cargar", Inventario!Nadie, Nada), m.q.op)>>
<1>6. /\ m.q.op = "cargar" => /\ p = <<>>
                              /\ w.stock = m.datos.stock /\ w.vinculos = m.datos.vinculos /\ w.alertas = m.datos.alertas
      /\ m.q.op = "alertas" => /\ p = <<>> /\ w.alertas = m.datos.alertas
                               /\ w.stock = v.stock /\ w.vinculos = v.vinculos
      /\ m.q.op = "ajustar" => p = ave /\ w.alertas = v.alertas /\ w.vinculos = v.vinculos /\ w.stock = con
      /\ m.q.op \in IM => w.stock = v.stock /\ w.vinculos = v.vinculos /\ w.alertas = v.alertas
      /\ m.q.op \in IM /\ m.ok = TRUE => p = rec
      /\ m.q.op \in IM /\ m.ok # TRUE => p = <<>>
  BY <1>1, <1>2, <1>4 DEF IO, IM, ITiene, IContesta, Inventario!Recibir, Inventario!Queda, Inventario!Pide, Inventario!Inventa
<1>7. /\ \E q : ave = <<q>> /\ q.op = "alertas" /\ q.viva = TRUE
      /\ \E q : rec = <<q>> /\ q.op = "cargar" /\ q.viva = TRUE
  <2> DEFINE x == Inventario!Pedido("alertas", Inventario!Nadie, Nada)
             y == Inventario!Tras(Inventario!Pedido("cargar", Inventario!Nadie, Nada), m.q.op)
  <2>1. ave = <<x>> /\ rec = <<y>>
    OBVIOUS
  <2>2. x.op = "alertas" /\ x.viva = TRUE /\ y.op = "cargar" /\ y.viva = TRUE
    BY DEF Inventario!Pedido, Inventario!Tras
  <2> HIDE DEF x, y, ave, rec
  <2> QED BY <2>1, <2>2
<1> HIDE DEF p, r, u, m, b1, w, ave, rec
<1>8. /\ Vivas(p, <<>>) /\ Sucesion(p)
      /\ m.q.op \in IM /\ m.ok = TRUE => Hay(p, {"cargar"}) /\ Hay(p, {"cargar", "alertas"})
      /\ m.q.op = "ajustar" => Hay(p, {"cargar", "alertas"})
  <2>1. ASSUME NEW q, p = <<q>>, q.viva = TRUE PROVE Vivas(p, <<>>) /\ Sucesion(p) /\ \A N : Hay(p, N) <=> q.op \in N
    BY <2>1, PideUna
  <2>2. CASE m.q.op \in IM /\ m.ok = TRUE
    <3>1. PICK q : p = <<q>> /\ q.op = "cargar" /\ q.viva = TRUE
      BY <1>6, <1>7, <2>2
    <3>2. Vivas(p, <<>>) /\ Sucesion(p) /\ \A N : Hay(p, N) <=> q.op \in N
      BY <2>1, <3>1
    <3>3. q.op \in {"cargar"} /\ q.op \in {"cargar", "alertas"}
      BY <3>1
    <3>4. Hay(p, {"cargar"})
      BY <3>2, <3>3
    <3>5. Hay(p, {"cargar", "alertas"})
      BY <3>2, <3>3
    <3> QED BY <3>2, <3>4, <3>5
  <2>3. CASE m.q.op = "ajustar"
    <3>1. PICK q : p = <<q>> /\ q.op = "alertas" /\ q.viva = TRUE
      BY <1>6, <1>7, <2>3
    <3> QED BY <2>1, <2>3, <3>1 DEF IM
  <2>4. CASE ~(m.q.op \in IM /\ m.ok = TRUE) /\ m.q.op # "ajustar"
    <3>1. p = <<>>
      BY <1>1, <1>6, <2>4 DEF IO, IM
    <3> QED BY <2>4, <3>1, PideNada
  <2> QED BY <2>2, <2>3, <2>4
<1>9. Vivas(u, b1)
  BY <1>1, <1>2, <1>8, VivasLlega DEF u, b1
<1>10. \A k \in DOMAIN b1 : IContesta(b1[k])
  <2>1. Salen(b1, vuelta, {})
    BY <1>1, <1>2, SalenDe DEF b1
  <2> QED BY <1>2, <2>1 DEF Salen
<1>11. ITiene(w) /\ (m.q.op # "cargar" => DOMAIN w.stock = DOMAIN v.stock)
  <2>1. m.q.op = "cargar" => w.stock = [x \in DOMAIN w.stock |-> w.stock[x]]
    BY <1>2, <1>6 DEF IContesta, IForma
  <2>2. m.q.op = "ajustar" => w.stock = [x \in DOMAIN w.stock |-> w.stock[x]] /\ DOMAIN w.stock = DOMAIN v.stock
    BY <1>6
  <2>3. m.q.op \notin {"cargar", "ajustar"} => w.stock = v.stock
    BY <1>1, <1>6 DEF IO, IM
  <2> QED BY <1>2, <1>5, <2>1, <2>2, <2>3 DEF ITiene
<1> DEFINE Viene(c, P, P1, Y) ==
             /\ Fresca(ida, vuelta, c, P, Y)
             /\ \/ Hay(p, c.pide)
                \/ /\ m.ok = TRUE => m.q.op \notin c.relee
                   /\ Habla(m, c) /\ m.ok = TRUE /\ Dicho(m, c.dato) \in Y => P1
                   /\ ~Habla(m, c) /\ P => P1
<1>12. ASSUME NEW c, NEW P, NEW P1, NEW Y, Viene(c, P, P1, Y) PROVE Fresca(u, b1, c, P1, Y)
  BY <1>1, <1>2, <1>8, <1>12, FrescaRecibe DEF u, b1, m
<1>13. Fresca(u, b1, IVinculos, IVinculan(w, srv), {srv.vinculos})
  <2> DEFINE c == IVinculos
             P == IVinculan(v, srv)
             P1 == IVinculan(w, srv)
             Y == {srv.vinculos}
  <2>1. Fresca(ida, vuelta, c, P, Y)
    BY <1>2 DEF IFrescas
  <2>2. /\ c.pide = {"cargar"} /\ c.relee = IM /\ (Habla(m, c) <=> m.q.op = "cargar")
        /\ Dicho(m, c.dato) = m.datos["vinculos"]
    BY IHabla
  <2>3. m.q.op = "cargar" /\ m.ok = TRUE /\ Dicho(m, c.dato) \in Y => P1
    BY <1>2, <1>6, <2>2 DEF IVinculan, IContesta, IForma
  <2>4. m.q.op # "cargar" /\ P => P1
    <3>1. m.q.op # "cargar" => w.vinculos = v.vinculos
      BY <1>1, <1>6 DEF IO, IM
    <3> QED BY <1>11, <3>1 DEF IVinculan
  <2> HIDE DEF c, P, P1, Y
  <2>5. Viene(c, P, P1, Y)
    BY <1>8, <2>1, <2>2, <2>3, <2>4
  <2>6. Fresca(u, b1, c, P1, Y)
    BY <1>12, <2>5
  <2> QED BY <2>6 DEF c, P1, Y
<1>14. Fresca(u, b1, IAlertas, IAvisan(w, srv), {Inventario!Cortos(srv.stock)})
  <2> DEFINE c == IAlertas
             P == IAvisan(v, srv)
             P1 == IAvisan(w, srv)
             Y == {Inventario!Cortos(srv.stock)}
  <2>1. Fresca(ida, vuelta, c, P, Y)
    BY <1>2 DEF IFrescas
  <2>2. /\ c.pide = {"cargar", "alertas"} /\ c.relee = IM \cup {"ajustar"}
        /\ (Habla(m, c) <=> m.q.op \in {"cargar", "alertas"})
        /\ Dicho(m, c.dato) = m.datos["alertas"]
    BY IHabla
  <2>3. m.q.op \in {"cargar", "alertas"} /\ m.ok = TRUE /\ Dicho(m, c.dato) \in Y => P1
    BY <1>6, <2>2 DEF IAvisan
  <2>4. m.q.op \notin {"cargar", "alertas"} /\ P => P1
    BY <1>1, <1>6 DEF IO, IM, IAvisan
  <2> HIDE DEF c, P, P1, Y
  <2>5. Viene(c, P, P1, Y)
    BY <1>8, <2>1, <2>2, <2>3, <2>4
  <2>6. Fresca(u, b1, c, P1, Y)
    BY <1>12, <2>5
  <2> QED BY <2>6 DEF c, P1, Y
<1>15. ASSUME NEW j \in Inventario!Productos PROVE Fresca(u, b1, IStock(j), IQueda(w, srv, j), {srv.stock[j]})
  <2> DEFINE c == IStock(j)
             P == IQueda(v, srv, j)
             P1 == IQueda(w, srv, j)
             Y == {srv.stock[j]}
             propia == m.ok = TRUE /\ m.q.op = "ajustar" /\ m.q.id = j
  <2>1. Fresca(ida, vuelta, c, P, Y)
    BY <1>2 DEF IFrescas
  <2>2. /\ c.pide = {"cargar"} /\ c.relee = IM /\ (Habla(m, c) <=> m.q.op = "cargar" \/ propia)
        /\ Dicho(m, c.dato) = m.datos["stock"][j]
    BY IHabla
  <2>3. (m.q.op = "cargar" \/ propia) /\ Dicho(m, c.dato) \in Y => P1
    <3>1. CASE m.q.op = "cargar"
      BY <1>6, <2>2, <3>1 DEF IQueda
    <3>2. CASE propia
      <4>1. w.stock = con /\ n = j
        BY <1>6, <3>2
      <4>2. j \in DOMAIN w.stock => w.stock[j] = m.datos["stock"][j]
        BY <4>1
      <4> QED BY <2>2, <4>2 DEF IQueda
    <3> QED BY <3>1, <3>2
  <2>4. ~(m.q.op = "cargar" \/ propia) /\ P => P1
    <3>1. CASE m.q.op = "ajustar" /\ n # j
      <4>1. w.stock = con
        BY <1>6, <3>1
      <4>2. j \in DOMAIN w.stock => w.stock[j] = v.stock[j] /\ j \in DOMAIN v.stock
        BY <3>1, <4>1
      <4> QED BY <4>2 DEF IQueda
    <3>2. CASE m.q.op \notin {"cargar", "ajustar"}
      BY <1>1, <1>6, <3>2 DEF IO, IM, IQueda
    <3> QED BY <1>4, <3>1, <3>2
  <2> HIDE DEF c, P, P1, Y
  <2>5. Viene(c, P, P1, Y)
    BY <1>8, <2>1, <2>2, <2>3, <2>4
  <2>6. Fresca(u, b1, c, P1, Y)
    BY <1>12, <2>5
  <2> QED BY <2>6 DEF c, P1, Y
<1>16. IFrescas(w, srv, u, b1)
  BY <1>13, <1>14, <1>15 DEF IFrescas
<1> QED BY <1>4, <1>9, <1>10, <1>11, <1>16 DEF IFiel

LEMMA InventarioFielSigue == InventarioInv /\ InventarioFiel /\ Inventario!Next => InventarioFiel'
<1> SUFFICES ASSUME InventarioInv, InventarioFiel, Inventario!Next PROVE InventarioFiel'
  OBVIOUS
<1>1. /\ IBanco(srv)
      /\ dudosa # TRUE => IFiel(vista, srv, ida, vuelta) /\ ITiene(vista) /\ Sucesion(ida)
  BY DEF InventarioFiel, IFiel, Vivas
<1>2. IBanco(srv')
  <2>1. ASSUME NEW i, Inventario!Responde(i) PROVE IBanco(srv')
    <3>1. i \in DOMAIN ida /\ srv' \in {srv, Inventario!Servidor(srv, ida[i]).srv}
      BY <2>1 DEF Inventario!Responde, Inventario!Atiende
    <3>2. ida[i].op \in IO
      BY <3>1 DEF InventarioInv, Correo, SonPedidos, EsPedido
    <3>3. ISalida(srv, ida[i], Inventario!Servidor(srv, ida[i]))
      BY <1>1, <3>2, IBancoSigue
    <3> QED BY <1>1, <3>1, <3>3 DEF ISalida
  <2>2. ASSUME NEW i, Inventario!Recibe(i) PROVE srv' = srv
    BY <2>2 DEF Inventario!Recibe, Inventario!Llega
  <2> QED
    BY <1>1, <2>1, <2>2 DEF Inventario!Next, Inventario!AbrirDesarme, Inventario!AbrirVinculo, Inventario!CerrarModal,
       Inventario!Desarmar, Inventario!GuardarVinculo, Inventario!Ajustar, Inventario!Montar, Inventario!Toque
<1> SUFFICES ASSUME dudosa' # TRUE PROVE IFiel(vista', srv', ida', vuelta')
  BY <1>2 DEF InventarioFiel
<1> DEFINE Suya == /\ dudosa # TRUE /\ srv' = srv /\ vuelta' = vuelta /\ ITiene(vista')
                   /\ vista'.stock = vista.stock /\ vista'.vinculos = vista.vinculos /\ vista'.alertas = vista.alertas
<1>3. ASSUME Suya, NEW q, q.viva = TRUE, ida' = ida \o <<q>> PROVE IFiel(vista', srv', ida', vuelta')
  <2>1. Vivas(<<q>>, <<>>)
    BY <1>3, VivasUna
  <2> DEFINE p == <<q>>
  <2>2. Vivas(p, <<>>) /\ ida' = ida \o p
    BY <1>3, <2>1
  <2> HIDE DEF p
  <2> QED BY <1>1, <1>3, <2>2, IFielPide
<1>4. CASE Inventario!AbrirDesarme \/ Inventario!AbrirVinculo \/ Inventario!CerrarModal
  <2>1. Suya /\ ida' = ida \o <<>>
    BY <1>1, <1>4 DEF Inventario!AbrirDesarme, Inventario!AbrirVinculo, Inventario!CerrarModal, Inventario!Toque, ITiene
  <2> DEFINE p == <<>>
  <2>2. Vivas(p, <<>>) /\ ida' = ida \o p
    BY <2>1, VivasNada
  <2> HIDE DEF p
  <2> QED BY <1>1, <2>1, <2>2, IFielPide
<1>5. CASE Inventario!Desarmar
  <2> DEFINE q == Inventario!Pedido("desarmar", vista.vinculo, Nada)
  <2>1. Suya /\ ida' = ida \o <<q>>
    BY <1>1, <1>5 DEF Inventario!Desarmar, Inventario!Toque, ITiene
  <2>2. q.viva = TRUE
    BY DEF Inventario!Pedido
  <2> HIDE DEF q
  <2> QED BY <1>3, <2>1, <2>2
<1>6. CASE Inventario!GuardarVinculo
  <2>1. \E op, id, datos, modal : Inventario!Toque(Inventario!Ocupar(modal), <<Inventario!Pedido(op, id, datos)>>)
    BY <1>6 DEF Inventario!GuardarVinculo
  <2>2. PICK op, id, datos, modal : Inventario!Toque(Inventario!Ocupar(modal), <<Inventario!Pedido(op, id, datos)>>)
    BY <2>1
  <2> DEFINE q == Inventario!Pedido(op, id, datos)
  <2>3. q.viva = TRUE
    BY DEF Inventario!Pedido
  <2>4. Suya /\ ida' = ida \o <<q>>
    <3> HIDE DEF q
    <3>1. /\ dudosa # TRUE /\ srv' = srv /\ vuelta' = vuelta /\ ida' = ida \o <<q>>
          /\ vista' = [vista EXCEPT !.guardando = @ \cup {modal}]
      BY <1>1, <2>2 DEF Inventario!Toque, Inventario!Ocupar, q
    <3> QED BY <1>1, <3>1 DEF ITiene
  <2> HIDE DEF q
  <2> QED BY <1>3, <2>3, <2>4
<1>7. CASE Inventario!Ajustar
  <2>1. \E op, id, datos : Inventario!Toque(vista, <<Inventario!Pedido(op, id, datos)>>)
    BY <1>7 DEF Inventario!Ajustar
  <2>2. PICK op, id, datos : Inventario!Toque(vista, <<Inventario!Pedido(op, id, datos)>>)
    BY <2>1
  <2> DEFINE q == Inventario!Pedido(op, id, datos)
  <2>3. q.viva = TRUE
    BY DEF Inventario!Pedido
  <2>4. Suya /\ ida' = ida \o <<q>>
    BY <1>1, <2>2 DEF Inventario!Toque
  <2> HIDE DEF q
  <2> QED BY <1>3, <2>3, <2>4
<1>8. CASE Inventario!Montar(Inventario!VistaInicial, Inventario!Cargar)
  <2>1. PICK q : Inventario!Cargar = <<q>> /\ q.op = "cargar" /\ q.viva = TRUE
    BY ICargar
  <2>2. /\ ida' = Huerfanos(ida) \o <<q>> /\ vuelta' = HuerfanasDe(vuelta) /\ srv' = srv
        /\ ida = <<>> /\ vuelta = <<>> /\ vista' = Inventario!VistaInicial
    BY <1>8, <2>1 DEF Inventario!Montar, Inventario!Huerfanos, Huerfanos,
       Inventario!HuerfanasDe, HuerfanasDe, Inventario!EnReposo
  <2>3. ida' = <<q>> /\ vuelta' = <<>>
    BY <2>2, NadieEnReposo
  <2>4. ITiene(vista')
    <3>1. <<>> = [x \in DOMAIN <<>> |-> <<>>[x]]
      BY SucesionUna
    <3> QED BY <2>2, <3>1 DEF ITiene, Inventario!VistaInicial
  <2> QED BY <2>1, <2>2, <2>3, <2>4, IFielMonta
<1>9. ASSUME NEW i, Inventario!Responde(i) \/ Inventario!Recibe(i) PROVE IFiel(vista', srv', ida', vuelta')
  BY <1>9, IFielResponde, IFielRecibe
<1> QED BY <1>4, <1>5, <1>6, <1>7, <1>8, <1>9 DEF Inventario!Next

LEMMA InventarioFielEmpieza == Inventario!Init => InventarioFiel
<1> SUFFICES ASSUME Inventario!Init PROVE IBanco(srv) /\ IFiel(vista, srv, ida, vuelta)
  BY DEF InventarioFiel
<1>1. PICK q : Inventario!Cargar = <<q>> /\ q.op = "cargar" /\ q.viva = TRUE
  BY ICargar
<1>2. ida = <<q>> /\ vuelta = <<>> /\ vista = Inventario!VistaInicial
  BY <1>1 DEF Inventario!Init, Inventario!PeticionesInit
<1>3. ITiene(vista)
  <2>1. <<>> = [x \in DOMAIN <<>> |-> <<>>[x]]
    BY SucesionUna
  <2> QED BY <1>2, <2>1 DEF ITiene, Inventario!VistaInicial
<1>4. IBanco(srv)
  BY DEF Inventario!Init, IBanco, IForma
<1> QED BY <1>1, <1>2, <1>3, <1>4, IFielMonta

LEMMA InventarioFielDice == InventarioFiel /\ EnReposo /\ dudosa # TRUE => Inventario!Mostrado
<1> SUFFICES ASSUME IBanco(srv), IFiel(vista, srv, <<>>, <<>>) PROVE Inventario!Mostrado
  BY DEF InventarioFiel, EnReposo
<1> DEFINE f == vista.stock
           g == srv.stock
<1>1. ASSUME NEW c, NEW P, NEW Y, Fresca(<<>>, <<>>, c, P, Y) PROVE P
  BY <1>1, FrescaEnReposo
<1>2. IVinculan(vista, srv) /\ IAvisan(vista, srv)
  BY <1>1 DEF IFiel, IFrescas
<1>3. ASSUME NEW p \in Inventario!Productos PROVE IQueda(vista, srv, p)
  <2>1. Fresca(<<>>, <<>>, IStock(p), IQueda(vista, srv, p), {srv.stock[p]})
    BY DEF IFiel, IFrescas
  <2> QED BY <1>1, <2>1
<1>4. /\ f = [x \in DOMAIN f |-> f[x]] /\ g = [x \in DOMAIN g |-> g[x]]
      /\ DOMAIN f = DOMAIN g /\ DOMAIN g = Inventario!Productos
  BY <1>2 DEF IFiel, ITiene, IBanco, IForma, IVinculan
<1>5. \A x \in DOMAIN g : f[x] = g[x]
  BY <1>3, <1>4 DEF IQueda
<1> HIDE DEF f, g
<1>6. f = g
  BY <1>4, <1>5
<1>7. Inventario!Criticos = Inventario!Cortos(g)
  BY <1>2, <1>6 DEF Inventario!Criticos, IAvisan, f, g
<1> QED BY <1>2, <1>6, <1>7 DEF f, g, Inventario!Mostrado, IVinculan

LEMMA InventarioFielQuieta == InventarioFiel /\ UNCHANGED vars => InventarioFiel'
<1> SUFFICES ASSUME InventarioFiel, UNCHANGED vars PROVE InventarioFiel'
  OBVIOUS
<1>1. vista' = vista /\ srv' = srv /\ ida' = ida /\ vuelta' = vuelta /\ dudosa' = dudosa
  BY DEF vars
<1>2. IBanco(srv) /\ (dudosa # TRUE => IFiel(vista, srv, ida, vuelta))
  BY DEF InventarioFiel
<1>3. IBanco(srv') /\ (dudosa' # TRUE => IFiel(vista', srv', ida', vuelta'))
  BY <1>1, <1>2
<1> QED BY <1>3 DEF InventarioFiel
=============================================================================
