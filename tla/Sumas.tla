------------------------------- MODULE Sumas -------------------------------
(***************************************************************************)
(* Lemmas about SumFunctionOnSet of the community modules: which term is   *)
(* taken first does not matter, and what one term more, one term changed   *)
(* or a sum of terms makes of the sum.  A recursive definition is reasoned *)
(* about through its smallest counterexample: a nonempty set of numbers    *)
(* has a least member.                                                     *)
(***************************************************************************)
EXTENDS Functions, Integers, FiniteSetTheorems, WellFoundedInduction, TLAPS

\* A nonempty set of natural numbers has a least member.
LEMMA Minimo ==
    ASSUME NEW T, T \subseteq Nat, T # {}
    PROVE  \E n \in T : \A m \in T : n <= m
<1> DEFINE R == {p \in Nat \X Nat : p[1] < p[2]}
<1>1. IsWellFoundedOn(R, Nat)
  <2>1. SUFFICES ASSUME NEW f \in [Nat -> Nat], \A n \in Nat : <<f[n+1], f[n]>> \in R PROVE FALSE
    BY DEF IsWellFoundedOn
  <2>2. \A n \in Nat : f[n+1] < f[n]
    BY <2>1
  <2> QED
    BY <2>2, NatLessThanWellFounded DEF OpToRel, IsWellFoundedOn
<1>2. \E n \in T : \A m \in T : ~ (<<m, n>> \in R)
  <2> HIDE DEF R
  <2> QED BY <1>1, WFMin
<1>3. PICK n \in T : \A m \in T : ~ (<<m, n>> \in R)
  BY <1>2
<1>4. \A m \in T : n <= m
  <2> TAKE m \in T
  <2>1. n \in Nat /\ m \in Nat
    OBVIOUS
  <2>2. ~ (<<m, n>> \in R)
    BY <1>3
  <2>3. ~(m < n)
    BY <2>1, <2>2
  <2> QED BY <2>1, <2>3
<1> QED BY <1>4

\* The function MapThenFoldSet builds: the sum of f over each subset of S.
Acumula(f, S) ==
    CHOOSE g : g = [s \in SUBSET S |->
        IF s = {} THEN 0
        ELSE LET x == CHOOSE x \in s : TRUE IN f[x] + g[s \ {x}]]

LEMMA SumaEsAcumula ==
    ASSUME NEW f, NEW S
    PROVE  SumFunctionOnSet(f, S) = Acumula(f, S)[S]
BY DEF SumFunctionOnSet, FoldFunctionOnSet, MapThenFoldSet, Acumula

\* g adds f up over every subset of S with at most n elements.
SumaHasta(g, f, S, n) ==
    g = [s \in {t \in SUBSET S : Cardinality(t) <= n} |->
            IF s = {} THEN 0
            ELSE LET x == CHOOSE x \in s : TRUE IN f[x] + g[s \ {x}]]

LEMMA QuitarUno ==
    ASSUME NEW S, IsFiniteSet(S), NEW x \in S
    PROVE  /\ IsFiniteSet(S \ {x})
           /\ Cardinality(S) \in Nat /\ Cardinality(S \ {x}) \in Nat
           /\ Cardinality(S \ {x}) = Cardinality(S) - 1
           /\ Cardinality(S) > 0
<1>1. IsFiniteSet(S \ {x}) /\ Cardinality(S \ {x}) = Cardinality(S) - 1
  BY FS_RemoveElement
<1>2. Cardinality(S) \in Nat /\ Cardinality(S \ {x}) \in Nat
  BY <1>1, FS_CardinalityType
<1> QED BY <1>1, <1>2

LEMMA SinUnoEsMenor ==
    ASSUME NEW S, IsFiniteSet(S), NEW x \in S
    PROVE  ~(Cardinality(S) <= Cardinality(S \ {x}))
BY QuitarUno

LEMMA SumaHastaExiste ==
    ASSUME NEW f, NEW S, IsFiniteSet(S), NEW n \in Nat
    PROVE  \E g : SumaHasta(g, f, S, n)
<1> DEFINE T == {m \in Nat : ~ \E g : SumaHasta(g, f, S, m)}
<1>1. SUFFICES ASSUME T # {} PROVE FALSE
  OBVIOUS
<1>2. PICK m \in T : \A k \in T : m <= k
  BY <1>1, Minimo
<1>3. m \in Nat /\ ~ \E g : SumaHasta(g, f, S, m)
  OBVIOUS
<1>4. PICK g : m = 0 \/ SumaHasta(g, f, S, m - 1)
  <2>1. CASE m = 0
    BY <2>1
  <2>2. CASE m # 0
    <3>1. m - 1 \in Nat /\ ~(m <= m - 1)
      BY <1>3, <2>2
    <3>2. m - 1 \notin T
      BY <1>2, <3>1
    <3> QED BY <3>1, <3>2
  <2> QED BY <2>1, <2>2
<1> DEFINE Elegido(s) == CHOOSE x \in s : TRUE
           D == {t \in SUBSET S : Cardinality(t) <= m}
           h == [s \in D |-> IF s = {} THEN 0 ELSE f[Elegido(s)] + g[s \ {Elegido(s)}]]
<1>5. ASSUME NEW s \in D, s # {}
      PROVE  h[s \ {Elegido(s)}] = g[s \ {Elegido(s)}]
  <2> DEFINE x == Elegido(s)
             q == s \ {x}
  <2>1. x \in s
    BY <1>5
  <2>2. IsFiniteSet(s)
    BY FS_Subset
  <2>3. /\ IsFiniteSet(q) /\ Cardinality(s) \in Nat /\ Cardinality(q) \in Nat
        /\ Cardinality(q) = Cardinality(s) - 1 /\ Cardinality(s) > 0
    <3> HIDE DEF x
    <3> QED BY <2>1, <2>2, QuitarUno
  <2>4. Cardinality(s) <= m /\ s \in SUBSET S
    OBVIOUS
  <2>5. q \in SUBSET S
    BY <2>4
  <2>6. Cardinality(q) <= m - 1 /\ Cardinality(q) <= m /\ m # 0
    <3> HIDE DEF q
    <3> QED BY <2>3, <2>4, <1>3
  <2>7. q \in D
    BY <2>5, <2>6
  <2>8. g[q] = IF q = {} THEN 0 ELSE f[Elegido(q)] + g[q \ {Elegido(q)}]
    <3> HIDE DEF q
    <3> QED BY <1>4, <2>5, <2>6 DEF SumaHasta
  <2>9. h[q] = IF q = {} THEN 0 ELSE f[Elegido(q)] + g[q \ {Elegido(q)}]
    <3> HIDE DEF q
    <3> QED BY <2>7
  <2> QED BY <2>8, <2>9
<1>6. SumaHasta(h, f, S, m)
  <2>1. h = [s \in D |-> IF s = {} THEN 0 ELSE f[Elegido(s)] + h[s \ {Elegido(s)}]]
    <3>1. h = [s \in D |-> h[s]]
      OBVIOUS
    <3>2. ASSUME NEW s \in D
          PROVE  h[s] = IF s = {} THEN 0 ELSE f[Elegido(s)] + h[s \ {Elegido(s)}]
      <4>1. h[s] = IF s = {} THEN 0 ELSE f[Elegido(s)] + g[s \ {Elegido(s)}]
        BY Zenon
      <4> HIDE DEF h
      <4> QED BY <4>1, <1>5
    <3> HIDE DEF h, D, Elegido
    <3> QED BY <3>1, <3>2, Zenon
  <2> QED BY <2>1 DEF SumaHasta
<1> QED BY <1>3, <1>6

LEMMA AcumulaEcuacion ==
    ASSUME NEW f, NEW S, IsFiniteSet(S), NEW s \in SUBSET S
    PROVE  Acumula(f, S)[s] =
               IF s = {} THEN 0
               ELSE LET x == CHOOSE x \in s : TRUE IN f[x] + Acumula(f, S)[s \ {x}]
<1>1. Cardinality(S) \in Nat
  BY FS_CardinalityType
<1>2. PICK h : SumaHasta(h, f, S, Cardinality(S))
  BY <1>1, SumaHastaExiste
<1>3. {t \in SUBSET S : Cardinality(t) <= Cardinality(S)} = SUBSET S
  BY FS_Subset
<1>4. h = [t \in SUBSET S |->
              IF t = {} THEN 0
              ELSE LET x == CHOOSE x \in t : TRUE IN f[x] + h[t \ {x}]]
  BY <1>2, <1>3 DEF SumaHasta
<1>5. Acumula(f, S) = [t \in SUBSET S |->
              IF t = {} THEN 0
              ELSE LET x == CHOOSE x \in t : TRUE IN f[x] + Acumula(f, S)[t \ {x}]]
  BY <1>4, Zenon DEF Acumula
<1> QED BY <1>5, Zenon

\* The part of Acumula below s does not depend on the set it was built for.
LEMMA AcumulaLocal ==
    ASSUME NEW f, NEW S, IsFiniteSet(S), NEW s \in SUBSET S
    PROVE  Acumula(f, S)[s] = Acumula(f, s)[s]
<1> DEFINE Mal == {q \in SUBSET s : Acumula(f, S)[q] # Acumula(f, s)[q]}
           T == {Cardinality(q) : q \in Mal}
<1>0. IsFiniteSet(s)
  BY FS_Subset
<1>1. SUFFICES ASSUME Mal # {} PROVE FALSE
  OBVIOUS
<1>2. T \subseteq Nat /\ T # {}
  <2>1. \A q \in SUBSET s : Cardinality(q) \in Nat
    BY <1>0, FS_Subset, FS_CardinalityType
  <2> QED BY <1>1, <2>1
<1>3. PICK q \in Mal : \A t \in Mal : Cardinality(q) <= Cardinality(t)
  <2>1. PICK n \in T : \A m \in T : n <= m
    <3> HIDE DEF T
    <3> QED BY <1>2, Minimo
  <2>2. PICK q \in Mal : n = Cardinality(q)
    OBVIOUS
  <2> QED BY <2>1, <2>2
<1> DEFINE x == CHOOSE x \in q : TRUE
           r == q \ {x}
<1>4. q \in SUBSET s /\ q \in SUBSET S /\ r \in SUBSET s /\ r \in SUBSET S
  OBVIOUS
<1>5. Acumula(f, S)[q] = IF q = {} THEN 0 ELSE f[x] + Acumula(f, S)[r]
  <2> HIDE DEF Mal
  <2> QED BY <1>4, AcumulaEcuacion, Zenon
<1>6. Acumula(f, s)[q] = IF q = {} THEN 0 ELSE f[x] + Acumula(f, s)[r]
  <2> HIDE DEF Mal
  <2> QED BY <1>0, <1>4, AcumulaEcuacion, Zenon
<1>7. q # {} /\ Acumula(f, S)[r] # Acumula(f, s)[r]
  <2> Acumula(f, S)[q] # Acumula(f, s)[q]
    OBVIOUS
  <2> HIDE DEF Mal, r, x
  <2> QED BY <1>5, <1>6
<1>8. r \in Mal
  BY <1>4, <1>7
<1>9. x \in q /\ IsFiniteSet(q)
  BY <1>7, <1>0, <1>4, FS_Subset
<1>10. Cardinality(q) \in Nat /\ Cardinality(r) \in Nat /\ Cardinality(r) = Cardinality(q) - 1
  <2> HIDE DEF x, Mal
  <2> QED BY <1>9, QuitarUno
<1>11. Cardinality(q) <= Cardinality(r)
  BY <1>3, <1>8
<1> QED BY <1>10, <1>11

-----------------------------------------------------------------------------

LEMMA SumaVacia ==
    ASSUME NEW f
    PROVE  SumFunctionOnSet(f, {}) = 0
BY FS_EmptySet, AcumulaEcuacion, SumaEsAcumula

LEMMA SumaElegida ==
    ASSUME NEW f, NEW S, IsFiniteSet(S), S # {}
    PROVE  \E x \in S : SumFunctionOnSet(f, S) = f[x] + SumFunctionOnSet(f, S \ {x})
<1> DEFINE x == CHOOSE x \in S : TRUE
           r == S \ {x}
<1>1. x \in S /\ r \in SUBSET S
  OBVIOUS
<1>2. Acumula(f, S)[S] = f[x] + Acumula(f, S)[r]
  BY AcumulaEcuacion
<1>3. Acumula(f, S)[r] = Acumula(f, r)[r]
  <2> HIDE DEF r
  <2> QED BY <1>1, AcumulaLocal
<1> HIDE DEF x
<1> QED BY <1>1, <1>2, <1>3, SumaEsAcumula

\* A nonempty family of finite sets has a member that none of the others is
\* smaller than.
LEMMA MenorConjunto ==
    ASSUME NEW F, F # {}, \A s \in F : IsFiniteSet(s)
    PROVE  \E s \in F : \A t \in F : Cardinality(s) <= Cardinality(t)
<1> DEFINE T == {Cardinality(s) : s \in F}
<1>1. T \subseteq Nat /\ T # {}
  BY FS_CardinalityType
<1>2. PICK n \in T : \A m \in T : n <= m
  <2> HIDE DEF T
  <2> QED BY <1>1, Minimo
<1>3. PICK s \in F : n = Cardinality(s)
  OBVIOUS
<1> QED BY <1>2, <1>3

LEMMA SumaEntera ==
    ASSUME NEW f, NEW S, IsFiniteSet(S), \A x \in S : f[x] \in Int
    PROVE  SumFunctionOnSet(f, S) \in Int
<1> DEFINE Mal == {s \in SUBSET S : SumFunctionOnSet(f, s) \notin Int}
<1>1. SUFFICES ASSUME Mal # {} PROVE FALSE
  OBVIOUS
<1>2. \A s \in SUBSET S : IsFiniteSet(s)
  BY FS_Subset
<1>3. PICK s \in Mal : \A t \in Mal : Cardinality(s) <= Cardinality(t)
  <2>1. \A t \in Mal : IsFiniteSet(t)
    BY <1>2
  <2> HIDE DEF Mal
  <2> QED BY <1>1, <2>1, MenorConjunto
<1>4. IsFiniteSet(s) /\ s \subseteq S
  BY <1>2
<1>5. s # {}
  BY SumaVacia
<1>6. PICK x \in s : SumFunctionOnSet(f, s) = f[x] + SumFunctionOnSet(f, s \ {x})
  BY <1>4, <1>5, SumaElegida
<1>7. s \ {x} \in Mal
  BY <1>4, <1>6
<1>8. Cardinality(s) <= Cardinality(s \ {x})
  BY <1>3, <1>7
<1> QED BY <1>4, <1>8, QuitarUno

\* Any element may be taken out of a sum first.
LEMMA SumaQuita ==
    ASSUME NEW f, NEW S, IsFiniteSet(S), \A x \in S : f[x] \in Int, NEW a \in S
    PROVE  SumFunctionOnSet(f, S) = f[a] + SumFunctionOnSet(f, S \ {a})
<1> DEFINE Suma(s) == SumFunctionOnSet(f, s)
           Mal == {s \in SUBSET S : \E b \in s : Suma(s) # f[b] + Suma(s \ {b})}
<1>1. SUFFICES ASSUME Mal # {} PROVE FALSE
  OBVIOUS
<1>2. \A s \in SUBSET S : IsFiniteSet(s) /\ \A x \in s : f[x] \in Int
  BY FS_Subset
<1>3. PICK s \in Mal : \A t \in Mal : Cardinality(s) <= Cardinality(t)
  <2>1. \A t \in Mal : IsFiniteSet(t)
    BY <1>2
  <2> HIDE DEF Mal
  <2> QED BY <1>1, <2>1, MenorConjunto
<1>4. PICK b \in s : Suma(s) # f[b] + Suma(s \ {b})
  OBVIOUS
<1>5. IsFiniteSet(s) /\ s \subseteq S /\ s # {}
  BY <1>2, <1>4
<1>6. PICK x \in s : Suma(s) = f[x] + Suma(s \ {x})
  BY <1>5, SumaElegida
<1>7. x # b
  BY <1>4, <1>6
<1>8. s \ {x} \notin Mal /\ s \ {b} \notin Mal
  <2>1. ~(Cardinality(s) <= Cardinality(s \ {x})) /\ ~(Cardinality(s) <= Cardinality(s \ {b}))
    <3> HIDE DEF Mal
    <3> QED BY <1>5, SinUnoEsMenor
  <2> HIDE DEF Mal
  <2> QED BY <2>1, <1>3
<1>9. Suma(s \ {x}) = f[b] + Suma((s \ {x}) \ {b})
  BY <1>5, <1>7, <1>8
<1>10. Suma(s \ {b}) = f[x] + Suma((s \ {b}) \ {x})
  BY <1>5, <1>7, <1>8
<1>11. (s \ {x}) \ {b} = (s \ {b}) \ {x}
  OBVIOUS
<1>12. Suma((s \ {b}) \ {x}) \in Int /\ f[b] \in Int /\ f[x] \in Int
  <2>1. (s \ {b}) \ {x} \in SUBSET S
    BY <1>5
  <2> QED BY <1>2, <1>5, <2>1, SumaEntera
<1>13. Suma((s \ {x}) \ {b}) = Suma((s \ {b}) \ {x})
  BY <1>11
<1> DEFINE resto == Suma((s \ {b}) \ {x})
<1>14. Suma(s) = f[x] + (f[b] + resto) /\ f[b] + Suma(s \ {b}) = f[b] + (f[x] + resto)
  BY <1>6, <1>9, <1>10, <1>13
<1> HIDE DEF resto, Suma
<1>15. f[b] \in Int /\ f[x] \in Int /\ resto \in Int
  BY <1>12 DEF resto
<1>16. f[x] + (f[b] + resto) = f[b] + (f[x] + resto)
  BY <1>15
<1> QED BY <1>4, <1>14, <1>16

-----------------------------------------------------------------------------

LEMMA SumaMas ==
    ASSUME NEW f, NEW g, NEW h, NEW S, IsFiniteSet(S),
           \A x \in S : f[x] \in Int /\ g[x] \in Int /\ h[x] = f[x] + g[x]
    PROVE  SumFunctionOnSet(h, S) = SumFunctionOnSet(f, S) + SumFunctionOnSet(g, S)
<1> DEFINE F(s) == SumFunctionOnSet(f, s)
           G(s) == SumFunctionOnSet(g, s)
           H(s) == SumFunctionOnSet(h, s)
           Mal == {s \in SUBSET S : H(s) # F(s) + G(s)}
<1>1. SUFFICES ASSUME Mal # {} PROVE FALSE
  OBVIOUS
<1>2. \A s \in SUBSET S : IsFiniteSet(s)
  BY FS_Subset
<1>3. PICK s \in Mal : \A t \in Mal : Cardinality(s) <= Cardinality(t)
  <2>1. \A t \in Mal : IsFiniteSet(t)
    BY <1>2
  <2> HIDE DEF Mal
  <2> QED BY <1>1, <2>1, MenorConjunto
<1>4. IsFiniteSet(s) /\ s \subseteq S /\ H(s) # F(s) + G(s)
  BY <1>2
<1>5. s # {}
  BY <1>4, SumaVacia
<1>6. PICK x \in s : H(s) = h[x] + H(s \ {x})
  BY <1>4, <1>5, SumaElegida
<1>7. F(s) = f[x] + F(s \ {x})
  <2>1. \A y \in s : f[y] \in Int
    BY <1>4
  <2> HIDE DEF Mal
  <2> QED BY <1>4, <2>1, SumaQuita
<1>8. G(s) = g[x] + G(s \ {x})
  <2>1. \A y \in s : g[y] \in Int
    BY <1>4
  <2> HIDE DEF Mal
  <2> QED BY <1>4, <2>1, SumaQuita
<1>9. ~(Cardinality(s) <= Cardinality(s \ {x}))
  <2> HIDE DEF Mal
  <2> QED BY <1>4, SinUnoEsMenor
<1>10. H(s \ {x}) = F(s \ {x}) + G(s \ {x})
  <2>1. s \ {x} \notin Mal
    <3> HIDE DEF Mal
    <3> QED BY <1>3, <1>9
  <2> QED BY <1>4, <2>1
<1>11. F(s \ {x}) \in Int /\ G(s \ {x}) \in Int
  <2>1. IsFiniteSet(s \ {x}) /\ \A y \in s \ {x} : f[y] \in Int /\ g[y] \in Int
    BY <1>2, <1>4
  <2> HIDE DEF Mal
  <2> QED BY <2>1, SumaEntera
<1>12. f[x] \in Int /\ g[x] \in Int /\ h[x] = f[x] + g[x]
  BY <1>4
<1> HIDE DEF F, G, H, Mal
<1> QED BY <1>4, <1>6, <1>7, <1>8, <1>10, <1>11, <1>12

LEMMA SumaCero ==
    ASSUME NEW f, NEW S, IsFiniteSet(S), \A x \in S : f[x] = 0
    PROVE  SumFunctionOnSet(f, S) = 0
<1>1. SumFunctionOnSet(f, S) = SumFunctionOnSet(f, S) + SumFunctionOnSet(f, S)
  BY SumaMas
<1>2. SumFunctionOnSet(f, S) \in Int
  BY SumaEntera
<1>3. \A k \in Int : k = k + k => k = 0
  OBVIOUS
<1> QED BY <1>1, <1>2, <1>3

LEMMA SumaIgual ==
    ASSUME NEW f, NEW g, NEW S, IsFiniteSet(S),
           \A x \in S : f[x] \in Int /\ g[x] = f[x]
    PROVE  SumFunctionOnSet(g, S) = SumFunctionOnSet(f, S)
<1> DEFINE z == [x \in S |-> 0]
<1>1. SumFunctionOnSet(z, S) = 0
  BY SumaCero
<1>2. SumFunctionOnSet(g, S) = SumFunctionOnSet(f, S) + SumFunctionOnSet(z, S)
  <2>1. \A x \in S : f[x] \in Int /\ z[x] \in Int /\ g[x] = f[x] + z[x]
    OBVIOUS
  <2> HIDE DEF z
  <2> QED BY <2>1, SumaMas
<1>3. SumFunctionOnSet(f, S) \in Int
  BY SumaEntera
<1> QED BY <1>1, <1>2, <1>3

\* Changing one term changes the sum by as much.
LEMMA SumaCambia ==
    ASSUME NEW f, NEW g, NEW S, IsFiniteSet(S), NEW a \in S,
           \A x \in S : f[x] \in Int /\ g[x] \in Int,
           \A x \in S : x # a => g[x] = f[x]
    PROVE  SumFunctionOnSet(g, S) = SumFunctionOnSet(f, S) + (g[a] - f[a])
<1>1. IsFiniteSet(S \ {a})
  BY FS_Subset
<1>2. SumFunctionOnSet(g, S \ {a}) = SumFunctionOnSet(f, S \ {a})
  BY <1>1, SumaIgual
<1>3. SumFunctionOnSet(f, S \ {a}) \in Int
  BY <1>1, SumaEntera
<1>4. /\ SumFunctionOnSet(f, S) = f[a] + SumFunctionOnSet(f, S \ {a})
      /\ SumFunctionOnSet(g, S) = g[a] + SumFunctionOnSet(g, S \ {a})
  BY SumaQuita
<1> QED BY <1>2, <1>3, <1>4

LEMMA SumaAgrega ==
    ASSUME NEW f, NEW S, NEW a, a \notin S, IsFiniteSet(S),
           \A x \in S \cup {a} : f[x] \in Int
    PROVE  SumFunctionOnSet(f, S \cup {a}) = SumFunctionOnSet(f, S) + f[a]
<1>1. IsFiniteSet(S \cup {a})
  BY FS_AddElement
<1>2. SumFunctionOnSet(f, S \cup {a}) = f[a] + SumFunctionOnSet(f, (S \cup {a}) \ {a})
  BY <1>1, SumaQuita
<1>3. (S \cup {a}) \ {a} = S
  OBVIOUS
<1>4. SumFunctionOnSet(f, S) \in Int
  BY SumaEntera
<1>5. \A i, j \in Int : i + j = j + i
  OBVIOUS
<1>6. f[a] \in Int
  OBVIOUS
<1> QED BY <1>2, <1>3, <1>4, <1>5, <1>6

\* The sum of the first n terms of a sequence of numbers.
LEMMA SumaTramo ==
    ASSUME NEW f, NEW n \in Nat, \A i \in 1 .. (n + 1) : f[i] \in Int
    PROVE  /\ SumFunctionOnSet(f, 1 .. (n + 1)) = SumFunctionOnSet(f, 1 .. n) + f[n + 1]
           /\ SumFunctionOnSet(f, 1 .. n) \in Int
<1>1. IsFiniteSet(1 .. n)
  BY FS_Interval
<1>2. 1 .. (n + 1) = (1 .. n) \cup {n + 1} /\ n + 1 \notin 1 .. n
  OBVIOUS
<1>3. \A i \in (1 .. n) \cup {n + 1} : f[i] \in Int
  BY <1>2
<1>4. SumFunctionOnSet(f, (1 .. n) \cup {n + 1}) = SumFunctionOnSet(f, 1 .. n) + f[n + 1]
  <2> DEFINE S == 1 .. n
             a == n + 1
  <2>1. IsFiniteSet(S) /\ a \notin S /\ \A i \in S \cup {a} : f[i] \in Int
    BY <1>1, <1>2, <1>3
  <2> HIDE DEF S, a
  <2>2. SumFunctionOnSet(f, S \cup {a}) = SumFunctionOnSet(f, S) + f[a]
    BY <2>1, SumaAgrega
  <2> QED BY <2>2 DEF S, a
<1>5. SumFunctionOnSet(f, 1 .. n) \in Int
  BY <1>1, <1>3, SumaEntera
<1> QED BY <1>2, <1>4, <1>5

\* A sum of natural numbers is one, and none of its terms exceeds it.
LEMMA SumaNatural ==
    ASSUME NEW f, NEW S, IsFiniteSet(S), \A x \in S : f[x] \in Nat
    PROVE  SumFunctionOnSet(f, S) \in Nat
<1> DEFINE Mal == {s \in SUBSET S : SumFunctionOnSet(f, s) \notin Nat}
<1>1. SUFFICES ASSUME Mal # {} PROVE FALSE
  OBVIOUS
<1>2. \A s \in SUBSET S : IsFiniteSet(s)
  BY FS_Subset
<1>3. PICK s \in Mal : \A t \in Mal : Cardinality(s) <= Cardinality(t)
  <2>1. \A t \in Mal : IsFiniteSet(t)
    BY <1>2
  <2> HIDE DEF Mal
  <2> QED BY <1>1, <2>1, MenorConjunto
<1>4. IsFiniteSet(s) /\ s \subseteq S
  BY <1>2
<1>5. s # {}
  BY SumaVacia
<1>6. PICK x \in s : SumFunctionOnSet(f, s) = f[x] + SumFunctionOnSet(f, s \ {x})
  BY <1>4, <1>5, SumaElegida
<1>7. s \ {x} \in Mal
  BY <1>4, <1>6
<1>8. Cardinality(s) <= Cardinality(s \ {x})
  BY <1>3, <1>7
<1> QED BY <1>4, <1>8, QuitarUno

LEMMA SumaParte ==
    ASSUME NEW f, NEW S, IsFiniteSet(S), \A x \in S : f[x] \in Nat, NEW a \in S
    PROVE  f[a] <= SumFunctionOnSet(f, S)
<1>1. SumFunctionOnSet(f, S) = f[a] + SumFunctionOnSet(f, S \ {a})
  BY SumaQuita
<1>2. IsFiniteSet(S \ {a})
  BY FS_Subset
<1>3. SumFunctionOnSet(f, S \ {a}) \in Nat
  BY <1>2, SumaNatural
<1>4. f[a] \in Nat
  OBVIOUS
<1> QED BY <1>1, <1>3, <1>4

\* Term by term no larger, no larger as a sum.
LEMMA SumaCrece ==
    ASSUME NEW f, NEW g, NEW S, IsFiniteSet(S),
           \A x \in S : f[x] \in Int /\ g[x] \in Int /\ f[x] <= g[x]
    PROVE  SumFunctionOnSet(f, S) <= SumFunctionOnSet(g, S)
<1> DEFINE d == [x \in S |-> g[x] - f[x]]
<1>1. \A x \in S : d[x] \in Nat /\ g[x] = f[x] + d[x]
  OBVIOUS
<1> HIDE DEF d
<1>2. SumFunctionOnSet(g, S) = SumFunctionOnSet(f, S) + SumFunctionOnSet(d, S)
  <2>1. \A x \in S : f[x] \in Int /\ d[x] \in Int /\ g[x] = f[x] + d[x]
    BY <1>1
  <2> QED BY <2>1, SumaMas
<1>3. SumFunctionOnSet(d, S) \in Nat /\ SumFunctionOnSet(f, S) \in Int
  BY <1>1, SumaNatural, SumaEntera
<1> QED BY <1>2, <1>3

\* With at most one term that is not 0, the sum is within the bound of the terms.
LEMMA SumaDeUna ==
    ASSUME NEW f, NEW S, IsFiniteSet(S), NEW b \in Nat,
           \A x \in S : f[x] \in 0 .. b,
           \A x, y \in S : f[x] # 0 /\ f[y] # 0 => x = y
    PROVE  SumFunctionOnSet(f, S) <= b
<1>1. CASE \A x \in S : f[x] = 0
  <2>1. SumFunctionOnSet(f, S) = 0
    BY <1>1, SumaCero
  <2> QED BY <2>1
<1>2. CASE ~ \A x \in S : f[x] = 0
  <2>1. PICK a \in S : f[a] # 0
    BY <1>2
  <2>2. SumFunctionOnSet(f, S) = f[a] + SumFunctionOnSet(f, S \ {a})
    BY SumaQuita
  <2>3. IsFiniteSet(S \ {a}) /\ \A x \in S \ {a} : f[x] = 0
    BY <2>1, FS_Subset
  <2>4. SumFunctionOnSet(f, S \ {a}) = 0
    BY <2>3, SumaCero
  <2>5. f[a] \in 0 .. b
    OBVIOUS
  <2> QED BY <2>2, <2>4, <2>5
<1> QED BY <1>1, <1>2

\* A common factor.
LEMMA SumaPor ==
    ASSUME NEW f, NEW h, NEW S, IsFiniteSet(S), NEW k \in Int,
           \A x \in S : f[x] \in Int /\ h[x] = k * f[x]
    PROVE  SumFunctionOnSet(h, S) = k * SumFunctionOnSet(f, S)
<1> DEFINE F(s) == SumFunctionOnSet(f, s)
           H(s) == SumFunctionOnSet(h, s)
           Mal == {s \in SUBSET S : H(s) # k * F(s)}
<1>1. SUFFICES ASSUME Mal # {} PROVE FALSE
  OBVIOUS
<1>2. \A s \in SUBSET S : IsFiniteSet(s)
  BY FS_Subset
<1>3. PICK s \in Mal : \A t \in Mal : Cardinality(s) <= Cardinality(t)
  <2>1. \A t \in Mal : IsFiniteSet(t)
    BY <1>2
  <2> HIDE DEF Mal
  <2> QED BY <1>1, <2>1, MenorConjunto
<1>4. IsFiniteSet(s) /\ s \subseteq S /\ H(s) # k * F(s)
  BY <1>2
<1>5. s # {}
  <2>1. F({}) = 0 /\ H({}) = 0
    BY SumaVacia
  <2>2. k * 0 = 0
    OBVIOUS
  <2>3. H({}) = k * F({})
    BY <2>1, <2>2
  <2> HIDE DEF F, H, Mal
  <2> QED BY <1>4, <2>3
<1>6. PICK x \in s : H(s) = h[x] + H(s \ {x})
  BY <1>4, <1>5, SumaElegida
<1>7. F(s) = f[x] + F(s \ {x})
  <2>1. \A y \in s : f[y] \in Int
    BY <1>4
  <2> HIDE DEF Mal
  <2> QED BY <1>4, <2>1, SumaQuita
<1>8. ~(Cardinality(s) <= Cardinality(s \ {x}))
  <2> HIDE DEF Mal
  <2> QED BY <1>4, SinUnoEsMenor
<1>9. H(s \ {x}) = k * F(s \ {x})
  <2>1. s \ {x} \notin Mal
    <3> HIDE DEF Mal
    <3> QED BY <1>3, <1>8
  <2> QED BY <1>4, <2>1
<1>10. F(s \ {x}) \in Int
  <2>1. IsFiniteSet(s \ {x}) /\ \A y \in s \ {x} : f[y] \in Int
    BY <1>2, <1>4
  <2> HIDE DEF Mal
  <2> QED BY <2>1, SumaEntera
<1>11. f[x] \in Int /\ h[x] = k * f[x]
  BY <1>4
<1> HIDE DEF F, H, Mal
<1>12. \A p, q \in Int : k * (p + q) = k * p + k * q
  OBVIOUS
<1>13. k * F(s) = k * f[x] + k * F(s \ {x})
  BY <1>7, <1>10, <1>11, <1>12
<1> QED BY <1>4, <1>6, <1>9, <1>11, <1>13

\* Only one term.
LEMMA SumaSola ==
    ASSUME NEW f, NEW S, IsFiniteSet(S), NEW a \in S, f[a] \in Int,
           \A x \in S : x # a => f[x] = 0
    PROVE  SumFunctionOnSet(f, S) = f[a]
<1>1. \A x \in S : f[x] \in Int
  OBVIOUS
<1>2. SumFunctionOnSet(f, S) = f[a] + SumFunctionOnSet(f, S \ {a})
  BY <1>1, SumaQuita
<1>3. IsFiniteSet(S \ {a}) /\ \A x \in S \ {a} : f[x] = 0
  BY FS_Subset
<1>4. SumFunctionOnSet(f, S \ {a}) = 0
  BY <1>3, SumaCero
<1> QED BY <1>2, <1>4

\* Terms that are 0 may be left out.
LEMMA SumaSoporte ==
    ASSUME NEW f, NEW S, IsFiniteSet(S), NEW R, R \subseteq S,
           \A x \in S : f[x] \in Int, \A x \in S : x \notin R => f[x] = 0
    PROVE  SumFunctionOnSet(f, S) = SumFunctionOnSet(f, R)
<1> DEFINE D == S \ R
           Suma(s) == SumFunctionOnSet(f, R \cup s)
           Mal == {s \in SUBSET D : Suma(s) # SumFunctionOnSet(f, R)}
<1>1. SUFFICES ASSUME Mal # {} PROVE FALSE
  <2>1. D \notin Mal
    BY <1>1
  <2>2. R \cup D = S
    OBVIOUS
  <2> QED BY <2>1, <2>2
<1>2. IsFiniteSet(D) /\ IsFiniteSet(R) /\ \A s \in SUBSET D : IsFiniteSet(s)
  BY FS_Subset
<1>3. PICK s \in Mal : \A t \in Mal : Cardinality(s) <= Cardinality(t)
  <2>1. \A t \in Mal : IsFiniteSet(t)
    BY <1>2
  <2> HIDE DEF Mal
  <2> QED BY <1>1, <2>1, MenorConjunto
<1>4. IsFiniteSet(s) /\ s \subseteq D /\ Suma(s) # SumFunctionOnSet(f, R)
  BY <1>2
<1>5. s # {}
  <2>1. R \cup {} = R
    OBVIOUS
  <2> QED BY <1>4, <2>1
<1>6. PICK x \in s : TRUE
  BY <1>5
<1>7. ~(Cardinality(s) <= Cardinality(s \ {x}))
  <2> HIDE DEF Mal
  <2> QED BY <1>4, SinUnoEsMenor
<1>8. Suma(s \ {x}) = SumFunctionOnSet(f, R)
  <2>1. s \ {x} \notin Mal
    <3> HIDE DEF Mal
    <3> QED BY <1>3, <1>7
  <2> QED BY <1>4, <2>1
<1>9. Suma(s) = f[x] + Suma(s \ {x})
  <2> DEFINE T == R \cup s
  <2>1. x \in T /\ T \ {x} = R \cup (s \ {x}) /\ T \subseteq S
    BY <1>4
  <2>2. IsFiniteSet(T) /\ \A y \in T : f[y] \in Int
    BY <2>1, FS_Subset
  <2> HIDE DEF T
  <2>3. SumFunctionOnSet(f, T) = f[x] + SumFunctionOnSet(f, T \ {x})
    BY <2>1, <2>2, SumaQuita
  <2> QED BY <2>1, <2>3 DEF T
<1>10. f[x] = 0 /\ SumFunctionOnSet(f, R) \in Int
  <2>1. \A y \in R : f[y] \in Int
    OBVIOUS
  <2>2. SumFunctionOnSet(f, R) \in Int
    BY <1>2, <2>1, SumaEntera
  <2> QED BY <1>4, <2>2
<1> HIDE DEF Suma, Mal
<1> QED BY <1>4, <1>8, <1>9, <1>10

\* The same terms under other names.
LEMMA SumaReindexa ==
    ASSUME NEW f, NEW g, NEW b, NEW S, NEW T, IsFiniteSet(S), IsFiniteSet(T),
           \A x \in S : b[x] \in T /\ f[x] = g[b[x]],
           \A x, y \in S : b[x] = b[y] => x = y,
           \A t \in T : g[t] \in Int,
           \A t \in T : (\A x \in S : b[x] # t) => g[t] = 0
    PROVE  SumFunctionOnSet(f, S) = SumFunctionOnSet(g, T)
<1> DEFINE Por(s) == {b[x] : x \in s}
           Mal == {s \in SUBSET S : SumFunctionOnSet(f, s) # SumFunctionOnSet(g, Por(s))}
<1>1. Por(S) \subseteq T /\ \A t \in T : t \notin Por(S) => g[t] = 0
  OBVIOUS
<1>2. SumFunctionOnSet(g, T) = SumFunctionOnSet(g, Por(S))
  <2> HIDE DEF Por
  <2> QED BY <1>1, SumaSoporte
<1>3. SUFFICES ASSUME Mal # {} PROVE FALSE
  BY <1>2
<1>4. \A s \in SUBSET S : IsFiniteSet(s)
  BY FS_Subset
<1>5. PICK s \in Mal : \A t \in Mal : Cardinality(s) <= Cardinality(t)
  <2>1. \A t \in Mal : IsFiniteSet(t)
    BY <1>4
  <2> HIDE DEF Mal
  <2> QED BY <1>3, <2>1, MenorConjunto
<1>6. IsFiniteSet(s) /\ s \subseteq S /\ SumFunctionOnSet(f, s) # SumFunctionOnSet(g, Por(s))
  BY <1>4
<1>7. s # {}
  <2>1. Por({}) = {}
    OBVIOUS
  <2> HIDE DEF Por
  <2> QED BY <1>6, <2>1, SumaVacia
<1>8. PICK x \in s : SumFunctionOnSet(f, s) = f[x] + SumFunctionOnSet(f, s \ {x})
  BY <1>6, <1>7, SumaElegida
<1>9. ~(Cardinality(s) <= Cardinality(s \ {x}))
  <2> HIDE DEF Mal
  <2> QED BY <1>6, SinUnoEsMenor
<1>10. SumFunctionOnSet(f, s \ {x}) = SumFunctionOnSet(g, Por(s \ {x}))
  <2>1. s \ {x} \notin Mal
    <3> HIDE DEF Mal
    <3> QED BY <1>5, <1>9
  <2> QED BY <1>6, <2>1
<1>11. /\ Por(s) = Por(s \ {x}) \cup {b[x]} /\ b[x] \notin Por(s \ {x})
       /\ Por(s \ {x}) \subseteq T /\ b[x] \in T /\ f[x] = g[b[x]]
  <2>1. x \in S /\ s \subseteq S
    BY <1>6
  <2>2. Por(s) = Por(s \ {x}) \cup {b[x]}
    OBVIOUS
  <2>3. b[x] \notin Por(s \ {x})
    BY <2>1
  <2>4. Por(s \ {x}) \subseteq T /\ b[x] \in T /\ f[x] = g[b[x]]
    BY <2>1
  <2> QED BY <2>2, <2>3, <2>4
<1> HIDE DEF Por, Mal
<1>12. SumFunctionOnSet(g, Por(s)) = g[b[x]] + SumFunctionOnSet(g, Por(s \ {x}))
  <2> DEFINE Q == Por(s)
             a == b[x]
  <2>1. a \in Q /\ Q \ {a} = Por(s \ {x}) /\ Q \subseteq T
    BY <1>11
  <2>2. IsFiniteSet(Q) /\ \A t \in Q : g[t] \in Int
    BY <2>1, FS_Subset
  <2> HIDE DEF Q, a
  <2>3. SumFunctionOnSet(g, Q) = g[a] + SumFunctionOnSet(g, Q \ {a})
    BY <2>1, <2>2, SumaQuita
  <2> QED BY <2>1, <2>3 DEF Q, a
<1>13. SumFunctionOnSet(g, Por(s \ {x})) \in Int /\ g[b[x]] \in Int
  <2>1. IsFiniteSet(Por(s \ {x})) /\ \A t \in Por(s \ {x}) : g[t] \in Int
    BY <1>11, FS_Subset
  <2> QED BY <1>11, <2>1, SumaEntera
<1> QED BY <1>6, <1>8, <1>10, <1>11, <1>12, <1>13
=============================================================================
