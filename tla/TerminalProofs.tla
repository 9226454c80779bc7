--------------------------- MODULE TerminalProofs ---------------------------
(***************************************************************************)
(* Proofs about Terminal, for any products, promotions, amounts and bounds.*)
(* The order: what the amounts and the rows of a cart come to; the cart    *)
(* with the handlers that wait for a stock (CarritoInv); the amounts and   *)
(* the form of the payment (DineroInv); the record of a sale (VueltoCorrecto);   *)
(* the ticket numbers (TicketsInv); the theorems.                          *)
(***************************************************************************)
EXTENDS Terminal, SequenceTheorems, Sumas

(***************************************************************************)
(* Least and greatest elements.                                            *)
(***************************************************************************)

LEMMA MenorEs ==
    ASSUME NEW T, T \subseteq Nat, T # {}
    PROVE  Menor(T) \in T /\ \A y \in T : Menor(T) <= y
<1>1. \E x \in T : \A y \in T : x <= y
  BY Minimo
<1> QED BY <1>1 DEF Menor

LEMMA MayorEs ==
    ASSUME NEW b \in Nat, NEW T, T \subseteq 0 .. b, T # {}
    PROVE  Mayor(T) \in T /\ \A y \in T : Mayor(T) >= y
<1> DEFINE D == {b - x : x \in T}
<1>1. D \subseteq Nat /\ D # {}
  <2>1. \A x \in T : b - x \in Nat
    <3>1. \A x \in T : x \in Nat /\ x <= b
      OBVIOUS
    <3> QED BY <3>1
  <2> QED BY <2>1
<1>2. PICK d \in D : \A e \in D : d <= e
  <2> HIDE DEF D
  <2> QED BY <1>1, Minimo
<1>3. PICK x \in T : d = b - x
  BY <1>2
<1>4. \A y \in T : b - y \in D
  OBVIOUS
<1>5. ASSUME NEW y \in T PROVE x >= y
  <2>1. d <= b - y
    BY <1>2, <1>4
  <2>2. x \in Int /\ y \in Int
    OBVIOUS
  <2> QED BY <1>3, <2>1, <2>2
<1> QED BY <1>5 DEF Mayor

LEMMA MayorDeDos ==
    ASSUME NEW a \in Int, NEW b \in Int
    PROVE  /\ Mayor({a, b}) \in {a, b}
           /\ Mayor({a, b}) >= a /\ Mayor({a, b}) >= b
<1>1. \E x \in {a, b} : \A y \in {a, b} : x >= y
  <2>1. CASE a >= b
    BY <2>1
  <2>2. CASE b >= a
    BY <2>2
  <2> QED BY <2>1, <2>2
<1>2. Mayor({a, b}) \in {a, b} /\ \A y \in {a, b} : Mayor({a, b}) >= y
  BY <1>1 DEF Mayor
<1> QED BY <1>2

LEMMA MayorDeCero ==
    ASSUME NEW z \in Int
    PROVE  Mayor({0, z}) \in Nat /\ Mayor({0, z}) \in {0, z} /\ Mayor({0, z}) >= z
<1>1. 0 \in Int
  OBVIOUS
<1>2. /\ Mayor({0, z}) \in {0, z}
      /\ Mayor({0, z}) >= 0 /\ Mayor({0, z}) >= z
  BY <1>1, MayorDeDos
<1> QED BY <1>2

LEMMA MenorDeDos ==
    ASSUME NEW a \in Int, NEW b \in Int
    PROVE  /\ Menor({a, b}) \in {a, b}
           /\ Menor({a, b}) <= a /\ Menor({a, b}) <= b
<1>1. \E x \in {a, b} : \A y \in {a, b} : x <= y
  <2>1. CASE a <= b
    BY <2>1
  <2>2. CASE b <= a
    BY <2>2
  <2> QED BY <2>1, <2>2
<1>2. Menor({a, b}) \in {a, b} /\ \A y \in {a, b} : Menor({a, b}) <= y
  BY <1>1 DEF Menor
<1> QED BY <1>2

(***************************************************************************)
(* Discounts of a cart.                                                    *)
(***************************************************************************)

Articulo == [id : Productos, cant : Nat \ {0}, desc : 0 .. 100]
Grupo == [prods : SUBSET Productos, cantidad : Nat \ {0}]

LEMMA SumaDeFuncion ==
    ASSUME NEW f, IsFiniteSet(DOMAIN f), \A x \in DOMAIN f : f[x] \in Nat
    PROVE  /\ SumFunction(f) \in Nat
           /\ \A x \in DOMAIN f : f[x] <= SumFunction(f)
<1>1. SumFunction(f) = SumFunctionOnSet(f, DOMAIN f)
  BY DEF SumFunction, FoldFunction, SumFunctionOnSet
<1>2. SumFunctionOnSet(f, DOMAIN f) \in Nat
  BY SumaNatural
<1>3. \A x \in DOMAIN f : f[x] <= SumFunctionOnSet(f, DOMAIN f)
  BY SumaParte
<1> QED BY <1>1, <1>2, <1>3

LEMMA EscalaPositiva == Escala \in Nat \ {0} /\ Cien \in Nat \ {0} /\ Cien = 100 * Escala
BY PromocionesConstantes DEF Cien

LEMMA FilaTipo ==
    ASSUME NEW c \in Seq(Articulo), NEW i \in DOMAIN c
    PROVE  /\ c[i] \in Articulo /\ c[i].id \in Productos
           /\ c[i].cant \in Nat \ {0} /\ c[i].desc \in 0 .. 100
<1>1. c[i] \in Articulo
  OBVIOUS
<1> QED BY <1>1 DEF Articulo

LEMMA GruposTipo ==
    ASSUME NEW promo \in Promocion
    PROVE  GruposDe(promo) \in Seq(Grupo)
<1>1. CASE PorGrupos(promo)
  BY <1>1 DEF GruposDe, Grupo, Promocion
<1>2. CASE ~PorGrupos(promo)
  <2> DEFINE ps == promo.productos
  <2>1. ps \in Seq(Productos) /\ promo.cantidad \in Nat \ {0}
    BY DEF Promocion
  <2>2. DOMAIN ps = 1 .. Len(ps) /\ Len(ps) \in Nat /\ \A k \in DOMAIN ps : ps[k] \in Productos
    BY <2>1
  <2>3. \A k \in DOMAIN ps : [prods |-> {ps[k]}, cantidad |-> promo.cantidad] \in Grupo
    BY <2>1, <2>2 DEF Grupo
  <2> HIDE DEF ps
  <2>4. [k \in DOMAIN ps |-> [prods |-> {ps[k]}, cantidad |-> promo.cantidad]] \in Seq(Grupo)
    BY <2>2, <2>3
  <2> QED BY <1>2, <2>4 DEF GruposDe, ps
<1> QED BY <1>1, <1>2

LEMMA JuntadasNat ==
    ASSUME NEW g \in Grupo, NEW c \in Seq(Articulo), NEW i \in 0 .. Len(c)
    PROVE  Juntadas(g, c, i) \in Nat
<1> DEFINE f == [j \in 1 .. i |-> IF c[j].id \in g.prods THEN c[j].cant ELSE 0]
<1>1. DOMAIN f = 1 .. i /\ IsFiniteSet(1 .. i)
  BY FS_Interval
<1>2. \A j \in 1 .. i : c[j] \in Articulo
  OBVIOUS
<1>3. \A j \in 1 .. i : f[j] \in Nat
  BY <1>2 DEF Articulo
<1> HIDE DEF f
<1>4. SumFunction(f) \in Nat
  BY <1>1, <1>3, SumaDeFuncion
<1> QED BY <1>4 DEF Juntadas, f

LEMMA ConjuntosNat ==
    ASSUME NEW promo \in Promocion, NEW c \in Seq(Articulo)
    PROVE  Conjuntos(promo, c) \in Nat
<1> DEFINE gs == GruposDe(promo)
           por(k) == Juntadas(gs[k], c, Len(c)) \div gs[k].cantidad
           T == {por(k) : k \in DOMAIN gs}
<1>1. gs \in Seq(Grupo)
  BY GruposTipo
<1>2. CASE gs = <<>>
  BY <1>2 DEF Conjuntos
<1>3. CASE gs # <<>>
  <2>1. ASSUME NEW k \in DOMAIN gs PROVE por(k) \in Nat
    <3>1. gs[k] \in Grupo
      BY <1>1
    <3>2. gs[k].cantidad \in Nat \ {0}
      BY <3>1 DEF Grupo
    <3>3. Len(c) \in 0 .. Len(c)
      OBVIOUS
    <3>4. Juntadas(gs[k], c, Len(c)) \in Nat
      BY <3>1, <3>3, JuntadasNat
    <3> QED BY <3>2, <3>4
  <2>2. DOMAIN gs # {}
    <3> HIDE DEF gs
    <3>1. Len(gs) # 0 /\ DOMAIN gs = 1 .. Len(gs) /\ Len(gs) \in Nat
      BY <1>1, <1>3, EmptySeq
    <3>2. 1 \in DOMAIN gs
      BY <3>1
    <3> QED BY <3>2
  <2> HIDE DEF gs
  <2>3. T \subseteq Nat /\ T # {}
    BY <2>1, <2>2
  <2> HIDE DEF T
  <2>4. Menor(T) \in Nat
    BY <2>3, MenorEs
  <2>5. Conjuntos(promo, c) = Menor(T)
    BY <1>3 DEF Conjuntos, T, gs
  <2> QED BY <2>4, <2>5
<1> QED BY <1>2, <1>3

LEMMA DescontadasNat ==
    ASSUME NEW promo \in Promocion, NEW c \in Seq(Articulo), NEW n \in Nat,
           NEW i \in DOMAIN c
    PROVE  Descontadas(promo, c, n, i) \in Nat
<1> DEFINE gs == GruposDe(promo)
           toma(g) == IF c[i].id \notin g.prods THEN 0
                      ELSE Mayor({0, Menor({c[i].cant,
                                            n * g.cantidad - Juntadas(g, c, i - 1)})})
           f == [k \in DOMAIN gs |-> toma(gs[k])]
<1>1. gs \in Seq(Grupo)
  BY GruposTipo
<1>2. c[i] \in Articulo /\ i \in 1 .. Len(c) /\ i - 1 \in 0 .. Len(c)
  OBVIOUS
<1>3. ASSUME NEW g \in Grupo PROVE toma(g) \in Nat
  <2> DEFINE a == c[i].cant
             b == n * g.cantidad - Juntadas(g, c, i - 1)
  <2>1. Juntadas(g, c, i - 1) \in Nat
    BY <1>2, JuntadasNat
  <2>2. a \in Int /\ b \in Int
    BY <1>2, <2>1 DEF Articulo, Grupo
  <2> HIDE DEF a, b
  <2> DEFINE m == Menor({a, b})
  <2>3. m \in Int
    BY <2>2, MenorDeDos
  <2> HIDE DEF m
  <2>4. Mayor({0, m}) \in Nat
    BY <2>3, MayorDeCero
  <2> QED BY <2>4 DEF a, b, m
<1>4. IsFiniteSet(DOMAIN gs)
  BY <1>1, FS_Interval
<1>5. \A k \in DOMAIN gs : gs[k] \in Grupo
  BY <1>1
<1> HIDE DEF gs, toma
<1>6. DOMAIN f = DOMAIN gs /\ \A k \in DOMAIN gs : f[k] \in Nat
  BY <1>3, <1>5
<1> HIDE DEF f
<1>7. SumFunction(f) \in Nat
  BY <1>4, <1>6, SumaDeFuncion
<1> QED BY <1>7 DEF Descontadas, f, gs, toma

LEMMA ValorNat ==
    ASSUME NEW promo \in Promocion, NEW c \in Seq(Articulo), NEW n \in Nat
    PROVE  /\ ValorCombo(promo, c, n) \in Nat
           /\ \A i \in DOMAIN c :
                 Precio[c[i].id] * Descontadas(promo, c, n, i) <= ValorCombo(promo, c, n)
<1> DEFINE f == [i \in DOMAIN c |-> Precio[c[i].id] * Descontadas(promo, c, n, i)]
<1>1. ASSUME NEW i \in DOMAIN c PROVE Precio[c[i].id] * Descontadas(promo, c, n, i) \in Nat
  <2>1. c[i] \in Articulo
    OBVIOUS
  <2>2. Precio[c[i].id] \in Nat
    BY <2>1, PromocionesConstantes DEF Articulo
  <2>3. Descontadas(promo, c, n, i) \in Nat
    BY DescontadasNat
  <2> QED BY <2>2, <2>3
<1>2. IsFiniteSet(DOMAIN c)
  BY FS_Interval
<1>3. DOMAIN f = DOMAIN c /\ \A i \in DOMAIN c : f[i] \in Nat
  BY <1>1
<1>4. \A i \in DOMAIN c : f[i] = Precio[c[i].id] * Descontadas(promo, c, n, i)
  OBVIOUS
<1>5. ValorCombo(promo, c, n) = SumFunction(f)
  BY DEF ValorCombo
<1> HIDE DEF f
<1>6. SumFunction(f) \in Nat /\ \A i \in DOMAIN c : f[i] <= SumFunction(f)
  BY <1>2, <1>3, SumaDeFuncion
<1> QED BY <1>4, <1>5, <1>6

\* A manual discount and those of the promotions are all between 0 and Cien.
LEMMA DescuentoTotalNat ==
    ASSUME NEW promo \in Promocion, NEW c \in Seq(Articulo), NEW n \in Nat
    PROVE  DescuentoTotal(promo, c, n) \in Nat
<1> DEFINE v == ValorCombo(promo, c, n)
           a == v - promo.valor
           b == v - promo.valor * n
<1>1. v \in Nat /\ promo.valor \in Nat
  BY ValorNat DEF Promocion
<1> HIDE DEF v
<1>2. a \in Int /\ b \in Int /\ n * promo.valor \in Nat
  BY <1>1
<1> HIDE DEF a, b
<1>3. Mayor({0, a}) \in Nat /\ Mayor({0, b}) \in Nat
  BY <1>2, MayorDeCero
<1>4. Mayor({0, a}) * n \in Nat
  BY <1>3
<1> QED BY <1>2, <1>3, <1>4 DEF DescuentoTotal, a, b, v

LEMMA DivNat ==
    ASSUME NEW a \in Nat, NEW b \in Nat \ {0}
    PROVE  a \div b \in Nat
OBVIOUS

LEMMA CocientePorDivisor ==
    ASSUME NEW a \in Nat, NEW n \in Nat \ {0}
    PROVE  (a \div n) * n <= a
<1>1. a = (n * (a \div n)) + (a % n) /\ a % n >= 0 /\ a % n \in Int /\ a \div n \in Nat
  OBVIOUS
<1> DEFINE q == a \div n
           r == a % n
<1> HIDE DEF q, r
<1>2. a = (n * q) + r /\ r >= 0 /\ r \in Int /\ q \in Nat
  BY <1>1 DEF q, r
<1>3. n * q \in Nat /\ q * n = n * q
  BY <1>2
<1>4. q * n <= a
  BY <1>2, <1>3
<1> QED BY <1>4 DEF q

LEMMA PorPositivos ==
    ASSUME NEW a \in Nat \ {0}, NEW b \in Nat \ {0}
    PROVE  a * b \in Nat \ {0}
OBVIOUS

LEMMA PctSoloNat ==
    ASSUME NEW promo \in Promocion, NEW c \in Seq(Articulo), NEW i \in DOMAIN c
    PROVE  PctSolo(promo, c, i) \in Nat
<1>1. c[i] \in Articulo /\ c[i].cant \in Nat \ {0}
  BY FilaTipo
<1>2. Conjuntos(promo, c) \in Nat /\ promo.valor \in Nat
  BY ConjuntosNat DEF Promocion
<1>3. ASSUME NEW n \in Nat PROVE PctDe(promo, c, n, i) \in Nat
  <2> DEFINE u == Descontadas(promo, c, n, i)
             v == ValorCombo(promo, c, n)
             d == DescuentoTotal(promo, c, n)
             pr == Precio[c[i].id]
  <2>1. u \in Nat /\ v \in Nat /\ d \in Nat
    BY DescontadasNat, ValorNat, DescuentoTotalNat
  <2>2. pr \in Nat /\ pr * u <= v
    BY <1>1, ValorNat, PromocionesConstantes DEF Articulo
  <2> HIDE DEF u, v, d, pr
  <2>3. (promo.valor * Escala * u) \div c[i].cant \in Nat
    <3>1. promo.valor * Escala \in Nat
      BY <1>2, EscalaPositiva
    <3>2. promo.valor * Escala * u \in Nat
      BY <3>1, <2>1
    <3> QED BY <1>1, <3>2, DivNat
  <2>4. ASSUME pr # 0, u # 0 PROVE (Cien * d * u) \div (v * c[i].cant) \in Nat
    <3>1. pr * u \in Nat \ {0}
      BY <2>1, <2>2, <2>4, PorPositivos
    <3>2. v \in Nat \ {0}
      BY <2>1, <2>2, <3>1
    <3>3. v * c[i].cant \in Nat \ {0}
      BY <1>1, <3>2, PorPositivos
    <3>4. Cien * d \in Nat
      BY <2>1, EscalaPositiva
    <3>5. Cien * d * u \in Nat
      BY <2>1, <3>4
    <3> QED BY <3>3, <3>5, DivNat
  <2> QED BY <2>3, <2>4 DEF PctDe, u, v, d, pr
<1> QED BY <1>2, <1>3 DEF PctSolo

\* What the promotions leave as candidates for the discount of an item.
Ofertas(ps, c, i) == {0} \cup {Menor({Cien, PctSolo(ps[k], c, i)}) : k \in DOMAIN ps}

LEMMA PctPromoEs ==
    ASSUME NEW ps \in Seq(Promocion), NEW c \in Seq(Articulo), NEW i \in DOMAIN c
    PROVE  /\ PctPromo(ps, c, i) \in 0 .. Cien
           /\ PctPromo(ps, c, i) \in Ofertas(ps, c, i)
           /\ Ofertas(ps, c, i) \subseteq 0 .. Cien
           /\ \A y \in Ofertas(ps, c, i) : PctPromo(ps, c, i) >= y
<1>1. ASSUME NEW k \in DOMAIN ps PROVE Menor({Cien, PctSolo(ps[k], c, i)}) \in 0 .. Cien
  <2> DEFINE q == PctSolo(ps[k], c, i)
  <2>1. q \in Nat
    BY PctSoloNat
  <2> HIDE DEF q
  <2>2. Cien \in Int /\ Cien >= 0 /\ q \in Int
    BY <2>1, EscalaPositiva
  <2>3. Menor({Cien, q}) \in {Cien, q} /\ Menor({Cien, q}) <= Cien
    BY <2>2, MenorDeDos
  <2>4. Menor({Cien, q}) \in 0 .. Cien
    BY <2>1, <2>2, <2>3
  <2> QED BY <2>4 DEF q
<1>2. Cien \in Nat /\ 0 \in 0 .. Cien
  BY EscalaPositiva
<1> DEFINE T == Ofertas(ps, c, i)
<1>3. T \subseteq 0 .. Cien /\ T # {}
  BY <1>1, <1>2 DEF Ofertas
<1>4. PctPromo(ps, c, i) = Mayor(T)
  BY DEF PctPromo, Ofertas
<1> HIDE DEF T
<1>5. Mayor(T) \in T /\ \A y \in T : Mayor(T) >= y
  BY <1>2, <1>3, MayorEs
<1> QED BY <1>3, <1>4, <1>5 DEF T

LEMMA ManualEs ==
    ASSUME NEW d \in 0 .. 100
    PROVE  d * Escala \in 0 .. Cien
<1>1. d \in Nat /\ 100 - d \in Nat /\ Escala \in Nat /\ Cien = 100 * Escala
  BY EscalaPositiva
<1>2. d * Escala \in Nat /\ (100 - d) * Escala \in Nat
  BY <1>1
<1>3. d * Escala + (100 - d) * Escala = Cien
  BY <1>1
<1> QED BY <1>1, <1>2, <1>3

LEMMA PctEfectivoEs ==
    ASSUME NEW ps \in Seq(Promocion), NEW c \in Seq(Articulo), NEW i \in DOMAIN c
    PROVE  LET d == c[i].desc * Escala
               p == PctPromo(ps, c, i)
               e == PctEfectivo(ps, c, i)
           IN /\ d \in 0 .. Cien /\ p \in 0 .. Cien /\ e \in 0 .. Cien
              /\ e \in {d, p} /\ e >= d /\ e >= p
<1> DEFINE d == c[i].desc * Escala
           p == PctPromo(ps, c, i)
<1>1. c[i].desc \in 0 .. 100
  BY FilaTipo
<1>2. d \in 0 .. Cien /\ p \in 0 .. Cien
  BY <1>1, ManualEs, PctPromoEs
<1> HIDE DEF d, p
<1>3. d \in Int /\ p \in Int
  BY <1>2
<1>4. Mayor({d, p}) \in {d, p} /\ Mayor({d, p}) >= d /\ Mayor({d, p}) >= p
  BY <1>3, MayorDeDos
<1> QED BY <1>2, <1>4 DEF PctEfectivo, d, p

\* A higher discount never leaves more to pay.
LEMMA MasDescuentoMenos ==
    ASSUME NEW monto \in Nat, NEW a \in 0 .. Cien, NEW b \in 0 .. Cien, a <= b
    PROVE  Rebajado(monto, b) \in Nat /\ Rebajado(monto, b) <= Rebajado(monto, a)
<1>1. Cien \in Nat \ {0} /\ a \in Int /\ b \in Int /\ Cien - a \in Nat /\ Cien - b \in Nat
  BY EscalaPositiva
<1> DEFINE x == monto * (Cien - a)
           y == monto * (Cien - b)
           z == monto * (b - a)
<1>2. b - a \in Nat
  BY <1>1
<1>3. x \in Nat /\ y \in Nat /\ z \in Nat
  BY <1>1, <1>2
<1>4. x = y + z
  BY <1>1
<1>5. y <= x
  <2> HIDE DEF x, y, z
  <2> QED BY <1>3, <1>4
<1> HIDE DEF x, y, z
<1>6. x \div Cien \in Nat /\ y \div Cien \in Nat /\ y \div Cien <= x \div Cien
  BY <1>1, <1>3, <1>5
<1> QED BY <1>6 DEF Rebajado, x, y

LEMMA RebajadoNat ==
    ASSUME NEW monto \in Nat, NEW a \in 0 .. Cien
    PROVE  Rebajado(monto, a) \in Nat
<1>1. a <= a
  OBVIOUS
<1> QED BY <1>1, MasDescuentoMenos

LEMMA SinDescuento ==
    ASSUME NEW monto \in Nat
    PROVE  Rebajado(monto, 0) = monto
<1>1. Cien \in Nat \ {0}
  BY EscalaPositiva
<1>2. (monto * Cien) \div Cien = monto
  BY <1>1
<1> QED BY <1>1, <1>2 DEF Rebajado

LEMMA PrecioDeFila ==
    ASSUME NEW c \in Seq(Articulo), NEW i \in DOMAIN c
    PROVE  c[i].cant * Precio[c[i].id] \in Nat
<1>1. c[i] \in Articulo
  OBVIOUS
<1>2. c[i].cant \in Nat /\ Precio[c[i].id] \in Nat
  BY <1>1, PromocionesConstantes DEF Articulo
<1> QED BY <1>2

LEMMA TotalNat ==
    ASSUME NEW ps \in Seq(Promocion), NEW c \in Seq(Articulo)
    PROVE  Total(ps, c) \in Nat
<1> DEFINE f == [i \in DOMAIN c |-> Subtotal(ps, c, i)]
<1>1. ASSUME NEW i \in DOMAIN c PROVE Subtotal(ps, c, i) \in Nat
  BY PrecioDeFila, PctEfectivoEs, RebajadoNat DEF Subtotal
<1>2. IsFiniteSet(DOMAIN c)
  BY FS_Interval
<1>3. DOMAIN f = DOMAIN c /\ \A i \in DOMAIN c : f[i] \in Nat
  BY <1>1
<1>4. Total(ps, c) = SumFunction(f)
  BY DEF Total
<1> HIDE DEF f
<1> QED BY <1>2, <1>3, <1>4, SumaDeFuncion

\* The discount of one promotion alone is what it offers.
LEMMA UnaSola ==
    ASSUME NEW m \in Promocion, NEW c \in Seq(Articulo), NEW i \in DOMAIN c
    PROVE  PctPromo(<<m>>, c, i) = Menor({Cien, PctSolo(m, c, i)})
<1>1. <<m>> \in Seq(Promocion) /\ DOMAIN <<m>> = {1} /\ <<m>>[1] = m
  OBVIOUS
<1> DEFINE q == Menor({Cien, PctSolo(m, c, i)})
           e == PctPromo(<<m>>, c, i)
<1>2. Ofertas(<<m>>, c, i) = {0, q}
  BY <1>1 DEF Ofertas
<1>3. /\ e \in Ofertas(<<m>>, c, i) /\ Ofertas(<<m>>, c, i) \subseteq 0 .. Cien
      /\ \A y \in Ofertas(<<m>>, c, i) : e >= y
  BY <1>1, PctPromoEs
<1> HIDE DEF q, e
<1>4. e \in {0, q} /\ q \in 0 .. Cien /\ e >= q /\ e >= 0
  BY <1>2, <1>3
<1>5. e = q
  BY <1>4
<1> QED BY <1>5 DEF q, e

(***************************************************************************)
(* Recursive functions.                                                    *)
(***************************************************************************)

\* g starts at b and goes from n - 1 to n by the n-th function of F.
PasoAPaso(g, V, L, b, F) ==
    /\ g \in [0 .. L -> V]
    /\ g[0] = b
    /\ \A n \in 1 .. L : g[n] = F[n][g[n - 1]]

\* A function is there whose value at n is the n-th step from that at n - 1.
LEMMA RecursionExiste ==
    ASSUME NEW V, NEW L \in Nat, NEW b \in V, NEW F \in [1 .. L -> [V -> V]]
    PROVE  \E g : PasoAPaso(g, V, L, b, F)
<1> DEFINE Hasta(m, g) == g[0] = b /\ \A n \in 1 .. m : g[n] = F[n][g[n - 1]]
           Mal == {m \in 0 .. L : ~ \E g \in [0 .. m -> V] : Hasta(m, g)}
<1>1. SUFFICES ASSUME Mal # {} PROVE FALSE
  <2>1. L \in 0 .. L
    OBVIOUS
  <2>2. SUFFICES ASSUME Mal = {} PROVE \E g : PasoAPaso(g, V, L, b, F)
    OBVIOUS
  <2>3. PICK g \in [0 .. L -> V] : Hasta(L, g)
    BY <2>1, <2>2
  <2>4. PasoAPaso(g, V, L, b, F)
    BY <2>3 DEF PasoAPaso
  <2> QED BY <2>4
<1>2. PICK m \in Mal : \A k \in Mal : m <= k
  <2>1. Mal \subseteq Nat
    OBVIOUS
  <2> HIDE DEF Mal
  <2> QED BY <1>1, <2>1, Minimo
<1>3. m \in 0 .. L /\ ~ \E g \in [0 .. m -> V] : Hasta(m, g)
  OBVIOUS
<1>4. m # 0
  <2>1. SUFFICES ASSUME m = 0 PROVE FALSE
    OBVIOUS
  <2>2. [k \in 0 .. 0 |-> b] \in [0 .. 0 -> V] /\ Hasta(0, [k \in 0 .. 0 |-> b])
    OBVIOUS
  <2> QED BY <1>3, <2>1, <2>2
<1>5. m - 1 \in 0 .. L /\ m - 1 \notin Mal /\ m \in 1 .. L
  <2>1. m - 1 \in 0 .. L /\ m \in 1 .. L /\ ~(m <= m - 1)
    BY <1>3, <1>4
  <2> HIDE DEF Mal
  <2> QED BY <1>2, <2>1
<1>6. PICK g \in [0 .. (m - 1) -> V] : Hasta(m - 1, g)
  BY <1>5
<1> DEFINE h == [n \in 0 .. m |-> IF n = m THEN F[m][g[m - 1]] ELSE g[n]]
<1>7. h \in [0 .. m -> V]
  <2>1. F[m] \in [V -> V] /\ g[m - 1] \in V
    BY <1>5
  <2>2. F[m][g[m - 1]] \in V
    BY <2>1
  <2>3. \A n \in 0 .. m : n # m => n \in 0 .. (m - 1)
    BY <1>5
  <2> QED BY <2>2, <2>3
<1>8. Hasta(m, h)
  <2>1. h[0] = b
    BY <1>5, <1>6
  <2>2. ASSUME NEW n \in 1 .. m PROVE h[n] = F[n][h[n - 1]]
    <3>1. CASE n = m
      BY <1>5, <3>1
    <3>2. CASE n # m
      <4>1. n \in 1 .. (m - 1) /\ n - 1 \in 0 .. m /\ n - 1 # m /\ n \in 0 .. m
        BY <1>5, <3>2
      <4>2. h[n] = g[n] /\ h[n - 1] = g[n - 1]
        BY <3>2, <4>1
      <4>3. g[n] = F[n][g[n - 1]]
        BY <1>6, <4>1
      <4> QED BY <4>2, <4>3
    <3> QED BY <3>1, <3>2
  <2> QED BY <2>1, <2>2
<1> QED BY <1>3, <1>7, <1>8

\* f[n] has the rows of R among the first n of c.
FilasHasta(f, c, R) ==
    /\ f[0] = <<>> /\ Filas(c, R) = f[Len(c)]
    /\ \A n \in 1 .. Len(c) : f[n] = IF n \in R THEN Append(f[n - 1], c[n]) ELSE f[n - 1]
    /\ \A n \in 0 .. Len(c) : f[n] \in Seq({c[k] : k \in R \cap DOMAIN c})

\* The rows that are kept are rows of the cart, in its order.
LEMMA FilasEcuacion ==
    ASSUME NEW S, NEW c \in Seq(S), NEW R
    PROVE  \E f : FilasHasta(f, c, R)
<1> DEFINE T == {c[k] : k \in R \cap DOMAIN c}
           V == Seq(T)
           L == Len(c)
           paso(n, v) == IF n \in R THEN Append(v, c[n]) ELSE v
           Es(g) == g = [n \in 0 .. L |-> IF n = 0 THEN <<>> ELSE paso(n, g[n - 1])]
           F == [n \in 1 .. L |-> [v \in V |-> paso(n, v)]]
<1>1. L \in Nat /\ DOMAIN c = 1 .. L
  OBVIOUS
<1>2. ASSUME NEW n \in 1 .. L, NEW v \in V PROVE paso(n, v) \in V
  <2>1. n \in R => c[n] \in T
    BY <1>1
  <2> HIDE DEF T
  <2> QED BY <2>1
<1> HIDE DEF T, L
<1>3. <<>> \in V
  OBVIOUS
<1>4. F \in [1 .. L -> [V -> V]]
  <2> HIDE DEF V, paso
  <2> QED BY <1>2
<1>5. PICK g : PasoAPaso(g, V, L, <<>>, F)
  <2> HIDE DEF V, F
  <2> QED BY <1>1, <1>3, <1>4, RecursionExiste
<1>6. \A n \in 0 .. L : g[n] = IF n = 0 THEN <<>> ELSE paso(n, g[n - 1])
  <2> SUFFICES ASSUME NEW n \in 0 .. L, n # 0 PROVE g[n] = paso(n, g[n - 1])
    BY <1>5 DEF PasoAPaso
  <2>1. n \in 1 .. L /\ n - 1 \in 0 .. L
    BY <1>1
  <2>2. g[n] = F[n][g[n - 1]] /\ g[n - 1] \in V
    BY <1>5, <2>1 DEF PasoAPaso
  <2> HIDE DEF V, paso
  <2> QED BY <2>1, <2>2
<1>7. Es(g)
  <2> DEFINE h == [n \in 0 .. L |-> IF n = 0 THEN <<>> ELSE paso(n, g[n - 1])]
  <2>1. g = [n \in 0 .. L |-> g[n]]
    BY <1>5 DEF PasoAPaso
  <2> HIDE DEF paso
  <2> QED BY <1>6, <2>1, Zenon
<1> DEFINE f == CHOOSE f : Es(f)
<1>8. Es(f)
  <2> HIDE DEF Es
  <2> QED BY <1>7, Zenon
<1>9. Filas(c, R) = f[L]
  BY Zenon DEF Filas, L
<1> HIDE DEF f
<1>10. f[0] = <<>> /\ \A n \in 1 .. L : f[n] = paso(n, f[n - 1])
  <2>1. 0 \in 0 .. L /\ \A n \in 1 .. L : n \in 0 .. L /\ n # 0
    BY <1>1
  <2> HIDE DEF paso
  <2> QED BY <1>8, <2>1
<1> DEFINE Mal == {n \in 0 .. L : f[n] \notin V}
<1>11. Mal = {}
  <2>1. SUFFICES ASSUME Mal # {} PROVE FALSE
    OBVIOUS
  <2>2. Mal \subseteq Nat
    BY <1>1
  <2>3. PICK n \in Mal : \A k \in Mal : n <= k
    <3> HIDE DEF Mal
    <3> QED BY <2>1, <2>2, Minimo
  <2>4. n \in 1 .. L /\ n - 1 \in 0 .. L /\ n - 1 \notin Mal
    <3>1. n \in 0 .. L /\ n # 0
      BY <1>3, <1>10
    <3>2. n \in 1 .. L /\ n - 1 \in 0 .. L /\ ~(n <= n - 1)
      BY <1>1, <3>1
    <3> HIDE DEF Mal
    <3> QED BY <2>3, <3>2
  <2>5. f[n - 1] \in V
    BY <2>4
  <2>6. f[n] \in V
    <3> HIDE DEF V, paso
    <3> QED BY <1>2, <1>10, <2>4, <2>5
  <2> QED BY <2>3, <2>6
<1>12. FilasHasta(f, c, R)
  BY <1>9, <1>10, <1>11 DEF T, L, V, paso, FilasHasta
<1> QED BY <1>12

LEMMA FilasSon ==
    ASSUME NEW S, NEW c \in Seq(S), NEW R
    PROVE  Filas(c, R) \in Seq({c[k] : k \in R \cap DOMAIN c})
<1>1. Len(c) \in 0 .. Len(c)
  OBVIOUS
<1> QED BY <1>1, FilasEcuacion DEF FilasHasta

LEMMA CantidadNat ==
    ASSUME NEW c \in Seq(Articulo), NEW p
    PROVE  /\ Cantidad(c, p) \in Nat
           /\ EnCarrito(c, p) => /\ Indice(c, p) \in DOMAIN c
                                 /\ c[Indice(c, p)].id = p
<1>1. EnCarrito(c, p) => Indice(c, p) \in DOMAIN c /\ c[Indice(c, p)].id = p
  BY DEF EnCarrito, Indice
<1>2. EnCarrito(c, p) => c[Indice(c, p)].cant \in Nat
  BY <1>1, FilaTipo
<1> QED BY <1>1, <1>2 DEF Cantidad

\* A row of a promotion has no more sets than the units that are left allow.
LEMMA ConjuntosFilaNat ==
    ASSUME NEW m \in Promocion, NEW q \in [Productos -> Nat]
    PROVE  /\ ConjuntosFila(m, q) \in Nat
           /\ \A j \in DOMAIN m.productos :
                 ConjuntosFila(m, q) * m.cantidad <= q[m.productos[j]]
<1> DEFINE ps == m.productos
           n == m.cantidad
           T == {q[ps[k]] \div n : k \in DOMAIN ps}
<1>1. ps \in Seq(Productos) /\ n \in Nat \ {0}
  BY DEF Promocion
<1> HIDE DEF ps, n
<1>2. ASSUME NEW k \in DOMAIN ps PROVE q[ps[k]] \in Nat /\ q[ps[k]] \div n \in Nat
  <2>1. ps[k] \in Productos
    BY <1>1
  <2>2. q[ps[k]] \in Nat
    BY <2>1
  <2> QED BY <1>1, <2>2, DivNat
<1>3. CASE ConFila(m)
  <2>1. Len(ps) > 1
    BY <1>3 DEF ConFila, ps
  <2>2. 1 \in DOMAIN ps
    BY <1>1, <2>1
  <2>3. T \subseteq Nat /\ T # {}
    BY <1>2, <2>2
  <2> DEFINE t == Menor(T)
  <2>4. t \in T /\ \A y \in T : t <= y
    <3> HIDE DEF T
    <3> QED BY <2>3, MenorEs
  <2>5. t \in Nat
    BY <2>3, <2>4
  <2>6. ASSUME NEW j \in DOMAIN ps PROVE t * n <= q[ps[j]]
    <3> DEFINE a == q[ps[j]]
               b == a \div n
    <3>1. t <= b /\ a \in Nat /\ b \in Nat
      BY <1>2, <2>4
    <3>2. b * n <= a
      BY <1>1, <3>1, CocientePorDivisor
    <3>3. t * n <= b * n
      <4> HIDE DEF t, a, b
      <4>1. b - t \in Nat /\ (b - t) * n \in Nat
        BY <1>1, <2>5, <3>1
      <4>2. b * n = t * n + (b - t) * n
        BY <1>1, <2>5, <3>1
      <4>3. t * n \in Nat /\ b * n \in Nat
        BY <1>1, <2>5, <3>1
      <4> QED BY <4>1, <4>2, <4>3
    <3>4. t * n \in Nat /\ b * n \in Nat
      <4> HIDE DEF t, a, b
      <4> QED BY <1>1, <2>5, <3>1
    <3> HIDE DEF t, a, b
    <3>5. t * n <= a
      BY <3>1, <3>2, <3>3, <3>4
    <3> QED BY <3>5 DEF a
  <2>7. ConjuntosFila(m, q) = t
    BY <1>3 DEF ConjuntosFila, ps, n
  <2> HIDE DEF t
  <2> QED BY <2>5, <2>6, <2>7 DEF ps, n
<1>4. CASE ~ConFila(m)
  <2>1. ConjuntosFila(m, q) = 0
    BY <1>4 DEF ConjuntosFila
  <2>2. 0 * n = 0
    BY <1>1
  <2> QED BY <1>2, <2>1, <2>2 DEF ps, n
<1> QED BY <1>3, <1>4

\* The rows of the promotions take no more units than the cart has.
LEMMA QuedanEs ==
    ASSUME NEW ps \in Seq(Promocion), NEW c \in Seq(Articulo)
    PROVE  /\ \A k \in 0 .. Len(ps) : Quedan(ps, c)[k] \in [Productos -> Nat]
           /\ Quedan(ps, c)[0] = [p \in Productos |-> Cantidad(c, p)]
           /\ \A k \in 1 .. Len(ps) : Quedan(ps, c)[k] =
                 [p \in Productos |->
                     IF \E j \in DOMAIN ps[k].productos : ps[k].productos[j] = p
                     THEN Quedan(ps, c)[k - 1][p]
                              - ConjuntosFila(ps[k], Quedan(ps, c)[k - 1]) * ps[k].cantidad
                     ELSE Quedan(ps, c)[k - 1][p]]
<1> DEFINE V == [Productos -> Nat]
           L == Len(ps)
           b == [p \in Productos |-> Cantidad(c, p)]
           paso(k, v) == LET m == ps[k] IN
               [p \in Productos |->
                   IF \E j \in DOMAIN m.productos : m.productos[j] = p
                   THEN v[p] - ConjuntosFila(m, v) * m.cantidad
                   ELSE v[p]]
           Es(g) == g = [k \in 0 .. L |-> IF k = 0 THEN b ELSE paso(k, g[k - 1])]
           F == [k \in 1 .. L |-> [v \in V |-> paso(k, v)]]
<1>1. L \in Nat /\ DOMAIN ps = 1 .. L /\ \A k \in 1 .. L : ps[k] \in Promocion
  OBVIOUS
<1> HIDE DEF L
<1>2. b \in V
  BY CantidadNat
<1>3. ASSUME NEW k \in 1 .. L, NEW v \in V PROVE paso(k, v) \in V
  <2> DEFINE m == ps[k]
             n == ConjuntosFila(m, v)
  <2>1. m \in Promocion /\ m.cantidad \in Nat
    BY <1>1 DEF Promocion
  <2>2. n \in Nat /\ \A j \in DOMAIN m.productos : n * m.cantidad <= v[m.productos[j]]
    BY <2>1, ConjuntosFilaNat
  <2>3. n * m.cantidad \in Nat
    <3> HIDE DEF m, n
    <3> QED BY <2>1, <2>2
  <2> HIDE DEF m, n
  <2>4. ASSUME NEW p \in Productos, NEW j \in DOMAIN m.productos, m.productos[j] = p
        PROVE  v[p] - n * m.cantidad \in Nat
    <3> DEFINE x == n * m.cantidad
    <3>1. x <= v[p] /\ x \in Nat /\ v[p] \in Nat
      BY <2>2, <2>3, <2>4
    <3> HIDE DEF x
    <3>2. v[p] - x \in Nat
      BY <3>1
    <3> QED BY <3>2 DEF x
  <2>5. \A p \in Productos : v[p] \in Nat
    OBVIOUS
  <2>6. paso(k, v) = [p \in Productos |->
             IF \E j \in DOMAIN m.productos : m.productos[j] = p
             THEN v[p] - n * m.cantidad ELSE v[p]]
    BY DEF m, n
  <2> HIDE DEF paso
  <2> QED BY <2>4, <2>5, <2>6
<1>4. F \in [1 .. L -> [V -> V]]
  <2> HIDE DEF V, paso
  <2> QED BY <1>3
<1>5. PICK g : PasoAPaso(g, V, L, b, F)
  <2> HIDE DEF V, F, b
  <2> QED BY <1>1, <1>2, <1>4, RecursionExiste
<1> HIDE DEF V, b, paso
<1>6. \A n \in 0 .. L : g[n] = IF n = 0 THEN b ELSE paso(n, g[n - 1])
  <2> SUFFICES ASSUME NEW n \in 0 .. L, n # 0 PROVE g[n] = paso(n, g[n - 1])
    BY <1>5 DEF PasoAPaso
  <2>1. n \in 1 .. L /\ n - 1 \in 0 .. L
    BY <1>1
  <2>2. g[n] = F[n][g[n - 1]] /\ g[n - 1] \in V
    BY <1>5, <2>1 DEF PasoAPaso
  <2> QED BY <2>1, <2>2
<1>7. Es(g)
  <2>1. g = [n \in 0 .. L |-> g[n]]
    BY <1>5 DEF PasoAPaso
  <2> QED BY <1>6, <2>1, Zenon
<1> DEFINE f == CHOOSE f : Es(f)
<1>8. Es(f)
  <2> HIDE DEF Es
  <2> QED BY <1>7, Zenon
<1>9. Quedan(ps, c) = f
  BY Zenon DEF Quedan, L, b, paso
<1> HIDE DEF f
<1>10. f[0] = b /\ \A n \in 1 .. L : f[n] = paso(n, f[n - 1])
  <2>1. 0 \in 0 .. L /\ \A n \in 1 .. L : n \in 0 .. L /\ n # 0
    BY <1>1
  <2> QED BY <1>8, <2>1
<1> DEFINE Mal == {n \in 0 .. L : f[n] \notin V}
<1>11. Mal = {}
  <2>1. SUFFICES ASSUME Mal # {} PROVE FALSE
    OBVIOUS
  <2>2. Mal \subseteq Nat
    BY <1>1
  <2>3. PICK n \in Mal : \A k \in Mal : n <= k
    <3> HIDE DEF Mal
    <3> QED BY <2>1, <2>2, Minimo
  <2>4. n \in 1 .. L /\ n - 1 \in 0 .. L /\ n - 1 \notin Mal
    <3>1. n \in 0 .. L /\ n # 0
      BY <1>2, <1>10
    <3>2. n \in 1 .. L /\ n - 1 \in 0 .. L /\ ~(n <= n - 1)
      BY <1>1, <3>1
    <3> HIDE DEF Mal
    <3> QED BY <2>3, <3>2
  <2>5. f[n - 1] \in V
    BY <2>4
  <2>6. f[n] \in V
    BY <1>3, <1>10, <2>4, <2>5
  <2> QED BY <2>3, <2>6
<1> QED BY <1>9, <1>10, <1>11, Zenon DEF V, L, b, paso

LEMMA QuedanNat ==
    ASSUME NEW ps \in Seq(Promocion), NEW c \in Seq(Articulo)
    PROVE  \A k \in 0 .. Len(ps) : Quedan(ps, c)[k] \in [Productos -> Nat]
BY QuedanEs

(***************************************************************************)
(* The cart, its selection, and the handlers that wait.                    *)
(***************************************************************************)

Espera ==
    [op : {"contador", "promos"}]
    \cup [op : {"buscar"}, id : Productos]
    \cup [op : {"alta"}, id : Productos, stock : Nat \cup {Fallo}]
    \cup [op : {"cantidad"}, id : Productos, n : Nat \ {0}, stock : Nat \cup {Fallo}]

\* Has the handler read a stock that was there, if no read has failed?
Leida(e, f) ==
    e.op \in {"alta", "cantidad"} =>
        IF e.stock = Fallo THEN f = TRUE ELSE e.stock <= Existencias[e.id]

Esperan(s, f) == s \in Seq(Espera) /\ \A i \in DOMAIN s : Leida(s[i], f)

Caben(c, f) ==
    /\ c \in Seq(Articulo)
    /\ f = TRUE \/ \A i \in DOMAIN c : c[i].cant <= Existencias[c[i].id]

EnRango(s, c) == s \in Int /\ (s = -1 \/ s = 0 \/ s \in 0 .. (Len(c) - 1))

Almacen ==
    /\ promos \in {<<>>} \cup Promos
    /\ stock \in [Productos -> Int]
    /\ \A p \in Productos : stock[p] <= Existencias[p]
    /\ fallo \in BOOLEAN

CarritoInv ==
    /\ Almacen
    /\ Caben(carrito, fallo)
    /\ EnRango(sel, carrito)
    /\ Esperan(esperas, fallo)

LEMMA PromosTipo ==
    ASSUME CarritoInv
    PROVE  promos \in Seq(Promocion)
BY TerminalConstantes, EmptySeq DEF CarritoInv, Almacen

LEMMA CarritoTipo ==
    ASSUME CarritoInv
    PROVE  /\ carrito \in Seq(Articulo) /\ esperas \in Seq(Espera)
           /\ DOMAIN carrito = 1 .. Len(carrito) /\ Len(carrito) \in Nat
           /\ fallo \in BOOLEAN
BY DEF CarritoInv, Almacen, Caben, Esperan

\* What a step on the cart has to show.
LEMMA CarritoTras ==
    ASSUME CarritoInv, fallo' \in BOOLEAN, UNCHANGED <<promos, stock>>,
           Caben(carrito', fallo'), EnRango(sel', carrito'), Esperan(esperas', fallo')
    PROVE  CarritoInv'
<1>1. Almacen'
  BY DEF CarritoInv, Almacen
<1> QED BY <1>1 DEF CarritoInv, Caben, EnRango, Esperan, Leida, Articulo, Espera

LEMMA CarritoIgual ==
    ASSUME CarritoInv, UNCHANGED <<promos, stock, fallo, carrito, sel, esperas>>
    PROVE  CarritoInv'
BY DEF CarritoInv, Almacen, Caben, EnRango, Esperan, Leida, Articulo, Espera

\* A failure that is noted later allows what was allowed before.
LEMMA Despues ==
    ASSUME NEW f \in BOOLEAN, NEW g \in BOOLEAN, f => g
    PROVE  /\ \A c : Caben(c, f) => Caben(c, g)
           /\ \A s : Esperan(s, f) => Esperan(s, g)
<1>1. \A e : Leida(e, f) => Leida(e, g)
  BY DEF Leida
<1> QED BY <1>1 DEF Caben, Esperan

LEMMA UnaMas ==
    ASSUME NEW f, NEW s, Esperan(s, f), NEW e \in Espera, Leida(e, f)
    PROVE  Esperan(Append(s, e), f)
<1>1. s \in Seq(Espera)
  BY DEF Esperan
<1> DEFINE t == Append(s, e)
<1>2. /\ t \in Seq(Espera) /\ DOMAIN t = 1 .. (Len(s) + 1) /\ Len(s) \in Nat
      /\ t[Len(s) + 1] = e /\ \A i \in 1 .. Len(s) : t[i] = s[i]
      /\ DOMAIN s = 1 .. Len(s)
  BY <1>1
<1> HIDE DEF t
<1>3. \A i \in DOMAIN t : Leida(t[i], f)
  <2> TAKE i \in DOMAIN t
  <2>1. i = Len(s) + 1 \/ i \in 1 .. Len(s)
    BY <1>2
  <2> QED BY <1>2, <2>1 DEF Esperan
<1> QED BY <1>2, <1>3 DEF Esperan, t

LEMMA UnaMenos ==
    ASSUME NEW f, Esperan(esperas, f), NEW i \in DOMAIN esperas
    PROVE  Esperan(Sin(i), f)
<1>1. /\ esperas \in Seq(Espera) /\ Len(esperas) \in Nat \ {0} /\ i \in 1 .. Len(esperas)
      /\ DOMAIN esperas = 1 .. Len(esperas)
  BY DEF Esperan
<1> DEFINE t == Sin(i)
           L == Len(esperas)
<1>2. ASSUME NEW j \in 1 .. (L - 1)
      PROVE  \E k \in DOMAIN esperas : t[j] = esperas[k]
  <2>1. j \in 1 .. L /\ j + 1 \in 1 .. L
    BY <1>1
  <2>2. t[j] = IF j < i THEN esperas[j] ELSE esperas[j + 1]
    BY DEF Sin
  <2> QED BY <1>1, <2>1, <2>2
<1>3. DOMAIN t = 1 .. (L - 1) /\ t = [j \in 1 .. (L - 1) |-> t[j]]
  BY DEF Sin
<1>4. L - 1 \in Nat
  BY <1>1
<1>5. \A k \in DOMAIN esperas : esperas[k] \in Espera /\ Leida(esperas[k], f)
  BY <1>1 DEF Esperan
<1> HIDE DEF t, L
<1>6. \A j \in 1 .. (L - 1) : t[j] \in Espera /\ Leida(t[j], f)
  BY <1>2, <1>5
<1>7. t \in Seq(Espera)
  BY <1>3, <1>4, <1>6
<1> QED BY <1>3, <1>6, <1>7 DEF Esperan, t

\* A read gives a stock that was there, or notes that it failed.
LEMMA Leer ==
    ASSUME CarritoInv, NEW p \in Productos, NEW s \in Lecturas(p), Anotar(s)
    PROVE  /\ s \in Nat \cup {Fallo}
           /\ IF s = Fallo THEN fallo' = TRUE ELSE s <= Existencias[p]
           /\ fallo' \in BOOLEAN /\ (fallo => fallo')
<1>1. stock[p] \in Int /\ stock[p] <= Existencias[p] /\ fallo \in BOOLEAN
  BY DEF CarritoInv, Almacen
<1>2. Existencias[p] \in Nat
  BY TerminalConstantes
<1>3. Leido(p) \in Nat /\ Leido(p) <= Existencias[p]
  <2>1. Mayor({0, stock[p]}) \in Nat /\ Mayor({0, stock[p]}) \in {0, stock[p]}
    BY <1>1, MayorDeCero
  <2> QED BY <1>1, <1>2, <2>1 DEF Leido
<1>4. s = Leido(p) \/ s = Fallo
  BY DEF Lecturas
<1>5. fallo' = (fallo \/ s = Fallo)
  BY DEF Anotar
<1>6. fallo' \in BOOLEAN /\ (fallo => fallo') /\ (s = Fallo => fallo' = TRUE)
  BY <1>1, <1>5
<1> QED BY <1>3, <1>4, <1>6

LEMMA FallaAntes ==
    ASSUME CarritoInv, fallo' \in BOOLEAN, fallo => fallo'
    PROVE  Caben(carrito, fallo') /\ Esperan(esperas, fallo')
BY Despues DEF CarritoInv, Almacen

LEMMA AltaPedida ==
    ASSUME CarritoInv, NEW p \in Productos, PedirAlta(p),
           UNCHANGED <<carrito, sel, promos, stock>>
    PROVE  CarritoInv'
<1>1. PICK s \in Lecturas(p) : Anotar(s) /\ Esperar([op |-> "alta", id |-> p, stock |-> s])
  BY DEF PedirAlta
<1> DEFINE e == [op |-> "alta", id |-> p, stock |-> s]
<1>2. /\ s \in Nat \cup {Fallo}
      /\ IF s = Fallo THEN fallo' = TRUE ELSE s <= Existencias[p]
      /\ fallo' \in BOOLEAN /\ (fallo => fallo')
  BY <1>1, Leer
<1>3. e \in Espera /\ Leida(e, fallo')
  BY <1>2 DEF Espera, Leida
<1>4. Esperan(esperas, fallo') /\ Caben(carrito, fallo')
  BY <1>2, FallaAntes
<1> HIDE DEF e
<1>5. Esperan(Append(esperas, e), fallo')
  BY <1>3, <1>4, UnaMas
<1>6. esperas' = Append(esperas, e)
  BY <1>1 DEF Esperar, e
<1>7. EnRango(sel', carrito')
  BY DEF CarritoInv
<1> QED BY <1>2, <1>4, <1>5, <1>6, <1>7, CarritoTras

\* Rows of the cart fit as the cart does.
LEMMA FilasCaben ==
    ASSUME NEW f, NEW c, Caben(c, f), NEW R
    PROVE  /\ Caben(Filas(c, R), f)
           /\ \A j \in DOMAIN Filas(c, R) : \E k \in R \cap DOMAIN c : Filas(c, R)[j] = c[k]
<1> DEFINE T == {c[k] : k \in R \cap DOMAIN c}
           r == Filas(c, R)
<1>1. c \in Seq(Articulo) /\ \A k \in DOMAIN c : c[k] \in Articulo
  BY DEF Caben
<1>2. r \in Seq(T)
  BY <1>1, FilasSon
<1>3. T \subseteq Articulo
  BY <1>1
<1> HIDE DEF T, r
<1>4. r \in Seq(Articulo) /\ \A j \in DOMAIN r : r[j] \in T
  BY <1>2, <1>3
<1>5. \A j \in DOMAIN r : \E k \in R \cap DOMAIN c : r[j] = c[k]
  BY <1>4 DEF T
<1> QED BY <1>4, <1>5 DEF Caben, r

LEMMA AcotarEsta ==
    ASSUME NEW n \in Int, NEW c \in Seq(Articulo)
    PROVE  EnRango(Acotar(n, Len(c)), c)
<1> DEFINE L == Len(c) - 1
           m == Menor({n, L})
<1>1. L \in Int
  OBVIOUS
<1> HIDE DEF L
<1>2. m \in Int /\ m <= L
  BY <1>1, MenorDeDos
<1> HIDE DEF m
<1>3. Mayor({0, m}) \in Nat /\ Mayor({0, m}) \in {0, m}
  BY <1>2, MayorDeCero
<1> DEFINE x == Mayor({0, m})
<1> HIDE DEF x
<1>4. x \in Int /\ (x = -1 \/ x = 0 \/ x \in 0 .. L)
  BY <1>1, <1>2, <1>3 DEF x
<1>5. Acotar(n, Len(c)) = x
  BY DEF Acotar, x, m, L
<1> QED BY <1>4, <1>5 DEF EnRango, L

LEMMA Dejados ==
    ASSUME CarritoInv, NEW Q, Dejar(Q)
    PROVE  Caben(carrito', fallo) /\ EnRango(sel', carrito')
<1> DEFINE r == ConSolo(Q)
<1>1. Caben(carrito, fallo) /\ EnRango(sel, carrito)
  BY DEF CarritoInv
<1>2. Caben(r, fallo)
  BY <1>1, FilasCaben DEF ConSolo
<1>3. r \in Seq(Articulo)
  BY <1>2 DEF Caben
<1>4. carrito' = r /\ sel' = IF r = carrito THEN sel ELSE Acotar(sel, Len(r))
  BY DEF Dejar
<1>5. sel \in Int
  BY <1>1 DEF EnRango
<1> HIDE DEF r
<1>6. EnRango(Acotar(sel, Len(r)), r)
  BY <1>3, <1>5, AcotarEsta
<1> QED BY <1>1, <1>2, <1>4, <1>6

\* updateQuantity, asked for.
LEMMA CantidadPedida ==
    ASSUME CarritoInv, NEW p \in Productos, NEW n \in Int, PedirCantidad(p, n),
           UNCHANGED <<promos, stock>>
    PROVE  CarritoInv'
<1>1. CASE n <= 0
  <2>1. Dejar(Productos \ {p}) /\ UNCHANGED <<esperas, fallo>>
    BY <1>1 DEF PedirCantidad
  <2>2. Caben(carrito', fallo') /\ EnRango(sel', carrito')
    BY <2>1, Dejados
  <2>3. Esperan(esperas', fallo') /\ fallo' \in BOOLEAN
    BY <2>1 DEF CarritoInv, Almacen
  <2> QED BY <2>2, <2>3, CarritoTras
<1>2. CASE n > 0
  <2>1. ~(n <= 0)
    BY <1>2
  <2>2. PICK s \in Lecturas(p) :
            Anotar(s) /\ Esperar([op |-> "cantidad", id |-> p, n |-> n, stock |-> s])
    BY <2>1 DEF PedirCantidad
  <2>3. UNCHANGED <<carrito, sel>>
    BY <2>1 DEF PedirCantidad
  <2> DEFINE e == [op |-> "cantidad", id |-> p, n |-> n, stock |-> s]
  <2>4. /\ s \in Nat \cup {Fallo}
        /\ IF s = Fallo THEN fallo' = TRUE ELSE s <= Existencias[p]
        /\ fallo' \in BOOLEAN /\ (fallo => fallo')
    BY <2>2, Leer
  <2>5. n \in Nat \ {0}
    BY <1>2
  <2>6. e \in Espera /\ Leida(e, fallo')
    BY <2>4, <2>5 DEF Espera, Leida
  <2>7. Esperan(esperas, fallo') /\ Caben(carrito, fallo')
    BY <2>4, FallaAntes
  <2> HIDE DEF e
  <2>8. Esperan(Append(esperas, e), fallo')
    BY <2>6, <2>7, UnaMas
  <2>9. esperas' = Append(esperas, e)
    BY <2>2 DEF Esperar, e
  <2>10. EnRango(sel', carrito')
    BY <2>3 DEF CarritoInv
  <2> QED BY <2>3, <2>4, <2>7, <2>8, <2>9, <2>10, CarritoTras
<1> QED BY <1>1, <1>2

\* One more of a product, when what there is allows it.
LEMMA UnoMasCabe ==
    ASSUME NEW c, NEW f \in BOOLEAN, Caben(c, f), NEW p \in Productos,
           f = TRUE \/ Cantidad(c, p) + 1 <= Existencias[p]
    PROVE  /\ EnCarrito(c, p) =>
                 Caben([c EXCEPT ![Indice(c, p)].cant = @ + 1], f)
           /\ ~EnCarrito(c, p) =>
                 Caben(Append(c, [id |-> p, cant |-> 1, desc |-> 0]), f)
<1>1. c \in Seq(Articulo)
  BY DEF Caben
<1>2. ASSUME EnCarrito(c, p)
      PROVE  Caben([c EXCEPT ![Indice(c, p)].cant = @ + 1], f)
  <2> DEFINE i == Indice(c, p)
             d == [c EXCEPT ![i].cant = @ + 1]
             it == [c[i] EXCEPT !.cant = @ + 1]
  <2>1. i \in 1 .. Len(c) /\ c[i].id = p
    BY <1>1, <1>2, CantidadNat
  <2>2. Cantidad(c, p) = c[i].cant
    BY <1>2 DEF Cantidad
  <2> HIDE DEF i
  <2>3. c[i] \in Articulo
    BY <1>1, <2>1
  <2>4. it \in Articulo /\ it.id = p /\ it.cant = c[i].cant + 1
    <3> DEFINE x == c[i]
               v == x.cant + 1
    <3>1. x \in Articulo /\ v \in Nat \ {0} /\ it = [x EXCEPT !.cant = v] /\ x.id = p
      BY <2>1, <2>3 DEF Articulo
    <3> HIDE DEF x, v, it
    <3>2. it \in Articulo /\ it.id = p /\ it.cant = v
      BY <3>1 DEF Articulo
    <3> QED BY <3>2 DEF x, v
  <2> HIDE DEF it
  <2>5. d = [c EXCEPT ![i] = it]
    BY DEF it
  <2>6. /\ d \in Seq(Articulo) /\ Len(d) = Len(c)
        /\ \A j \in 1 .. Len(c) : d[j] = IF j = i THEN it ELSE c[j]
    BY <1>1, <2>1, <2>4, <2>5, ExceptSeq
  <2> HIDE DEF d
  <2>7. ASSUME f # TRUE, NEW j \in DOMAIN d PROVE d[j].cant <= Existencias[d[j].id]
    <3>1. j \in 1 .. Len(c) /\ j \in DOMAIN c
      BY <1>1, <2>6
    <3>2. CASE j = i
      <4>1. c[i].cant + 1 <= Existencias[p]
        BY <2>2, <2>7
      <4> QED BY <2>4, <2>6, <3>1, <3>2, <4>1
    <3>3. CASE j # i
      BY <2>6, <2>7, <3>1, <3>3 DEF Caben
    <3> QED BY <3>2, <3>3
  <2> QED BY <2>6, <2>7 DEF Caben, d, i
<1>3. ASSUME ~EnCarrito(c, p)
      PROVE  Caben(Append(c, [id |-> p, cant |-> 1, desc |-> 0]), f)
  <2> DEFINE it == [id |-> p, cant |-> 1, desc |-> 0]
             d == Append(c, it)
  <2>1. it \in Articulo /\ it.cant = 1 /\ it.id = p
    BY DEF Articulo
  <2>2. Cantidad(c, p) = 0
    BY <1>3 DEF Cantidad
  <2> HIDE DEF it
  <2>3. /\ d \in Seq(Articulo) /\ DOMAIN d = 1 .. (Len(c) + 1) /\ Len(c) \in Nat
        /\ d[Len(c) + 1] = it /\ \A j \in 1 .. Len(c) : d[j] = c[j]
        /\ DOMAIN c = 1 .. Len(c)
    BY <1>1, <2>1
  <2> HIDE DEF d
  <2>4. ASSUME f # TRUE, NEW j \in DOMAIN d PROVE d[j].cant <= Existencias[d[j].id]
    <3>1. j = Len(c) + 1 \/ j \in 1 .. Len(c)
      BY <2>3
    <3>2. CASE j = Len(c) + 1
      <4>1. 1 <= Existencias[p]
        <5>1. Cantidad(c, p) + 1 <= Existencias[p]
          BY <2>4
        <5>2. 0 + 1 <= Existencias[p]
          BY <2>2, <5>1
        <5> QED BY <5>2
      <4> QED BY <2>1, <2>3, <3>2, <4>1
    <3>3. CASE j \in 1 .. Len(c)
      BY <2>3, <2>4, <3>3 DEF Caben
    <3> QED BY <3>1, <3>2, <3>3
  <2> QED BY <2>3, <2>4 DEF Caben, d, it
<1> QED BY <1>2, <1>3

LEMMA EsperaTipo ==
    ASSUME CarritoInv, NEW i \in DOMAIN esperas
    PROVE  /\ esperas[i] \in Espera /\ Leida(esperas[i], fallo)
           /\ esperas[i].op \in {"alta", "cantidad"} =>
                 /\ esperas[i].id \in Productos
                 /\ esperas[i].stock \in Nat \cup {Fallo}
           /\ esperas[i].op = "buscar" => esperas[i].id \in Productos
           /\ esperas[i].op = "cantidad" => esperas[i].n \in Nat \ {0}
<1>1. esperas[i] \in Espera /\ Leida(esperas[i], fallo)
  BY DEF CarritoInv, Esperan
<1> QED BY <1>1 DEF Espera

\* addItem, with its stock.
LEMMA AltaHecha ==
    ASSUME CarritoInv, NEW i \in DOMAIN esperas, Alta(i)
    PROVE  Caben(carrito', fallo) /\ EnRango(sel', carrito')
<1> DEFINE e == esperas[i]
           p == e.id
<1>1. Caben(carrito, fallo) /\ EnRango(sel, carrito) /\ fallo \in BOOLEAN
      /\ carrito \in Seq(Articulo)
  BY CarritoTipo DEF CarritoInv
<1>2. /\ e.op = "alta" /\ p \in Productos /\ e.stock \in Nat \cup {Fallo}
      /\ Leida(e, fallo)
  BY EsperaTipo DEF Alta
<1>3. CASE ~Alcanza(e)
  <2>1. UNCHANGED <<carrito, sel>>
    BY <1>3 DEF Alta
  <2> QED BY <1>1, <2>1
<1>4. CASE Alcanza(e)
  <2>1. carrito' = MasUno(p) /\ sel' = Indice(carrito', p) - 1
    BY <1>4 DEF Alta
  <2>2. fallo = TRUE \/ Cantidad(carrito, p) + 1 <= Existencias[p]
    <3>1. Cantidad(carrito, p) \in Nat /\ Existencias[p] \in Nat
      BY <1>1, <1>2, CantidadNat, TerminalConstantes
    <3>2. CASE e.stock = Fallo
      BY <1>2, <3>2 DEF Leida
    <3>3. CASE e.stock # Fallo
      <4>1. Cantidad(carrito, p) + 1 <= e.stock /\ e.stock <= Existencias[p] /\ e.stock \in Nat
        BY <1>2, <1>4, <3>3 DEF Alcanza, Leida
      <4> HIDE DEF e, p
      <4> QED BY <3>1, <4>1
    <3> QED BY <3>2, <3>3
  <2> HIDE DEF e, p
  <2>3. Caben(carrito', fallo)
    BY <1>1, <1>2, <2>1, <2>2, UnoMasCabe DEF MasUno
  <2>4. carrito' \in Seq(Articulo) /\ carrito \in Seq(Articulo)
    BY <1>1, <2>3 DEF Caben
  <2>5. EnCarrito(carrito', p)
    <3>1. CASE EnCarrito(carrito, p)
      <4> DEFINE k == Indice(carrito, p)
                 d == [carrito EXCEPT ![k].cant = @ + 1]
      <4>1. k \in DOMAIN carrito /\ carrito[k].id = p
        BY <1>1, <3>1, CantidadNat
      <4>2. carrito' = d
        BY <2>1, <3>1 DEF MasUno
      <4> HIDE DEF k
      <4>3. carrito[k] \in Articulo
        BY <1>1, <4>1
      <4>4. k \in DOMAIN d /\ d[k].id = p
        BY <4>1, <4>3 DEF Articulo
      <4> QED BY <4>2, <4>4 DEF EnCarrito
    <3>2. CASE ~EnCarrito(carrito, p)
      <4> DEFINE it == [id |-> p, cant |-> 1, desc |-> 0]
      <4>1. carrito' = Append(carrito, it) /\ it.id = p
        BY <2>1, <3>2 DEF MasUno
      <4> HIDE DEF it
      <4>2. Len(carrito) + 1 \in DOMAIN carrito' /\ carrito'[Len(carrito) + 1] = it
        BY <1>1, <4>1
      <4> QED BY <4>1, <4>2 DEF EnCarrito
    <3> QED BY <3>1, <3>2
  <2>6. Indice(carrito', p) \in 1 .. Len(carrito')
    BY <2>4, <2>5, CantidadNat
  <2>7. EnRango(sel', carrito')
    <3> DEFINE k == Indice(carrito', p)
               L == Len(carrito')
    <3>1. sel' = k - 1 /\ k \in 1 .. L /\ L \in Nat
      BY <2>1, <2>4, <2>6
    <3> HIDE DEF k, L
    <3>2. sel' \in Int /\ sel' \in 0 .. (L - 1)
      BY <3>1
    <3> QED BY <3>2 DEF EnRango, L
  <2> QED BY <2>3, <2>7
<1> QED BY <1>3, <1>4

\* updateQuantity, with its stock.
LEMMA CantidadFijada ==
    ASSUME CarritoInv, NEW i \in DOMAIN esperas, Fijar(i)
    PROVE  Caben(carrito', fallo) /\ EnRango(sel', carrito')
<1> DEFINE e == esperas[i]
           cambia(j) == carrito[j].id = e.id /\ (e.stock = Fallo \/ e.n <= e.stock)
           nueva(j) == IF cambia(j) THEN [carrito[j] EXCEPT !.cant = e.n] ELSE carrito[j]
           d == [j \in DOMAIN carrito |-> nueva(j)]
<1>1. /\ Caben(carrito, fallo) /\ EnRango(sel, carrito) /\ fallo \in BOOLEAN
      /\ carrito \in Seq(Articulo) /\ DOMAIN carrito = 1 .. Len(carrito) /\ Len(carrito) \in Nat
  BY CarritoTipo DEF CarritoInv
<1>2. /\ e.op = "cantidad" /\ e.id \in Productos /\ e.stock \in Nat \cup {Fallo}
      /\ e.n \in Nat \ {0} /\ Leida(e, fallo)
  BY EsperaTipo DEF Fijar
<1>3. carrito' = d /\ sel' = sel
  BY DEF Fijar
<1> HIDE DEF e
<1>4. ASSUME NEW j \in DOMAIN carrito
      PROVE  /\ nueva(j) \in Articulo
             /\ fallo = TRUE \/ nueva(j).cant <= Existencias[nueva(j).id]
  <2>1. carrito[j] \in Articulo
    BY <1>1
  <2>2. CASE cambia(j)
    <3>1. nueva(j) = [carrito[j] EXCEPT !.cant = e.n]
      BY <2>2
    <3>2. [carrito[j] EXCEPT !.cant = e.n] \in Articulo
      BY <1>2, <2>1 DEF Articulo
    <3>3. [carrito[j] EXCEPT !.cant = e.n].cant = e.n
          /\ [carrito[j] EXCEPT !.cant = e.n].id = e.id
      BY <2>1, <2>2 DEF Articulo
    <3>4. fallo = TRUE \/ e.n <= Existencias[e.id]
      <4>1. CASE e.stock = Fallo
        BY <1>2, <4>1 DEF Leida
      <4>2. CASE e.stock # Fallo
        <5>1. e.n <= e.stock /\ e.stock <= Existencias[e.id] /\ e.stock \in Nat
          BY <1>2, <2>2, <4>2 DEF Leida
        <5>2. Existencias[e.id] \in Nat
          BY <1>2, TerminalConstantes
        <5> QED BY <1>2, <5>1, <5>2
      <4> QED BY <4>1, <4>2
    <3> QED BY <3>1, <3>2, <3>3, <3>4
  <2>3. CASE ~cambia(j)
    BY <1>1, <2>1, <2>3 DEF Caben
  <2> QED BY <2>2, <2>3
<1> HIDE DEF nueva
<1>5. /\ d \in Seq(Articulo) /\ DOMAIN d = DOMAIN carrito
      /\ \A j \in DOMAIN d : d[j] = nueva(j)
      /\ Len(d) = Len(carrito)
  <2> DEFINE L == Len(carrito)
  <2>1. DOMAIN d = 1 .. L /\ \A j \in 1 .. L : d[j] = nueva(j)
    BY <1>1
  <2>2. L \in Nat /\ d = [j \in 1 .. L |-> d[j]]
    BY <1>1
  <2> HIDE DEF d, L
  <2>3. \A j \in 1 .. L : d[j] \in Articulo
    BY <1>1, <1>4, <2>1 DEF L
  <2>4. d \in Seq(Articulo)
    BY <2>2, <2>3
  <2>5. Len(d) = L
    BY <2>1, <2>2, <2>4
  <2> QED BY <1>1, <2>1, <2>4, <2>5 DEF L
<1> HIDE DEF d
<1>6. Caben(d, fallo)
  BY <1>4, <1>5 DEF Caben
<1>7. EnRango(sel, d)
  BY <1>1, <1>5 DEF EnRango
<1> QED BY <1>3, <1>6, <1>7

LEMMA CarritoContinuar ==
    ASSUME CarritoInv, NEW i, Continuar(i)
    PROVE  CarritoInv'
<1>2. i \in DOMAIN esperas /\ (Alta(i) \/ Fijar(i)) /\ esperas' = Sin(i)
      /\ UNCHANGED <<promos, stock, fallo>>
  BY DEF Continuar
<1>3. Caben(carrito', fallo) /\ EnRango(sel', carrito')
  BY <1>2, AltaHecha, CantidadFijada
<1>4. Esperan(Sin(i), fallo)
  BY <1>2, UnaMenos DEF CarritoInv
<1>5. fallo \in BOOLEAN
  BY CarritoTipo
<1> QED BY <1>2, <1>3, <1>4, <1>5, CarritoTras

\* The rows of a promotion that is taken off wait for their stock.
LEMMA ComboQuitado ==
    ASSUME CarritoInv, NEW k \in 1 .. Len(promos), QuitarCombo(k)
    PROVE  CarritoInv'
<1> DEFINE m == promos[k]
           q == Quedan(promos, carrito)[k - 1]
           n == ConjuntosFila(m, q) * m.cantidad
           suyo(it) == \E j \in DOMAIN m.productos : m.productos[j] = it.id
           R == {j \in DOMAIN carrito : suyo(carrito[j]) /\ carrito[j].cant > n}
           r == Filas(carrito, R)
           Q == {p \in Productos : \E j \in DOMAIN carrito :
                    carrito[j].id = p /\ (suyo(carrito[j]) => carrito[j].cant > n)}
<1>1. PICK mal \in BOOLEAN :
          /\ Dejar(Q)
          /\ fallo' = (fallo \/ (mal /\ r # <<>>))
          /\ esperas' = esperas \o [j \in DOMAIN r |->
                 [op |-> "cantidad", id |-> r[j].id, n |-> r[j].cant - n,
                  stock |-> IF mal THEN Fallo ELSE Leido(r[j].id)]]
          /\ UNCHANGED <<promos, stock>>
  BY DEF QuitarCombo, FueraDelCarrito
<1>2. /\ carrito \in Seq(Articulo) /\ promos \in Seq(Promocion) /\ fallo \in BOOLEAN
      /\ Caben(carrito, fallo) /\ Esperan(esperas, fallo) /\ esperas \in Seq(Espera)
  BY CarritoTipo, PromosTipo DEF CarritoInv
<1>3. n \in Nat
  <2>1. m \in Promocion /\ k - 1 \in 0 .. Len(promos) /\ m.cantidad \in Nat
    <3>1. m \in Promocion /\ Len(promos) \in Nat
      BY <1>2
    <3>2. m.cantidad \in Nat
      BY <3>1 DEF Promocion
    <3> QED BY <3>1, <3>2
  <2>2. q \in [Productos -> Nat]
    BY <1>2, <2>1, QuedanNat
  <2>3. ConjuntosFila(m, q) \in Nat
    BY <2>1, <2>2, ConjuntosFilaNat
  <2> HIDE DEF m, q
  <2> QED BY <2>1, <2>3
<1> DEFINE e(j) == [op |-> "cantidad", id |-> r[j].id, n |-> r[j].cant - n,
                    stock |-> IF mal THEN Fallo ELSE Leido(r[j].id)]
           t == [j \in DOMAIN r |-> e(j)]
<1> HIDE DEF n
<1>4. r \in Seq(Articulo) /\ \A j \in DOMAIN r : r[j] \in Articulo /\ r[j].cant > n
  <2>1. Caben(r, fallo) /\ \A j \in DOMAIN r : \E i \in R \cap DOMAIN carrito : r[j] = carrito[i]
    <3> HIDE DEF R
    <3> QED BY <1>2, FilasCaben
  <2>2. r \in Seq(Articulo)
    BY <2>1 DEF Caben
  <2>3. \A i \in R : carrito[i].cant > n
    OBVIOUS
  <2> HIDE DEF R, r
  <2> QED BY <2>1, <2>2, <2>3
<1> HIDE DEF r, Q
<1>5. fallo' \in BOOLEAN /\ (fallo => fallo')
  BY <1>1, <1>2
<1>6. ASSUME NEW j \in DOMAIN r PROVE e(j) \in Espera /\ Leida(e(j), fallo')
  <2> DEFINE p == r[j].id
  <2>1. p \in Productos /\ r[j].cant - n \in Nat \ {0}
    BY <1>3, <1>4 DEF Articulo
  <2>2. r # <<>>
    BY <1>4
  <2>3. mal => fallo' = TRUE
    BY <1>1, <2>2
  <2>4. Leido(p) \in Nat /\ Leido(p) <= Existencias[p]
    <3>1. stock[p] \in Int /\ stock[p] <= Existencias[p] /\ Existencias[p] \in Nat
      BY <2>1, TerminalConstantes DEF CarritoInv, Almacen
    <3>2. Mayor({0, stock[p]}) \in Nat /\ Mayor({0, stock[p]}) \in {0, stock[p]}
      BY <3>1, MayorDeCero
    <3> QED BY <3>1, <3>2 DEF Leido
  <2>5. CASE mal
    <3>1. e(j) = [op |-> "cantidad", id |-> p, n |-> r[j].cant - n, stock |-> Fallo]
      BY <2>5
    <3> QED BY <2>1, <2>3, <2>5, <3>1 DEF Espera, Leida
  <2>6. CASE ~mal
    <3>1. e(j) = [op |-> "cantidad", id |-> p, n |-> r[j].cant - n, stock |-> Leido(p)]
      BY <2>6
    <3>2. Leido(p) # Fallo
      BY <2>4 DEF Fallo
    <3> QED BY <2>1, <2>4, <3>1, <3>2 DEF Espera, Leida
  <2> QED BY <2>5, <2>6
<1> HIDE DEF e
<1>7. /\ t \in Seq(Espera) /\ DOMAIN t = DOMAIN r
      /\ \A j \in DOMAIN t : Leida(t[j], fallo')
  <2>1. DOMAIN r = 1 .. Len(r) /\ Len(r) \in Nat
    BY <1>4
  <2>2. DOMAIN t = DOMAIN r /\ \A j \in DOMAIN r : t[j] = e(j)
    OBVIOUS
  <2>3. t = [j \in 1 .. Len(r) |-> t[j]]
    BY <2>1
  <2> HIDE DEF t
  <2>4. t \in Seq(Espera)
    BY <1>6, <2>1, <2>2, <2>3
  <2> QED BY <1>6, <2>2, <2>4
<1>8. Caben(carrito', fallo) /\ EnRango(sel', carrito')
  BY <1>1, Dejados
<1>9. Caben(carrito', fallo') /\ Esperan(esperas, fallo')
  BY <1>2, <1>5, <1>8, Despues
<1>10. esperas' = esperas \o t
  BY <1>1 DEF e
<1> HIDE DEF t
<1>11. Esperan(esperas \o t, fallo')
  <2> DEFINE w == esperas \o t
  <2>1. /\ w \in Seq(Espera) /\ DOMAIN w = 1 .. (Len(esperas) + Len(t))
        /\ Len(esperas) \in Nat /\ Len(t) \in Nat
        /\ \A i \in 1 .. Len(esperas) : w[i] = esperas[i]
        /\ \A i \in 1 .. Len(t) : w[Len(esperas) + i] = t[i]
        /\ DOMAIN esperas = 1 .. Len(esperas) /\ DOMAIN t = 1 .. Len(t)
    BY <1>2, <1>7
  <2> HIDE DEF w
  <2>2. ASSUME NEW i \in DOMAIN w PROVE Leida(w[i], fallo')
    <3>1. CASE i \in 1 .. Len(esperas)
      BY <1>9, <2>1, <3>1 DEF Esperan
    <3>2. CASE i \notin 1 .. Len(esperas)
      <4> DEFINE j == i - Len(esperas)
      <4>1. j \in 1 .. Len(t) /\ i = Len(esperas) + j
        BY <2>1, <3>2
      <4> HIDE DEF j
      <4>2. w[i] = t[j] /\ j \in DOMAIN t
        BY <2>1, <4>1
      <4> QED BY <1>7, <4>2
    <3> QED BY <3>1, <3>2
  <2> QED BY <2>1, <2>2 DEF Esperan, w
<1> QED BY <1>1, <1>5, <1>8, <1>9, <1>10, <1>11, CarritoTras

LEMMA CarritoEncontrar ==
    ASSUME CarritoInv, NEW i, Encontrar(i)
    PROVE  CarritoInv'
<1> DEFINE p == esperas[i].id
<1>1. /\ i \in DOMAIN esperas /\ esperas[i].op = "buscar"
      /\ UNCHANGED <<carrito, sel, promos, stock>>
  BY DEF Encontrar, FueraDelCarrito
<1>2. p \in Productos
  BY <1>1, EsperaTipo
<1>3. Esperan(esperas, fallo) /\ EnRango(sel', carrito') /\ Caben(carrito, fallo)
  BY <1>1 DEF CarritoInv
<1>4. Esperan(Sin(i), fallo)
  BY <1>1, <1>3, UnaMenos
<1>5. CASE esperas' = Sin(i) /\ UNCHANGED fallo
  BY <1>1, <1>3, <1>4, <1>5, CarritoTipo, CarritoTras
<1>6. CASE \E s \in Lecturas(p) :
              /\ Anotar(s)
              /\ esperas' = Append(Sin(i), [op |-> "alta", id |-> p, stock |-> s])
  <2>1. PICK s \in Lecturas(p) :
              /\ Anotar(s)
              /\ esperas' = Append(Sin(i), [op |-> "alta", id |-> p, stock |-> s])
    BY <1>6
  <2> DEFINE e == [op |-> "alta", id |-> p, stock |-> s]
  <2>2. /\ s \in Nat \cup {Fallo}
        /\ IF s = Fallo THEN fallo' = TRUE ELSE s <= Existencias[p]
        /\ fallo' \in BOOLEAN /\ (fallo => fallo')
    BY <1>2, <2>1, Leer
  <2> HIDE DEF p
  <2>3. e \in Espera /\ Leida(e, fallo')
    BY <1>2, <2>2 DEF Espera, Leida
  <2>4. Esperan(Sin(i), fallo') /\ Caben(carrito', fallo')
    <3>1. fallo \in BOOLEAN
      BY CarritoTipo
    <3> QED BY <1>1, <1>3, <1>4, <2>2, <3>1, Despues
  <2> HIDE DEF e
  <2>5. Esperan(Append(Sin(i), e), fallo')
    BY <2>3, <2>4, UnaMas
  <2>6. esperas' = Append(Sin(i), e)
    BY <2>1 DEF e
  <2> QED BY <1>1, <1>3, <2>2, <2>4, <2>5, <2>6, CarritoTras
<1> QED BY <1>5, <1>6 DEF Encontrar

LEMMA CarritoRespuesta ==
    ASSUME CarritoInv, NEW i, Respuesta(i)
    PROVE  CarritoInv'
<1>1. /\ i \in DOMAIN esperas /\ esperas' = Sin(i)
      /\ UNCHANGED <<carrito, sel, stock, fallo>>
      /\ promos' = promos \/ promos' \in Promos
  BY DEF Respuesta, ContadorSincronizado, LleganPromos
<1>2. Esperan(Sin(i), fallo)
  BY <1>1, UnaMenos DEF CarritoInv
<1>3. Almacen'
  BY <1>1 DEF CarritoInv, Almacen
<1> QED BY <1>1, <1>2, <1>3
        DEF CarritoInv, Caben, EnRango, Esperan, Leida, Articulo, Espera

LEMMA FilaElegida ==
    ASSUME CarritoInv, Seleccionado
    PROVE  sel + 1 \in DOMAIN carrito
<1>1. sel \in Int /\ DOMAIN carrito = 1 .. Len(carrito) /\ Len(carrito) \in Nat
  BY CarritoTipo DEF CarritoInv, EnRango
<1> QED BY <1>1 DEF Seleccionado

LEMMA CarritoSumar ==
    ASSUME CarritoInv, NEW d \in {1, -1}, Sumar(d)
    PROVE  CarritoInv'
<1> DEFINE it == carrito[sel + 1]
<1>1. sel + 1 \in DOMAIN carrito
  BY FilaElegida DEF Sumar
<1>2. it.id \in Productos /\ it.cant \in Nat
  BY <1>1, FilaTipo, CarritoTipo
<1>3. PedirCantidad(it.id, it.cant + d) /\ UNCHANGED <<promos, stock>>
  BY DEF Sumar, FueraDelCarrito
<1> HIDE DEF it
<1>4. it.cant + d \in Int
  BY <1>2
<1> QED BY <1>2, <1>3, <1>4, CantidadPedida

LEMMA SueltasNat ==
    ASSUME CarritoInv, NEW j \in DOMAIN carrito
    PROVE  Sueltas(promos, carrito, j) \in Nat
<1>1. carrito \in Seq(Articulo) /\ promos \in Seq(Promocion) /\ carrito[j].id \in Productos
  BY FilaTipo, CarritoTipo, PromosTipo
<1>2. Len(promos) \in 0 .. Len(promos)
  BY <1>1
<1>3. Quedan(promos, carrito)[Len(promos)] \in [Productos -> Nat]
  BY <1>1, <1>2, QuedanNat
<1> QED BY <1>1, <1>3 DEF Sueltas

LEMMA CarritoEditarFila ==
    ASSUME CarritoInv, NEW j, EditarFila(j)
    PROVE  CarritoInv'
<1> DEFINE it == carrito[j]
           enCombos == it.cant - Sueltas(promos, carrito, j)
<1>1. j \in DOMAIN carrito
  BY DEF EditarFila, ConFilaSuelta
<1>2. it.id \in Productos /\ it.cant \in Nat /\ Sueltas(promos, carrito, j) \in Nat
  BY <1>1, FilaTipo, CarritoTipo, SueltasNat
<1>3. PICK n \in {it.cant - 1, it.cant + 1, enCombos} \cup {enCombos + v : v \in 1..MaxCant} :
          PedirCantidad(it.id, n)
  BY DEF EditarFila
<1>4. n \in Int
  <2> DEFINE x == it.cant
             y == Sueltas(promos, carrito, j)
  <2>1. x \in Nat /\ y \in Nat
        /\ n \in {x - 1, x + 1, x - y} \cup {x - y + v : v \in 1..MaxCant}
    BY <1>2, <1>3
  <2> HIDE DEF x, y
  <2> QED BY <2>1
<1>5. UNCHANGED <<promos, stock>>
  BY DEF EditarFila, FueraDelCarrito
<1> QED BY <1>2, <1>3, <1>4, <1>5, CantidadPedida

LEMMA CarritoMover ==
    ASSUME CarritoInv, Mover
    PROVE  CarritoInv'
<1>1. /\ carrito \in Seq(Articulo) /\ DOMAIN carrito = 1 .. Len(carrito) /\ Len(carrito) \in Nat
      /\ fallo \in BOOLEAN /\ sel \in Int /\ EnRango(sel, carrito)
      /\ Caben(carrito, fallo) /\ Esperan(esperas, fallo)
  BY CarritoTipo DEF CarritoInv, EnRango
<1>2. carrito # <<>> /\ UNCHANGED <<carrito, esperas, fallo, promos, stock>>
  BY DEF Mover, FueraDelCarrito
<1>3. Len(carrito) # 0
  BY <1>1, <1>2, EmptySeq
<1> DEFINE L == Len(carrito)
<1>4. \/ sel' = IF sel <= 0 THEN L - 1 ELSE sel - 1
      \/ sel' = IF sel >= L - 1 THEN 0 ELSE sel + 1
      \/ \E j \in 1 .. L : sel' = j - 1
  BY <1>1 DEF Mover
<1>5. L \in Nat \ {0} /\ sel \in Int /\ (sel = -1 \/ sel = 0 \/ sel \in 0 .. (L - 1))
  BY <1>1, <1>3 DEF EnRango
<1> HIDE DEF L
<1>6. sel' \in Int /\ sel' \in 0 .. (L - 1)
  BY <1>4, <1>5
<1>7. EnRango(sel', carrito')
  BY <1>2, <1>6 DEF EnRango, L
<1> QED BY <1>1, <1>2, <1>7, CarritoTras

LEMMA CarritoVacio ==
    \A f : Caben(<<>>, f) /\ EnRango(-1, <<>>)
BY EmptySeq DEF Caben, EnRango

LEMMA CarritoDescuento ==
    ASSUME CarritoInv, NEW d \in Permitidos, AplicarDescuento(d)
    PROVE  CarritoInv'
<1> DEFINE k == Indice(carrito, objetivo)
           c == [carrito EXCEPT ![k].desc = d]
<1>1. d \in 0 .. 100
  BY TerminalConstantes DEF Permitidos
<1>2. UNCHANGED <<sel, promos, stock, fallo, esperas>>
  BY DEF AplicarDescuento
<1>3. CASE ~EnCarrito(carrito, objetivo)
  BY <1>2, <1>3, CarritoIgual DEF AplicarDescuento
<1>4. CASE EnCarrito(carrito, objetivo)
  <2>1. carrito' = c
    BY <1>4 DEF AplicarDescuento
  <2>2. /\ carrito \in Seq(Articulo) /\ Caben(carrito, fallo) /\ EnRango(sel, carrito)
        /\ Esperan(esperas, fallo) /\ fallo \in BOOLEAN
    BY CarritoTipo DEF CarritoInv
  <2>3. k \in 1 .. Len(carrito)
    BY <1>4, <2>2, CantidadNat
  <2> DEFINE it == [carrito[k] EXCEPT !.desc = d]
  <2>4. c = [carrito EXCEPT ![k] = it]
    OBVIOUS
  <2> HIDE DEF k
  <2>5. it \in Articulo /\ it.id = carrito[k].id /\ it.cant = carrito[k].cant
    <3>1. carrito[k] \in Articulo
      BY <2>2, <2>3
    <3> QED BY <1>1, <3>1 DEF Articulo
  <2> HIDE DEF it, c
  <2>6. /\ c \in Seq(Articulo) /\ Len(c) = Len(carrito)
        /\ \A j \in 1 .. Len(carrito) : c[j] = IF j = k THEN it ELSE carrito[j]
    BY <2>2, <2>3, <2>4, <2>5, ExceptSeq
  <2>7. DOMAIN c = DOMAIN carrito /\ DOMAIN c = 1 .. Len(carrito)
    BY <2>2, <2>6
  <2>8. \A j \in DOMAIN c : c[j].id = carrito[j].id /\ c[j].cant = carrito[j].cant
    BY <2>5, <2>6, <2>7
  <2>9. Caben(c, fallo)
    BY <2>2, <2>6, <2>7, <2>8 DEF Caben
  <2>10. EnRango(sel, c)
    BY <2>2, <2>6 DEF EnRango
  <2> QED BY <1>2, <2>1, <2>2, <2>9, <2>10, CarritoTras
<1> QED BY <1>3, <1>4

\* A sale takes what it sells out of the stock, and empties the cart.
LEMMA CarritoVender ==
    ASSUME CarritoInv, NEW f, NEW monto, Vender(f, monto)
    PROVE  CarritoInv'
<1>1. /\ stock' = Descontado /\ carrito' = <<>> /\ sel' = -1
      /\ UNCHANGED <<promos, fallo, esperas>>
  BY DEF Vender
<1>2. ASSUME NEW p \in Productos
      PROVE  stock[p] - Cantidad(carrito, p) \in Int
             /\ stock[p] - Cantidad(carrito, p) <= Existencias[p]
  <2>1. Cantidad(carrito, p) \in Nat
    BY CantidadNat, CarritoTipo
  <2>2. stock[p] \in Int /\ stock[p] <= Existencias[p] /\ Existencias[p] \in Nat
    BY TerminalConstantes DEF CarritoInv, Almacen
  <2> QED BY <2>1, <2>2
<1>3. stock' \in [Productos -> Int] /\ \A p \in Productos : stock'[p] <= Existencias[p]
  BY <1>1, <1>2 DEF Descontado
<1>4. Almacen'
  BY <1>1, <1>3 DEF CarritoInv, Almacen
<1>5. Caben(carrito', fallo) /\ EnRango(sel', carrito')
  BY <1>1, CarritoVacio
<1> QED BY <1>1, <1>4, <1>5
        DEF CarritoInv, Caben, EnRango, Esperan, Leida, Articulo, Espera

LEMMA CarritoToque ==
    ASSUME CarritoInv, Toque
    PROVE  CarritoInv'
<1> DEFINE Quieto == UNCHANGED <<promos, stock, fallo, carrito, sel, esperas>>
<1>1. ASSUME NEW p \in Productos, Escanear(p) PROVE CarritoInv'
  <2> DEFINE e == [op |-> "buscar", id |-> p]
  <2>1. esperas' = Append(esperas, e) /\ UNCHANGED <<carrito, sel, fallo, promos, stock>>
    BY <1>1 DEF Escanear, Esperar, FueraDelCarrito
  <2>2. e \in Espera /\ Leida(e, fallo)
    BY DEF Espera, Leida
  <2> HIDE DEF e
  <2>3. /\ Esperan(Append(esperas, e), fallo) /\ fallo \in BOOLEAN
        /\ Caben(carrito, fallo) /\ EnRango(sel, carrito)
    BY <2>2, UnaMas, CarritoTipo DEF CarritoInv
  <2> QED BY <2>1, <2>3, CarritoTras
<1>2. ASSUME NEW p \in Productos, Elegir(p) PROVE CarritoInv'
  BY <1>2, AltaPedida DEF Elegir, FueraDelCarrito
<1>3. CASE Mover
  BY <1>3, CarritoMover
<1>4. CASE Suprimir
  <2> DEFINE Q == Productos \ {carrito[sel + 1].id}
  <2>1. Dejar(Q) /\ UNCHANGED <<esperas, fallo, promos, stock>>
    BY <1>4 DEF Suprimir, FueraDelCarrito
  <2> HIDE DEF Q
  <2>2. Caben(carrito', fallo) /\ EnRango(sel', carrito')
    BY <2>1, Dejados
  <2>3. Esperan(esperas, fallo) /\ fallo \in BOOLEAN
    BY CarritoTipo DEF CarritoInv
  <2> QED BY <2>1, <2>2, <2>3, CarritoTras
<1>5. CASE Sumar(1) \/ Sumar(-1)
  BY <1>5, CarritoSumar
<1>6. CASE Cancelar
  <2>1. carrito' = <<>> /\ sel' = -1 /\ UNCHANGED <<promos, stock, fallo, esperas>>
    BY <1>6 DEF Cancelar
  <2>2. Caben(carrito', fallo) /\ EnRango(sel', carrito')
    BY <2>1, CarritoVacio
  <2>3. Esperan(esperas, fallo) /\ fallo \in BOOLEAN
    BY CarritoTipo DEF CarritoInv
  <2> QED BY <2>1, <2>2, <2>3, CarritoTras
<1>7. ASSUME NEW j \in 1 .. Len(carrito), EditarFila(j) PROVE CarritoInv'
  BY <1>7, CarritoEditarFila
<1>8. ASSUME NEW k \in 1 .. Len(promos), QuitarCombo(k) PROVE CarritoInv'
  BY <1>8, ComboQuitado
<1>9. ASSUME NEW d, Abrir(d) PROVE Quieto
  BY <1>9 DEF Abrir, FueraDeDialogos
<1>10. ASSUME NEW p, AbrirDescuento(p) PROVE Quieto
  BY <1>10 DEF AbrirDescuento, FueraDeDialogos
<1>11. CASE Cerrar \/ AbrirPago \/ Rellenar \/ RellenarComprobante
  <2>1. Quieto
    BY <1>11 DEF Cerrar, AbrirPago, Rellenar, RellenarComprobante, FueraDeDialogos
  <2> QED BY <2>1, CarritoIgual
<1>12. ASSUME NEW d \in Permitidos, AplicarDescuento(d) PROVE CarritoInv'
  BY <1>12, CarritoDescuento
<1>13. CASE Confirmar \/ ConfirmarTecla
  BY <1>13, CarritoVender DEF Confirmar, ConfirmarTecla
<1> QED BY <1>1, <1>2, <1>3, <1>4, <1>5, <1>6, <1>7, <1>8, <1>9, <1>10, <1>11, <1>12,
           <1>13, CarritoIgual DEF Toque

LEMMA CarritoSigue ==
    ASSUME CarritoInv, [Next]_vars
    PROVE  CarritoInv'
<1>1. CASE Toque
  BY <1>1, CarritoToque
<1>2. CASE Llegada
  BY <1>2, CarritoRespuesta, CarritoEncontrar, CarritoContinuar DEF Llegada
<1>3. CASE UNCHANGED vars
  BY <1>3, CarritoIgual DEF vars
<1> QED BY <1>1, <1>2, <1>3 DEF Next

LEMMA CarritoEmpieza == Init => CarritoInv
<1> SUFFICES ASSUME Init PROVE CarritoInv
  OBVIOUS
<1>1. Almacen
  <2>1. /\ promos = <<>> /\ stock = Existencias /\ fallo = FALSE
        /\ Existencias \in [Productos -> Nat]
    BY TerminalConstantes DEF Init
  <2>2. \A p \in Productos : stock[p] \in Nat /\ stock[p] <= Existencias[p]
    BY <2>1
  <2>3. stock \in [Productos -> Int]
    BY <2>1
  <2> QED BY <2>1, <2>2, <2>3 DEF Almacen
<1>2. Caben(carrito, fallo) /\ EnRango(sel, carrito)
  BY CarritoVacio DEF Init
<1>3. Esperan(esperas, fallo)
  <2> DEFINE a == [op |-> "contador"]
             b == [op |-> "promos"]
  <2>1. esperas = <<a, b>>
    BY DEF Init
  <2>2. a \in Espera /\ b \in Espera /\ Leida(a, fallo) /\ Leida(b, fallo)
    BY DEF Espera, Leida
  <2> HIDE DEF a, b
  <2> QED BY <2>1, <2>2 DEF Esperan
<1> QED BY <1>1, <1>2, <1>3 DEF CarritoInv

(***************************************************************************)
(* Amounts, the form of the payment, and what the key handler kept of it.  *)
(***************************************************************************)

FormaPago == [metodo : Metodos, recibido : Nat \cup {Vacio}, tarjeta : Nat,
              completo : BOOLEAN]

DineroInv ==
    /\ total \in Nat /\ global \in 0 .. 100
    /\ pago \in FormaPago
    /\ captura = Nada \/ captura \in [form : FormaPago, monto : Nat]

LEMMA ConGlobalNat ==
    ASSUME NEW monto \in Nat, NEW g \in 0 .. 100
    PROVE  ConGlobal(monto, g) \in Nat /\ (g = 0 => ConGlobal(monto, g) = monto)
<1>1. g * Escala \in 0 .. Cien
  BY ManualEs
<1>2. g = 0 => g * Escala = 0
  BY EscalaPositiva
<1> QED BY <1>1, <1>2, RebajadoNat, SinDescuento DEF ConGlobal

LEMMA VisibleNat ==
    ASSUME DineroInv
    PROVE  TotalVisible \in Nat /\ TotalVisible = ConGlobal(total, global)
<1>1. ConGlobal(total, global) \in Nat /\ (global = 0 => ConGlobal(total, global) = total)
  BY ConGlobalNat DEF DineroInv
<1>2. global > 0 \/ global = 0
  BY DEF DineroInv
<1> QED BY <1>1, <1>2 DEF TotalVisible, DineroInv

LEMMA DineroVender ==
    ASSUME DineroInv, NEW f, NEW monto, Vender(f, monto)
    PROVE  global' \in 0 .. 100 /\ pago' \in FormaPago
BY DEF DineroInv, Vender

\* The fields of the form keep their kinds.
LEMMA FormaToque ==
    ASSUME DineroInv, Toque
    PROVE  global' \in 0 .. 100 /\ pago' \in FormaPago
<1> DEFINE Quieto == UNCHANGED <<global, pago>>
<1>0. global \in 0 .. 100 /\ pago \in FormaPago
  BY DEF DineroInv
<1>1. ASSUME NEW p \in Productos, Escanear(p) \/ Elegir(p) PROVE Quieto
  BY <1>1 DEF Escanear, Elegir, FueraDelCarrito
<1>2. CASE Mover \/ Suprimir \/ Sumar(1) \/ Sumar(-1)
  <2>1. Quieto
    BY <1>2 DEF Mover, Suprimir, Sumar, FueraDelCarrito
  <2> QED BY <1>0, <2>1
<1>3. CASE Cancelar
  BY <1>0, <1>3 DEF Cancelar
<1>4. ASSUME NEW j, EditarFila(j) PROVE Quieto
  BY <1>4 DEF EditarFila, FueraDelCarrito
<1>5. ASSUME NEW k, QuitarCombo(k) PROVE Quieto
  BY <1>5 DEF QuitarCombo, FueraDelCarrito
<1>6. ASSUME NEW d, Abrir(d) PROVE Quieto
  BY <1>6 DEF Abrir, FueraDeDialogos
<1>7. ASSUME NEW p, AbrirDescuento(p) PROVE Quieto
  BY <1>7 DEF AbrirDescuento, FueraDeDialogos
<1>8. ASSUME NEW d \in Permitidos, AplicarDescuento(d)
      PROVE  global' \in 0 .. 100 /\ pago' \in FormaPago
  <2>1. d \in 0 .. 100
    BY TerminalConstantes DEF Permitidos
  <2>2. (global' = d \/ global' = global) /\ pago' = pago
    BY <1>8 DEF AplicarDescuento
  <2> QED BY <1>0, <2>1, <2>2
<1>9. CASE Cerrar
  BY <1>0, <1>9 DEF Cerrar
<1>10. CASE AbrirPago
  <2>1. global' = global /\ pago' = PagoNuevo
    BY <1>10 DEF AbrirPago, FueraDeDialogos
  <2>2. PagoNuevo \in FormaPago
    BY DEF PagoNuevo, FormaPago, Metodos
  <2> QED BY <1>0, <2>1, <2>2
<1>11. CASE Rellenar
  <2>1. global' = global
    BY <1>11 DEF Rellenar, FueraDeDialogos
  <2>2. \/ \E m \in Metodos : pago' = [pago EXCEPT !.metodo = m]
        \/ \E x \in Montos \cup {Vacio} : pago' = [pago EXCEPT !.recibido = x]
        \/ \E x \in Montos \cup {0} : pago' = [pago EXCEPT !.tarjeta = x]
    BY <1>11 DEF Rellenar
  <2>3. Montos \subseteq Nat
    BY TerminalConstantes
  <2>4. pago' \in FormaPago
    BY <1>0, <2>2, <2>3 DEF FormaPago
  <2> QED BY <1>0, <2>1, <2>4
<1>12. CASE RellenarComprobante
  <2>1. global' = global /\ pago' = [pago EXCEPT !.completo = ~pago.completo]
    BY <1>12 DEF RellenarComprobante, FueraDeDialogos
  <2>2. pago' \in FormaPago
    BY <1>0, <2>1 DEF FormaPago
  <2> QED BY <1>0, <2>1, <2>2
<1>13. CASE Confirmar \/ ConfirmarTecla
  BY <1>13, DineroVender DEF Confirmar, ConfirmarTecla
<1> QED BY <1>0, <1>1, <1>2, <1>3, <1>4, <1>5, <1>6, <1>7, <1>8, <1>9, <1>10, <1>11,
           <1>12, <1>13 DEF Toque

LEMMA FormaLlegada ==
    ASSUME Llegada
    PROVE  UNCHANGED <<global, pago, abierto, ultima>>
<1>1. PICK i \in 1..MaxEsperas : Respuesta(i) \/ Encontrar(i) \/ Continuar(i)
  BY DEF Llegada
<1>2. CASE Respuesta(i)
  BY <1>2 DEF Respuesta, ContadorSincronizado, LleganPromos
<1>3. CASE Encontrar(i)
  BY <1>3 DEF Encontrar, FueraDelCarrito
<1>4. CASE Continuar(i)
  BY <1>4 DEF Continuar
<1> QED BY <1>1, <1>2, <1>3, <1>4

LEMMA DineroSigue ==
    ASSUME CarritoInv, DineroInv, [Next]_vars
    PROVE  DineroInv'
<1>1. CASE UNCHANGED vars
  BY <1>1 DEF vars, DineroInv
<1>2. CASE Next
  <2>1. global' \in 0 .. 100 /\ pago' \in FormaPago
    <3>1. CASE Toque
      BY <3>1, FormaToque
    <3>2. CASE Llegada
      BY <3>2, FormaLlegada DEF DineroInv
    <3> QED BY <1>2, <3>1, <3>2 DEF Next
  <2>2. total' \in Nat
    <3>1. CarritoInv'
      BY CarritoSigue
    <3>2. promos' \in Seq(Promocion) /\ carrito' \in Seq(Articulo)
      <4>1. Almacen' /\ Caben(carrito, fallo)'
        BY <3>1 DEF CarritoInv
      <4>2. promos' \in {<<>>} \cup Promos
        BY <4>1 DEF Almacen
      <4>3. carrito' \in Seq(Articulo)
        BY <4>1 DEF Caben, Articulo
      <4> QED BY <4>2, <4>3, TerminalConstantes, EmptySeq
    <3>3. Total(promos', carrito') \in Nat
      BY <3>2, TotalNat
    <3>4. total' = total \/ total' = Total(promos', carrito')
      BY <1>2 DEF Next, EfectoPromos
    <3> QED BY <3>3, <3>4 DEF DineroInv
  <2>3. TotalVisible' \in Nat
    <3>1. ConGlobal(total', global') \in Nat
      BY <2>1, <2>2, ConGlobalNat
    <3>2. TotalVisible' = IF global' > 0 THEN ConGlobal(total', global') ELSE total'
      BY DEF TotalVisible, ConGlobal, Rebajado, Cien
    <3> QED BY <2>2, <3>1, <3>2
  <2>4. \/ captura' = Nada \/ captura' = captura
        \/ captura' = [form |-> pago', monto |-> TotalVisible']
    BY <1>2 DEF Next, EfectoTeclas, Cierre
  <2>5. captura' = Nada \/ captura' \in [form : FormaPago, monto : Nat]
    BY <2>1, <2>3, <2>4 DEF DineroInv
  <2> QED BY <2>1, <2>2, <2>5 DEF DineroInv, FormaPago
<1> QED BY <1>1, <1>2

LEMMA DineroEmpieza == Init => DineroInv
<1>1. PagoNuevo \in FormaPago
  BY DEF PagoNuevo, FormaPago, Metodos
<1> QED BY <1>1 DEF Init, DineroInv

(***************************************************************************)
(* The record of a sale.                                                   *)
(***************************************************************************)

LEMMA VentaRegistrada ==
    ASSUME DineroInv, NEW f \in FormaPago, NEW monto \in Nat,
           f.metodo = "efectivo" => monto = TotalVisible,
           Vender(f, monto)
    PROVE  VueltoCorrecto'
<1> DEFINE cg == ConGlobal(total, global)
           rec == Recibido(f, monto)
           debe == EnEfectivo(f, monto)
           r == ultima'
           v == IF f.metodo = "efectivo" THEN rec - monto ELSE rec - Mayor({0, debe})
<1>1. /\ cg \in Nat /\ total \in Nat /\ TotalVisible = cg
      /\ ACobrar = IF cg # 0 THEN cg ELSE total
  BY VisibleNat DEF DineroInv, ACobrar
<1>2. Puede(f, monto) /\ ultima' = Registro(f, monto)
  BY DEF Vender
<1>3. /\ f.metodo \in {"efectivo", "debito", "mixto"} /\ f.tarjeta \in Nat
      /\ f.recibido \in Nat \cup {Vacio}
  BY DEF FormaPago, Metodos
<1>4. /\ r.total = total /\ r.totalConDescuento = cg /\ r.metodo = f.metodo
      /\ r.pagos = Pagos(f, monto) /\ r.recibido = rec
      /\ r.vuelto = v
  BY <1>2 DEF Registro
<1> HIDE DEF cg, r
<1>5. /\ f.metodo = "mixto" =>
             r.pagos.tarjeta = f.tarjeta /\ r.pagos.efectivo = debe
      /\ f.metodo = "debito" => r.pagos.tarjeta = ACobrar /\ r.pagos.efectivo = 0
      /\ f.metodo = "efectivo" => r.pagos.tarjeta = 0 /\ r.pagos.efectivo = ACobrar
  BY <1>4 DEF Pagos
<1>6. (r.metodo = "efectivo" => r.totalConDescuento # 0) =>
          r.vuelto >= 0 /\ r.recibido - r.vuelto = r.pagos.efectivo
  <2>1. CASE f.metodo = "efectivo"
    <3>1. monto = cg /\ rec >= monto
      BY <1>1, <1>2, <2>1 DEF Puede
    <3>2. rec \in Int
      BY <1>3, <2>1 DEF Recibido, Vacio
    <3>3. v = rec - monto
      BY <2>1
    <3> HIDE DEF rec, v
    <3> QED BY <1>1, <1>4, <1>5, <2>1, <3>1, <3>2, <3>3
  <2>2. CASE f.metodo = "debito"
    <3>1. rec = 0 /\ debe = 0
      BY <2>2 DEF Recibido, EnEfectivo
    <3>2. Mayor({0, 0}) = 0
      BY MayorDeCero
    <3>3. v = 0
      BY <2>2, <3>1, <3>2
    <3> HIDE DEF rec, v, debe
    <3> QED BY <1>4, <1>5, <2>2, <3>1, <3>3
  <2>3. CASE f.metodo = "mixto"
    <3>1. debe = monto - f.tarjeta /\ debe >= 0 /\ rec >= debe
      BY <1>2, <2>3 DEF Puede, EnEfectivo
    <3>2. debe \in Nat
      BY <1>3, <3>1
    <3>3. rec = IF debe <= 0 THEN 0 ELSE IF f.recibido = Vacio THEN debe ELSE f.recibido
      BY <2>3 DEF Recibido
    <3>4. rec \in Int
      <4> HIDE DEF rec, debe
      <4> QED BY <1>3, <3>2, <3>3 DEF Vacio
    <3>5. v = rec - Mayor({0, debe})
      BY <2>3
    <3> HIDE DEF rec, v, debe
    <3>6. Mayor({0, debe}) = debe
      <4>1. Mayor({0, debe}) \in {0, debe} /\ Mayor({0, debe}) >= debe
        BY <3>2, MayorDeCero
      <4> QED BY <3>2, <4>1
    <3>7. v \in Int /\ v >= 0 /\ rec - v = debe
      BY <3>1, <3>2, <3>4, <3>5, <3>6
    <3> QED BY <1>4, <1>5, <2>3, <3>7
  <2> QED BY <1>3, <2>1, <2>2, <2>3
<1> QED BY <1>6 DEF VueltoCorrecto, r

LEMMA VentaIgual ==
    ASSUME VueltoCorrecto, ultima' = ultima \/ ultima' = Nada
    PROVE  VueltoCorrecto'
BY DEF VueltoCorrecto

LEMMA VentaToque ==
    ASSUME VueltoCorrecto, DineroInv, Toque
    PROVE  VueltoCorrecto'
<1> DEFINE Quieto == ultima' = ultima
<1>1. ASSUME NEW p \in Productos, Escanear(p) \/ Elegir(p) PROVE Quieto
  BY <1>1 DEF Escanear, Elegir, FueraDelCarrito
<1>2. CASE Mover \/ Suprimir \/ Sumar(1) \/ Sumar(-1) \/ Cancelar
  <2>1. Quieto
    BY <1>2 DEF Mover, Suprimir, Sumar, Cancelar, FueraDelCarrito
  <2> QED BY <2>1, VentaIgual
<1>3. ASSUME NEW j, EditarFila(j) PROVE Quieto
  BY <1>3 DEF EditarFila, FueraDelCarrito
<1>4. ASSUME NEW k, QuitarCombo(k) PROVE Quieto
  BY <1>4 DEF QuitarCombo, FueraDelCarrito
<1>5. ASSUME NEW d, Abrir(d) PROVE Quieto
  BY <1>5 DEF Abrir, FueraDeDialogos
<1>6. ASSUME NEW p, AbrirDescuento(p) PROVE Quieto
  BY <1>6 DEF AbrirDescuento, FueraDeDialogos
<1>7. ASSUME NEW d, AplicarDescuento(d) PROVE Quieto
  BY <1>7 DEF AplicarDescuento
<1>8. CASE Cerrar
  BY <1>8, VentaIgual DEF Cerrar
<1>9. CASE AbrirPago \/ Rellenar \/ RellenarComprobante
  <2>1. Quieto
    BY <1>9 DEF AbrirPago, Rellenar, RellenarComprobante, FueraDeDialogos
  <2> QED BY <2>1, VentaIgual
<1>10. CASE Confirmar
  <2>1. Vender(pago, TotalVisible)
    BY <1>10 DEF Confirmar
  <2>2. pago \in FormaPago /\ TotalVisible \in Nat
    BY VisibleNat DEF DineroInv
  <2> QED BY <2>1, <2>2, VentaRegistrada
<1>11. CASE ConfirmarTecla
  <2>1. /\ captura # Nada /\ captura.form.metodo # "efectivo"
        /\ Vender(captura.form, captura.monto)
    BY <1>11 DEF ConfirmarTecla
  <2>2. captura.form \in FormaPago /\ captura.monto \in Nat
    BY <2>1 DEF DineroInv
  <2> QED BY <2>1, <2>2, VentaRegistrada
<1> QED BY <1>1, <1>2, <1>3, <1>4, <1>5, <1>6, <1>7, <1>8, <1>9, <1>10, <1>11,
           VentaIgual DEF Toque

LEMMA VentaSigue ==
    ASSUME VueltoCorrecto, DineroInv, [Next]_vars
    PROVE  VueltoCorrecto'
<1>1. CASE Toque
  BY <1>1, VentaToque
<1>2. CASE Llegada
  BY <1>2, FormaLlegada, VentaIgual
<1>3. CASE UNCHANGED vars
  BY <1>3, VentaIgual DEF vars
<1> QED BY <1>1, <1>2, <1>3 DEF Next

\* Only these dialogs are there.
LEMMA DialogosSiguen ==
    ASSUME abierto \subseteq Dialogos, [Next]_vars
    PROVE  abierto' \subseteq Dialogos
<1>0. {"pago", "descuento", "otro", "post", "busqueda"} \subseteq Dialogos
  BY DEF Dialogos, Modales
<1>1. CASE Toque
  <2>1. ASSUME NEW p \in Productos, Escanear(p) \/ Elegir(p) PROVE abierto' \subseteq abierto
    BY <2>1 DEF Escanear, Elegir
  <2>2. CASE Mover \/ Suprimir \/ Sumar(1) \/ Sumar(-1) \/ Cancelar \/ Cerrar
    BY <2>2 DEF Mover, Suprimir, Sumar, Cancelar, Cerrar
  <2>3. ASSUME NEW j, EditarFila(j) \/ QuitarCombo(j) PROVE abierto' = abierto
    BY <2>3 DEF EditarFila, QuitarCombo
  <2>4. ASSUME NEW d \in {"busqueda", "otro"}, Abrir(d) PROVE abierto' \subseteq Dialogos
    BY <1>0, <2>4 DEF Abrir
  <2>5. ASSUME NEW p, AbrirDescuento(p) PROVE abierto' \subseteq Dialogos
    BY <1>0, <2>5 DEF AbrirDescuento
  <2>6. ASSUME NEW d, AplicarDescuento(d) PROVE abierto' \subseteq Dialogos
    BY <2>6 DEF AplicarDescuento
  <2>7. CASE AbrirPago \/ Rellenar \/ RellenarComprobante
    BY <1>0, <2>7 DEF AbrirPago, Rellenar, RellenarComprobante
  <2>8. CASE Confirmar \/ ConfirmarTecla
    BY <1>0, <2>8 DEF Confirmar, ConfirmarTecla, Vender
  <2> QED BY <1>1, <2>1, <2>2, <2>3, <2>4, <2>5, <2>6, <2>7, <2>8 DEF Toque
<1>2. CASE Llegada
  BY <1>2, FormaLlegada
<1>3. CASE UNCHANGED vars
  BY <1>3 DEF vars
<1> QED BY <1>1, <1>2, <1>3 DEF Next

(***************************************************************************)
(* The numbers of the tickets.                                             *)
(***************************************************************************)

\* The counter is a number, so that the sales made so far can be compared with it.
TicketsInv ==
    /\ contador \in Nat
    /\ historial \in Seq(Nat)
    /\ TicketsDistintos

\* Strictly going down from a number that is at most c.
Bajan(s, c) ==
    /\ \A i, j \in DOMAIN s : i < j => s[i] > s[j]
    /\ \A i \in DOMAIN s : s[i] <= c

LEMMA UnoEncima ==
    ASSUME NEW s \in Seq(Nat), NEW c \in Nat, Bajan(s, c)
    PROVE  <<c + 1>> \o s \in Seq(Nat) /\ Bajan(<<c + 1>> \o s, c + 1)
<1> DEFINE t == <<c + 1>> \o s
<1>1. t \in Seq(Nat) /\ DOMAIN t = 1..(Len(s) + 1) /\ t[1] = c + 1
  OBVIOUS
<1>2. ASSUME NEW i \in DOMAIN t, i # 1
      PROVE  i - 1 \in DOMAIN s /\ t[i] = s[i - 1] /\ t[i] \in Nat /\ t[i] <= c
  <2>1. i \in 2..(Len(s) + 1) /\ i - 1 \in 1..Len(s)
    BY <1>1, <1>2
  <2>2. i - 1 \in DOMAIN s /\ t[i] = s[i - 1]
    BY <2>1
  <2>3. s[i - 1] \in Nat /\ s[i - 1] <= c
    BY <2>2 DEF Bajan
  <2>4. QED
    BY <2>2, <2>3
<1> HIDE DEF t
<1>3. ASSUME NEW i \in DOMAIN t, NEW j \in DOMAIN t, i < j PROVE t[i] > t[j]
  <2>1. i \in Int /\ j \in Int /\ j # 1
    BY <1>1, <1>3
  <2>2. CASE i = 1
    BY <1>1, <1>2, <2>1, <2>2
  <2>3. CASE i # 1
    <3>1. /\ i - 1 \in DOMAIN s /\ t[i] = s[i - 1]
          /\ j - 1 \in DOMAIN s /\ t[j] = s[j - 1]
      BY <1>2, <2>1, <2>3
    <3>2. i - 1 < j - 1
      BY <1>3, <2>1
    <3>3. s[i - 1] > s[j - 1]
      BY <3>1, <3>2 DEF Bajan
    <3>4. QED
      BY <3>1, <3>3
  <2>4. QED
    BY <2>2, <2>3
<1>4. ASSUME NEW i \in DOMAIN t PROVE t[i] <= c + 1
  <2>1. CASE i = 1
    BY <1>1, <2>1
  <2>2. CASE i # 1
    BY <1>2, <2>2
  <2>3. QED
    BY <2>1, <2>2
<1>5. t \in Seq(Nat) /\ Bajan(t, c + 1)
  BY <1>1, <1>3, <1>4 DEF Bajan
<1>6. QED
  BY <1>5 DEF t

\* A sale puts on top of the history a number above all of it.
LEMMA OtroTicket ==
    ASSUME TicketsInv, NEW f, NEW monto, Vender(f, monto)
    PROVE  TicketsInv'
<1>1. contador' = contador + 1 /\ historial' = <<contador + 1>> \o historial
  BY DEF Vender
<1>2. contador \in Nat /\ historial \in Seq(Nat) /\ Bajan(historial, contador)
  BY DEF TicketsInv, TicketsDistintos, Bajan
<1>3. /\ <<contador + 1>> \o historial \in Seq(Nat)
      /\ Bajan(<<contador + 1>> \o historial, contador + 1)
  BY <1>2, UnoEncima
<1>4. contador' \in Nat /\ historial' \in Seq(Nat) /\ Bajan(historial', contador')
  BY <1>1, <1>2, <1>3
<1>5. QED
  BY <1>4 DEF TicketsInv, TicketsDistintos, Bajan

\* The answer of the backend never takes the counter back.
LEMMA OtroContador ==
    ASSUME TicketsInv, NEW n \in Nat, ContadorSincronizado(n)
    PROVE  TicketsInv'
<1>1. /\ contador' \in Nat /\ contador' >= contador
      /\ historial' = historial
  <2>1. contador \in Nat /\ contador \in Int /\ n \in Int
    BY DEF TicketsInv
  <2>2. Mayor({contador, n}) \in {contador, n} /\ Mayor({contador, n}) >= contador
    BY <2>1, MayorDeDos
  <2>3. contador' = Mayor({contador, n}) /\ historial' = historial
    BY DEF ContadorSincronizado
  <2> QED BY <2>1, <2>2, <2>3
<1>2. QED
  BY <1>1 DEF TicketsInv, TicketsDistintos

LEMMA SinVentas ==
    ASSUME TicketsInv, UNCHANGED <<contador, historial>>
    PROVE  TicketsInv'
BY DEF TicketsInv, TicketsDistintos

LEMMA TicketsToque ==
    ASSUME TicketsInv, Toque
    PROVE  TicketsInv'
<1> DEFINE Quieto == UNCHANGED <<contador, historial>>
<1>1. ASSUME NEW p \in Productos, Escanear(p) \/ Elegir(p) PROVE Quieto
  BY <1>1 DEF Escanear, Elegir, FueraDelCarrito
<1>2. CASE Mover \/ Suprimir \/ Sumar(1) \/ Sumar(-1) \/ Cancelar
  <2>1. Quieto
    BY <1>2 DEF Mover, Suprimir, Sumar, Cancelar, FueraDelCarrito
  <2>2. QED
    BY <2>1, SinVentas
<1>3. ASSUME NEW j, EditarFila(j) PROVE Quieto
  BY <1>3 DEF EditarFila, FueraDelCarrito
<1>4. ASSUME NEW k, QuitarCombo(k) PROVE Quieto
  BY <1>4 DEF QuitarCombo, FueraDelCarrito
<1>5. ASSUME NEW d, Abrir(d) PROVE Quieto
  BY <1>5 DEF Abrir, FueraDeDialogos
<1>6. ASSUME NEW p, AbrirDescuento(p) PROVE Quieto
  BY <1>6 DEF AbrirDescuento, FueraDeDialogos
<1>7. ASSUME NEW d, AplicarDescuento(d) PROVE Quieto
  BY <1>7 DEF AplicarDescuento
<1>8. CASE Cerrar \/ AbrirPago \/ Rellenar \/ RellenarComprobante
  <2>1. Quieto
    BY <1>8 DEF Cerrar, AbrirPago, Rellenar, RellenarComprobante, FueraDeDialogos
  <2>2. QED
    BY <2>1, SinVentas
<1>9. CASE Confirmar \/ ConfirmarTecla
  BY <1>9, OtroTicket DEF Confirmar, ConfirmarTecla
<1>10. QED
  BY <1>1, <1>2, <1>3, <1>4, <1>5, <1>6, <1>7, <1>8, <1>9, SinVentas DEF Toque

LEMMA TicketsLlegada ==
    ASSUME TicketsInv, Llegada
    PROVE  TicketsInv'
<1>1. PICK i \in 1..MaxEsperas : Respuesta(i) \/ Encontrar(i) \/ Continuar(i)
  BY DEF Llegada
<1>2. CASE Respuesta(i)
  <2>1. CASE \E n \in 0..MaxTicket : ContadorSincronizado(n)
    BY <2>1, OtroContador
  <2>2. CASE UNCHANGED <<contador, historial>>
    BY <2>2, SinVentas
  <2>3. QED
    BY <1>2, <2>1, <2>2 DEF Respuesta, LleganPromos
<1>3. CASE Encontrar(i)
  BY <1>3, SinVentas DEF Encontrar, FueraDelCarrito
<1>4. CASE Continuar(i)
  BY <1>4, SinVentas DEF Continuar
<1>5. QED
  BY <1>1, <1>2, <1>3, <1>4

(***************************************************************************)
(* All together.                                                           *)
(***************************************************************************)

TipoInv == CarritoInv /\ DineroInv /\ TicketsInv /\ abierto \subseteq Dialogos

LEMMA TicketsSiguen == TicketsInv /\ [Next]_vars => TicketsInv'
BY TicketsToque, TicketsLlegada, SinVentas DEF Next, vars

LEMMA SeleccionTipo ==
    ASSUME NEW s, NEW c \in Seq(Articulo), EnRango(s, c)
    PROVE  s \in -1 .. Mayor({0, Len(c) - 1})
<1> DEFINE L == Len(c) - 1
<1>1. L \in Int /\ s \in Int /\ (s = -1 \/ s = 0 \/ s \in 0 .. L)
  BY DEF EnRango
<1> HIDE DEF L
<1>2. Mayor({0, L}) \in Nat /\ Mayor({0, L}) >= L
  BY <1>1, MayorDeCero
<1>3. s \in -1 .. Mayor({0, L})
  BY <1>1, <1>2
<1> QED BY <1>3 DEF L

LEMMA TiposDe ==
    ASSUME TipoInv
    PROVE  TypeOK
<1>1. carrito \in Seq(Articulo) /\ fallo \in BOOLEAN
  BY CarritoTipo DEF TipoInv
<1>2. sel \in -1 .. Mayor({0, Len(carrito) - 1})
  BY <1>1, SeleccionTipo DEF TipoInv, CarritoInv
<1>3. promos \in {<<>>} \cup Promos /\ stock \in [Productos -> Int]
  BY DEF TipoInv, CarritoInv, Almacen
<1>4. global \in 0 .. 100 /\ contador \in Nat /\ historial \in Seq(Nat)
  BY DEF TipoInv, DineroInv, TicketsInv
<1>5. abierto \subseteq Dialogos
  BY DEF TipoInv
<1> QED BY <1>1, <1>2, <1>3, <1>4, <1>5 DEF TypeOK, Articulo

(***************************************************************************)
(* Every variable of the till has a value of its kind: among others, the   *)
(* selection never leaves the cart, although rows go while handlers wait   *)
(* (useCartStore.ts:171-181), and no item has zero units.                  *)
(***************************************************************************)
THEOREM TerminalTypeOK == Spec => []TypeOK
<1>1. Init => TipoInv
  <2> SUFFICES ASSUME Init PROVE TipoInv
    OBVIOUS
  <2>1. TicketsInv /\ abierto \subseteq Dialogos
    BY DEF Init, TicketsInv, TicketsDistintos
  <2> QED BY <2>1, CarritoEmpieza, DineroEmpieza DEF TipoInv
<1>2. TipoInv /\ [Next]_vars => TipoInv'
  BY CarritoSigue, DineroSigue, TicketsSiguen, DialogosSiguen DEF TipoInv
<1>3. TipoInv => TypeOK
  BY TiposDe
<1> QED BY <1>1, <1>2, <1>3, PTL DEF Spec

(***************************************************************************)
(* Unless a read of the local stock failed, no item of the cart asks for   *)
(* more than there was, however many additions and quantities wait for     *)
(* their reads at once and whatever happens to the cart in between: each   *)
(* is compared with the cart of its own moment (useCartStore.ts:88-117 and *)
(* 189-205).                                                               *)
(***************************************************************************)
THEOREM NoSePideDeMas == Spec => []NuncaMasQueElStock
<1>1. Init => CarritoInv
  BY CarritoEmpieza
<1>2. CarritoInv /\ [Next]_vars => CarritoInv'
  BY CarritoSigue
<1>3. CarritoInv => NuncaMasQueElStock
  BY DEF CarritoInv, Caben, NuncaMasQueElStock
<1> QED BY <1>1, <1>2, <1>3, PTL DEF Spec

(***************************************************************************)
(* What one promotion takes off a cart.                                    *)
(***************************************************************************)

LEMMA CabeEnCociente ==
    ASSUME NEW a \in Nat, NEW b \in Nat \ {0}, NEW n \in Nat
    PROVE  n * b <= a <=> n <= a \div b
<1> DEFINE q == a \div b
           r == a % b
<1>1. a = b * q + r /\ r \in Nat /\ r < b /\ q \in Nat
  OBVIOUS
<1> HIDE DEF q, r
<1>2. CASE n <= q
  <2>1. q - n \in Nat
    BY <1>1, <1>2
  <2>2. b * (q - n) \in Nat /\ b * q = b * (q - n) + n * b
    BY <1>1, <2>1
  <2> QED BY <1>1, <1>2, <2>2 DEF q
<1>3. CASE ~(n <= q)
  <2>1. n - (q + 1) \in Nat
    BY <1>1, <1>3
  <2>2. b * (n - (q + 1)) \in Nat /\ n * b = b * (n - (q + 1)) + b * q + b
    BY <1>1, <2>1
  <2>3. ~(n * b <= a)
    <3> DEFINE e == b * (n - (q + 1))
               w == b * q
    <3>1. e \in Nat /\ w \in Nat /\ n * b = e + w + b /\ a = w + r
      BY <1>1, <2>2
    <3> HIDE DEF e, w
    <3> QED BY <1>1, <3>1
  <2> QED BY <1>3, <2>3 DEF q
<1> QED BY <1>2, <1>3

LEMMA JuntadasCaben ==
    ASSUME NEW g \in Grupo, NEW c \in Seq(Articulo)
    PROVE  Juntadas(g, c, Len(c)) <= SumFunction([i \in DOMAIN c |-> c[i].cant])
<1> DEFINE f == [j \in 1 .. Len(c) |-> IF c[j].id \in g.prods THEN c[j].cant ELSE 0]
           h == [i \in DOMAIN c |-> c[i].cant]
           S == 1 .. Len(c)
<1>1. IsFiniteSet(S) /\ DOMAIN f = S /\ DOMAIN h = S
  BY FS_Interval
<1>2. ASSUME NEW j \in S PROVE f[j] \in Int /\ h[j] \in Int /\ f[j] <= h[j]
  <2>1. c[j].cant \in Nat
    BY FilaTipo
  <2> QED BY <2>1
<1>3. SumFunction(f) = SumFunctionOnSet(f, S) /\ SumFunction(h) = SumFunctionOnSet(h, S)
  <2> HIDE DEF f, h, S
  <2> QED BY <1>1 DEF SumFunction, FoldFunction, SumFunctionOnSet
<1>4. SumFunctionOnSet(f, S) <= SumFunctionOnSet(h, S)
  <2> HIDE DEF f, h, S
  <2> QED BY <1>1, <1>2, SumaCrece
<1> QED BY <1>3, <1>4 DEF Juntadas

\* The program counts the largest number of sets that every group serves.
LEMMA ServidosSon ==
    ASSUME carrito \in Seq(Articulo), NEW m \in Promocion
    PROVE  Servidos(m) = Conjuntos(m, carrito) /\ Servidos(m) \in Nat
<1> DEFINE gs == GruposDe(m)
           J(k) == Juntadas(gs[k], carrito, Len(carrito))
           por(k) == J(k) \div gs[k].cantidad
           T == {por(k) : k \in DOMAIN gs}
<1>1. gs \in Seq(Grupo)
  BY GruposTipo
<1>2. CASE gs = <<>>
  BY <1>2 DEF Servidos, Conjuntos
<1>3. CASE gs # <<>>
  <2>1. ASSUME NEW k \in DOMAIN gs
        PROVE  /\ J(k) \in Nat /\ J(k) <= Unidades
               /\ gs[k].cantidad \in Nat \ {0} /\ por(k) \in Nat /\ por(k) <= Unidades
               /\ \A n \in Nat : n * gs[k].cantidad <= J(k) <=> n <= por(k)
    <3>1. gs[k] \in Grupo
      BY <1>1
    <3>2. gs[k].cantidad \in Nat \ {0}
      BY <3>1 DEF Grupo
    <3>3. Len(carrito) \in 0 .. Len(carrito)
      OBVIOUS
    <3>4. J(k) \in Nat /\ J(k) <= Unidades
      BY <3>1, <3>3, JuntadasNat, JuntadasCaben DEF Unidades
    <3>5. por(k) \in Nat
      BY <3>2, <3>4
    <3>6. \A n \in Nat : n * gs[k].cantidad <= J(k) <=> n <= por(k)
      <4> HIDE DEF gs
      <4> QED BY <3>2, <3>4, CabeEnCociente
    <3>7. por(k) <= J(k)
      <4> DEFINE a == J(k)
                 b == gs[k].cantidad
      <4> HIDE DEF a, b
      <4>1. a \in Nat /\ b \in Nat \ {0}
        BY <3>2, <3>4 DEF a, b
      <4>2. a \div b <= a
        BY <4>1
      <4> QED BY <4>2 DEF a, b
    <3>8. Unidades \in Int
      <4> DEFINE f == [i \in DOMAIN carrito |-> carrito[i].cant]
      <4>1. IsFiniteSet(DOMAIN f) /\ \A x \in DOMAIN f : f[x] \in Nat
        BY FS_Interval, FilaTipo
      <4>2. SumFunction(f) \in Nat
        <5> HIDE DEF f
        <5> QED BY <4>1, SumaDeFuncion
      <4> QED BY <4>2 DEF Unidades
    <3> HIDE DEF gs, J, por
    <3> QED BY <3>2, <3>4, <3>5, <3>6, <3>7, <3>8
  <2>2. DOMAIN gs # {}
    <3> HIDE DEF gs
    <3>1. Len(gs) # 0 /\ DOMAIN gs = 1 .. Len(gs) /\ Len(gs) \in Nat
      BY <1>1, <1>3, EmptySeq
    <3>2. 1 \in DOMAIN gs
      BY <3>1
    <3> QED BY <3>2
  <2> DEFINE C == Menor(T)
  <2>3. Conjuntos(m, carrito) = C
    BY <1>3 DEF Conjuntos
  <2>4. Servidos(m) = CHOOSE n \in 0 .. Unidades : Alcanzan(m, n) /\ ~Alcanzan(m, n + 1)
    BY <1>3 DEF Servidos
  <2>5. \A n \in Nat : Alcanzan(m, n) <=> \A k \in DOMAIN gs : n <= por(k)
    <3>1. \A n \in Nat : Alcanzan(m, n) <=> \A k \in DOMAIN gs : n * gs[k].cantidad <= J(k)
      BY DEF Alcanzan
    <3> HIDE DEF gs, J, por
    <3> QED BY <2>1, <3>1
  <2> HIDE DEF gs, J, por
  <2>6. T \subseteq Nat /\ T # {}
    BY <2>1, <2>2
  <2>7. C \in T /\ \A y \in T : C <= y
    <3> HIDE DEF T
    <3> QED BY <2>6, MenorEs
  <2>8. C \in Nat /\ \A k \in DOMAIN gs : C <= por(k)
    <3> HIDE DEF C
    <3> QED BY <2>6, <2>7
  <2>9. PICK z \in DOMAIN gs : C = por(z)
    <3> HIDE DEF C
    <3> QED BY <2>7
  <2>10. C <= Unidades
    BY <2>1, <2>9
  <2> HIDE DEF C, T
  <2>11. \A n \in Nat : Alcanzan(m, n) <=> n <= C
    <3>1. \A k \in DOMAIN gs : por(k) \in Nat
      BY <2>1
    <3> QED BY <2>5, <2>8, <2>9, <3>1
  <2>12. Unidades \in Int
    <3> DEFINE f == [i \in DOMAIN carrito |-> carrito[i].cant]
    <3>1. IsFiniteSet(DOMAIN f) /\ \A x \in DOMAIN f : f[x] \in Nat
      BY FS_Interval, FilaTipo
    <3>2. SumFunction(f) \in Nat
      <4> HIDE DEF f
      <4> QED BY <3>1, SumaDeFuncion
    <3> QED BY <3>2 DEF Unidades
  <2>13. C \in 0 .. Unidades /\ Alcanzan(m, C) /\ ~Alcanzan(m, C + 1)
    BY <2>8, <2>10, <2>11, <2>12
  <2>14. \A n \in 0 .. Unidades : Alcanzan(m, n) /\ ~Alcanzan(m, n + 1) => n = C
    <3> TAKE n \in 0 .. Unidades
    <3>1. n \in Nat /\ n + 1 \in Nat
      BY <2>12
    <3> QED BY <2>8, <2>11, <3>1
  <2>15. Servidos(m) = C
    BY <2>4, <2>13, <2>14
  <2> QED BY <2>3, <2>8, <2>15
<1> QED BY <1>2, <1>3, ConjuntosNat

\* The units of an item that the sets take are among its own.
LEMMA DescontadasCaben ==
    ASSUME carrito \in Seq(Articulo), NEW m \in Promocion, SinRepetir(m), NEW n \in Nat,
           NEW i \in DOMAIN carrito
    PROVE  /\ Descontadas(m, carrito, n, i) \in 0 .. carrito[i].cant
           /\ n = 0 => Descontadas(m, carrito, n, i) = 0
<1> DEFINE gs == GruposDe(m)
           b == carrito[i].cant
           toma(g) == IF carrito[i].id \notin g.prods THEN 0
                      ELSE Mayor({0, Menor({carrito[i].cant,
                                            n * g.cantidad - Juntadas(g, carrito, i - 1)})})
           f == [k \in DOMAIN gs |-> toma(gs[k])]
           S == DOMAIN gs
<1>1. gs \in Seq(Grupo)
  BY GruposTipo
<1>2. carrito[i] \in Articulo /\ b \in Nat /\ i - 1 \in 0 .. Len(carrito)
  <2>1. i \in 1 .. Len(carrito)
    OBVIOUS
  <2> QED BY <2>1, FilaTipo
<1>3. ASSUME NEW g \in Grupo PROVE toma(g) \in 0 .. b /\ (n = 0 => toma(g) = 0)
  <2> DEFINE j == Juntadas(g, carrito, i - 1)
             z == n * g.cantidad - j
             y == Menor({b, z})
  <2>1. j \in Nat
    BY <1>2, JuntadasNat
  <2>2. g.cantidad \in Nat
    BY DEF Grupo
  <2>3. z \in Int /\ (n = 0 => z <= 0)
    <3> HIDE DEF j
    <3> QED BY <2>1, <2>2
  <2> HIDE DEF z, j
  <2>4. y \in Int /\ y <= b /\ y <= z
    <3>1. b \in Int
      BY <1>2
    <3> HIDE DEF b
    <3> QED BY <2>3, <3>1, MenorDeDos
  <2>5. Mayor({0, y}) \in Nat /\ Mayor({0, y}) \in {0, y}
    <3> HIDE DEF y
    <3> QED BY <2>4, MayorDeCero
  <2>6. toma(g) = 0 \/ toma(g) = Mayor({0, y})
    BY DEF z, j
  <2> HIDE DEF y, b, toma
  <2> QED BY <1>2, <2>3, <2>4, <2>5, <2>6
<1>4. IsFiniteSet(S)
  BY <1>1, FS_Interval
<1>5. \A k \in S : gs[k] \in Grupo
  BY <1>1
<1>6. \A k \in S : f[k] \in 0 .. b /\ (n = 0 => f[k] = 0)
  <2> HIDE DEF gs, toma, b
  <2> QED BY <1>3, <1>5
<1>7. \A j, k \in S : f[j] # 0 /\ f[k] # 0 => j = k
  <2>1. \A k \in S : f[k] # 0 => carrito[i].id \in gs[k].prods
    OBVIOUS
  <2> HIDE DEF f
  <2> QED BY <2>1 DEF SinRepetir
<1>8. Descontadas(m, carrito, n, i) = SumFunction(f) /\ DOMAIN f = S
  BY DEF Descontadas
<1> HIDE DEF f, b, gs, toma
<1>9. SumFunction(f) = SumFunctionOnSet(f, S)
  BY <1>8 DEF SumFunction, FoldFunction, SumFunctionOnSet
<1> HIDE DEF S
<1>10. SumFunctionOnSet(f, S) <= b
  BY <1>2, <1>4, <1>6, <1>7, SumaDeUna
<1>11. SumFunctionOnSet(f, S) \in Nat
  <2>1. \A k \in S : f[k] \in Nat
    BY <1>2, <1>6
  <2> QED BY <1>4, <2>1, SumaNatural
<1>12. n = 0 => SumFunctionOnSet(f, S) = 0
  BY <1>4, <1>6, SumaCero
<1> QED BY <1>2, <1>8, <1>9, <1>10, <1>11, <1>12 DEF b

\* An exact quotient gives the dividend back.
LEMMA CocienteExacto ==
    ASSUME NEW a \in Nat, NEW b \in Nat \ {0}, a % b = 0
    PROVE  a \div b \in Nat /\ (a \div b) * b = a
<1>1. a = b * (a \div b) + (a % b) /\ a \div b \in Nat
  OBVIOUS
<1> DEFINE q == a \div b
<1> HIDE DEF q
<1>2. a = b * q + 0 /\ q \in Nat
  BY <1>1 DEF q
<1>3. b * q \in Nat /\ q * b = b * q
  BY <1>2
<1>4. q * b = a
  BY <1>2, <1>3
<1> QED BY <1>2, <1>4 DEF q

\* D spread over V: the percentage of an item that has u of its q units in it.
Reparto(V, D, q, u) == V \in Nat \ {0} /\ D \in Nat /\ q \in Nat \ {0} /\ u \in 0 .. q
Porcion(V, D, q, u) == (Cien * D * u) \div (V * q)
PorcionExacta(V, D, q, u) == (Cien * D * u) % (V * q) = 0
QuedaExacto(q, p, k) == (q * p * (Cien - k)) % Cien = 0

\* It is at most the whole.
LEMMA PorcionCabe ==
    ASSUME NEW V, NEW D, NEW q, NEW u, Reparto(V, D, q, u), D <= V,
           PorcionExacta(V, D, q, u)
    PROVE  /\ Porcion(V, D, q, u) \in 0 .. Cien
           /\ Porcion(V, D, q, u) * (V * q) = Cien * D * u
<1>0. V \in Nat \ {0} /\ D \in Nat /\ q \in Nat \ {0} /\ u \in 0 .. q
  BY DEF Reparto
<1>1. Cien \in Nat \ {0} /\ u \in Nat
  BY <1>0, EscalaPositiva
<1> DEFINE a == Cien * D * u
           b == V * q
<1>2. b \in Nat \ {0}
  BY <1>0, PorPositivos
<1>3. Cien * D \in Nat
  BY <1>0, <1>1
<1>4. a \in Nat
  BY <1>1, <1>3
<1>5. a <= Cien * b
  <2>1. V - D \in Nat /\ q - u \in Nat
    BY <1>0
  <2> DEFINE e == (V - D) * q
             h == D * (q - u)
             w == D * u
  <2>2. e \in Nat /\ h \in Nat /\ w \in Nat
    BY <1>0, <1>1, <2>1
  <2>3. b = e + h + w
    BY <1>0, <1>1
  <2>4. a = Cien * w
    BY <1>0, <1>1
  <2> HIDE DEF a, b, e, h, w
  <2>5. Cien * e \in Nat /\ Cien * h \in Nat /\ Cien * w \in Nat
    BY <1>1, <2>2
  <2>6. Cien * b = Cien * e + Cien * h + Cien * w
    BY <1>1, <2>2, <2>3
  <2> DEFINE x == Cien * e
             y == Cien * h
             z == Cien * w
  <2> HIDE DEF x, y, z
  <2>7. x \in Nat /\ y \in Nat /\ z \in Nat /\ Cien * b = x + y + z /\ a = z
    BY <2>4, <2>5, <2>6 DEF x, y, z
  <2> QED BY <2>7
<1>6. a % b = 0
  BY DEF PorcionExacta
<1> HIDE DEF a, b
<1> DEFINE k == a \div b
<1>7. k \in Nat /\ k * b = a
  BY <1>2, <1>4, <1>6, CocienteExacto
<1>8. k <= Cien
  <2>1. (Cien + 1) * b <= a <=> Cien + 1 <= k
    <3>1. Cien + 1 \in Nat
      BY <1>1
    <3> QED BY <1>2, <1>4, <3>1, CabeEnCociente
  <2>2. (Cien + 1) * b = Cien * b + b /\ Cien * b \in Nat
    BY <1>1, <1>2
  <2> HIDE DEF k
  <2> DEFINE y == Cien * b
  <2> HIDE DEF y
  <2>3. ~((Cien + 1) * b <= a)
    <3>1. (Cien + 1) * b = y + b /\ y \in Nat /\ a <= y
      BY <1>5, <2>2 DEF y
    <3> QED BY <1>2, <1>4, <3>1
  <2> QED BY <1>1, <1>7, <2>1, <2>3
<1> HIDE DEF k
<1>9. k \in 0 .. Cien
  BY <1>1, <1>7, <1>8
<1> QED BY <1>7, <1>9 DEF k, a, b, Porcion

\* What an exact percentage takes off.
LEMMA RebajaExacta ==
    ASSUME NEW monto \in Nat, NEW k \in 0 .. Cien, (monto * (Cien - k)) % Cien = 0
    PROVE  /\ monto - Rebajado(monto, k) \in Nat
           /\ Cien * (monto - Rebajado(monto, k)) = monto * k
<1>1. Cien \in Nat \ {0} /\ k \in Nat /\ Cien - k \in Nat
  BY EscalaPositiva
<1> DEFINE x == monto * (Cien - k)
           r == x \div Cien
<1>2. x \in Nat /\ x % Cien = 0
  BY <1>1
<1>3. x = monto * Cien - monto * k /\ monto * Cien \in Nat /\ monto * k \in Nat
  BY <1>1
<1> HIDE DEF x
<1>4. r \in Nat /\ r * Cien = x
  BY <1>1, <1>2, CocienteExacto
<1>5. Rebajado(monto, k) = r
  BY DEF Rebajado, x
<1> HIDE DEF r
<1>6. Cien * (monto - r) = monto * Cien - r * Cien
  BY <1>1, <1>4
<1> DEFINE y == monto * Cien
           z == monto * k
<1>7. y \in Nat /\ z \in Nat /\ x = y - z /\ Cien * (monto - r) = y - x
  BY <1>3, <1>4, <1>6
<1> HIDE DEF y, z
<1>8. Cien * (monto - r) = z
  BY <1>2, <1>7
<1>9. r <= monto
  <2>1. \A p \in Int : Cien * p >= 0 => p >= 0
    BY <1>1
  <2>2. monto - r \in Int
    BY <1>4
  <2> QED BY <1>4, <1>7, <1>8, <2>1, <2>2
<1> QED BY <1>4, <1>5, <1>8, <1>9 DEF z

\* That percentage takes D * p * u out of V.
LEMMA RebajaDeParte ==
    ASSUME NEW V, NEW D, NEW q, NEW u, NEW p, Reparto(V, D, q, u), p \in Nat, D <= V,
           PorcionExacta(V, D, q, u), QuedaExacto(q, p, Porcion(V, D, q, u))
    PROVE  V * (q * p - Rebajado(q * p, Porcion(V, D, q, u))) = D * (p * u)
<1> DEFINE k == Porcion(V, D, q, u)
<1>1. /\ V \in Nat \ {0} /\ D \in Nat /\ q \in Nat \ {0} /\ u \in 0 .. q
      /\ (Cien * D * u) % (V * q) = 0
  BY DEF Reparto, PorcionExacta
<1>2. k \in 0 .. Cien /\ k * (V * q) = Cien * D * u
  BY PorcionCabe
<1>3. (q * p * (Cien - k)) % Cien = 0
  BY DEF QuedaExacto
<1> HIDE DEF k
<1>4. Cien \in Nat \ {0} /\ u \in Nat /\ k \in Nat /\ q * p \in Nat
  BY <1>1, <1>2, EscalaPositiva
<1> DEFINE s == q * p - Rebajado(q * p, k)
<1>5. s \in Nat /\ Cien * s = q * p * k
  BY <1>2, <1>3, <1>4, RebajaExacta
<1> HIDE DEF s
<1>6. Cien * (V * s) = V * (Cien * s)
  BY <1>1, <1>4, <1>5
<1>7. V * (q * p * k) = p * (k * (V * q))
  BY <1>1, <1>4
<1>8. p * (Cien * D * u) = Cien * (D * (p * u))
  BY <1>1, <1>4
<1>9. Cien * (V * s) = Cien * (D * (p * u))
  BY <1>2, <1>5, <1>6, <1>7, <1>8
<1>10. V * s \in Nat /\ D * (p * u) \in Nat
  <2>1. p * u \in Nat
    BY <1>4
  <2> QED BY <1>1, <1>5, <2>1
<1> DEFINE y == V * s
           z == D * (p * u)
<1> HIDE DEF y, z
<1>11. Cien * y = Cien * z /\ y \in Nat /\ z \in Nat
  BY <1>9, <1>10 DEF y, z
<1>12. y = z
  BY <1>4, <1>11
<1> QED BY <1>12 DEF y, z, s, k

\* What m alone takes off the i-th item.
Quita(m, i) ==
    LET monto == carrito[i].cant * Precio[carrito[i].id]
    IN monto - Rebajado(monto, PctPromo(<<m>>, carrito, i))

LEMMA QuitaEs ==
    ASSUME carrito \in Seq(Articulo), NEW m \in Promocion, m.activa, m.tipo # "porcentaje",
           SinRepetir(m), NEW n \in Nat, n = Conjuntos(m, carrito), DivideExacto(m, n),
           NEW i \in DOMAIN carrito
    PROVE  LET D == DescuentoTotal(m, carrito, n)
               V == ValorCombo(m, carrito, n)
               u == Descontadas(m, carrito, n, i)
               p == Precio[carrito[i].id]
           IN /\ Quita(m, i) \in Nat
              /\ p * u = 0 => Quita(m, i) = 0
              /\ n > 0 /\ D <= V /\ p * u # 0 => V * Quita(m, i) = D * (p * u)
              /\ n > 0 /\ V < D /\ u \in {0, carrito[i].cant} => Quita(m, i) = p * u
<1> DEFINE D == DescuentoTotal(m, carrito, n)
           V == ValorCombo(m, carrito, n)
           u == Descontadas(m, carrito, n, i)
           p == Precio[carrito[i].id]
           q == carrito[i].cant
           k == PctPromo(<<m>>, carrito, i)
           e == PctSolo(m, carrito, i)
           c == (Cien * D * u) \div (V * q)
<1>1. q \in Nat \ {0} /\ p \in Nat
  BY FilaTipo, PromocionesConstantes
<1>2. u \in 0 .. q /\ (n = 0 => u = 0)
  BY DescontadasCaben
<1>3. V \in Nat /\ p * u <= V /\ D \in Nat
  BY ValorNat, DescuentoTotalNat
<1>4. k = Menor({Cien, e}) /\ e \in Nat
  BY UnaSola, PctSoloNat
<1>5. k \in 0 .. Cien
  <2>1. <<m>> \in Seq(Promocion)
    OBVIOUS
  <2> QED BY <2>1, PctPromoEs
<1>6. e = IF n > 0 THEN IF p = 0 \/ u = 0 THEN 0 ELSE c ELSE 0
  BY DEF PctSolo, PctDe
<1>7. (q * p * (Cien - k)) % Cien = 0 /\ (u # 0 /\ p # 0 => (Cien * D * u) % (V * q) = 0)
  BY DEF DivideExacto
<1>8. Quita(m, i) = q * p - Rebajado(q * p, k)
  BY DEF Quita
<1> HIDE DEF D, V, u, p, q, k, e, c
<1>9. q * p \in Nat /\ Cien \in Nat \ {0} /\ u \in Nat
  BY <1>1, <1>2, EscalaPositiva
<1>10. Quita(m, i) \in Nat
  BY <1>5, <1>7, <1>8, <1>9, RebajaExacta
<1>11. Menor({Cien, e}) \in {Cien, e} /\ Menor({Cien, e}) <= Cien /\ Menor({Cien, e}) <= e
  <2>1. Cien \in Int /\ e \in Int
    BY <1>4, <1>9
  <2> QED BY <2>1, MenorDeDos
<1>12. ASSUME p * u = 0 PROVE Quita(m, i) = 0
  <2>1. p = 0 \/ u = 0
    BY <1>1, <1>9, <1>12
  <2>2. e = 0
    BY <1>6, <2>1
  <2>3. k = 0
    BY <1>4, <1>9, <1>11, <2>2
  <2> QED BY <1>8, <1>9, <2>3, SinDescuento
<1>13. ASSUME n > 0, D <= V, p * u # 0 PROVE V * Quita(m, i) = D * (p * u)
  <2>1. p # 0 /\ u # 0
    BY <1>1, <1>9, <1>13
  <2>2. V \in Nat \ {0}
    <3>1. p * u \in Nat
      BY <1>1, <1>9
    <3> QED BY <1>3, <1>13, <3>1
  <2>3. c = Porcion(V, D, q, u)
    BY DEF c, Porcion
  <2>4. Reparto(V, D, q, u) /\ D <= V /\ p \in Nat
    BY <1>1, <1>2, <1>3, <1>13, <2>2 DEF Reparto
  <2>5. PorcionExacta(V, D, q, u)
    BY <1>7, <2>1 DEF PorcionExacta
  <2>6. e = c
    BY <1>6, <1>13, <2>1
  <2>7. c \in 0 .. Cien
    BY <2>3, <2>4, <2>5, PorcionCabe
  <2>8. k = c
    BY <1>4, <1>9, <1>11, <2>6, <2>7
  <2>9. QuedaExacto(q, p, Porcion(V, D, q, u))
    BY <1>7, <2>3, <2>8 DEF QuedaExacto
  <2>10. V * (q * p - Rebajado(q * p, Porcion(V, D, q, u))) = D * (p * u)
    BY <2>4, <2>5, <2>9, RebajaDeParte
  <2> QED BY <1>8, <2>3, <2>8, <2>10
<1>14. ASSUME n > 0, V < D, u \in {0, q} PROVE Quita(m, i) = p * u
  <2>1. CASE p * u = 0
    BY <1>12, <2>1
  <2>2. CASE p * u # 0
    <3>1. p # 0 /\ u # 0 /\ u = q
      BY <1>1, <1>9, <1>14, <2>2
    <3>2. V \in Nat \ {0}
      <4>1. p * u \in Nat
        BY <1>1, <1>9
      <4> QED BY <1>3, <2>2, <4>1
    <3>3. e = c
      BY <1>6, <1>14, <3>1
    <3>4. Cien <= c
      <4> DEFINE a == Cien * D * u
                 b == V * q
      <4>1. b \in Nat \ {0}
        BY <1>1, <3>2, PorPositivos
      <4>2. Cien * D \in Nat
        BY <1>3, <1>9
      <4>3. a \in Nat
        BY <1>9, <4>2
      <4>4. Cien * b <= a
        <5>1. D - V \in Nat
          BY <1>3, <1>14
        <5>2. Cien * (D - V) \in Nat
          BY <1>9, <5>1
        <5>3. Cien * (D - V) * q \in Nat
          BY <1>1, <5>2
        <5>4. a = Cien * b + Cien * (D - V) * q
          BY <1>1, <1>3, <1>9, <3>1
        <5>5. Cien * b \in Nat
          BY <1>9, <4>1
        <5> DEFINE y == Cien * (D - V) * q
                   z == Cien * b
        <5> HIDE DEF a, b, y, z
        <5>6. a = z + y /\ y \in Nat /\ z \in Nat
          BY <5>3, <5>4, <5>5 DEF y, z
        <5> QED BY <5>6 DEF z
      <4>5. c = a \div b
        BY DEF c
      <4> HIDE DEF a, b
      <4>6. Cien * b <= a <=> Cien <= a \div b
        BY <1>9, <4>1, <4>3, CabeEnCociente
      <4> QED BY <4>4, <4>5, <4>6
    <3>5. k = Cien
      BY <1>4, <1>9, <1>11, <3>3, <3>4
    <3>6. Rebajado(q * p, k) = 0
      <4>1. Cien - k = 0
        BY <1>9, <3>5
      <4>2. (q * p) * 0 = 0 /\ 0 \div Cien = 0
        BY <1>9
      <4> QED BY <4>1, <4>2 DEF Rebajado
    <3> QED BY <1>1, <1>8, <1>9, <3>1, <3>6
  <2> QED BY <2>1, <2>2
<1> QED BY <1>10, <1>12, <1>13, <1>14 DEF D, V, u, p, q

\* Off the cart comes what comes off its items.
LEMMA AhorroSumado ==
    ASSUME carrito \in Seq(Articulo), NEW m \in Promocion,
           \A i \in DOMAIN carrito : Quita(m, i) \in Nat
    PROVE  SinRebaja - ConRebaja(m)
               = SumFunctionOnSet([i \in DOMAIN carrito |-> Quita(m, i)], DOMAIN carrito)
<1> DEFINE S == DOMAIN carrito
           monto(i) == carrito[i].cant * Precio[carrito[i].id]
           queda(i) == Rebajado(carrito[i].cant * Precio[carrito[i].id], PctPromo(<<m>>, carrito, i))
           h == [i \in S |-> monto(i)]
           f == [i \in S |-> queda(i)]
           g == [i \in S |-> Quita(m, i)]
<1>1. IsFiniteSet(S) /\ DOMAIN h = S /\ DOMAIN f = S
  BY FS_Interval
<1>2. ASSUME NEW i \in S PROVE monto(i) \in Nat /\ queda(i) \in Nat /\ Quita(m, i) = monto(i) - queda(i)
  <2>1. <<m>> \in Seq(Promocion)
    OBVIOUS
  <2>2. monto(i) \in Nat /\ PctPromo(<<m>>, carrito, i) \in 0 .. Cien
    BY <2>1, PrecioDeFila, PctPromoEs
  <2>3. queda(i) \in Nat
    <3> HIDE DEF monto
    <3>1. Rebajado(monto(i), PctPromo(<<m>>, carrito, i)) \in Nat
      BY <2>2, RebajadoNat
    <3> QED BY <3>1 DEF monto
  <2>4. Quita(m, i) = monto(i) - queda(i)
    BY DEF Quita
  <2> QED BY <2>2, <2>3, <2>4
<1>3. SinRebaja = SumFunction(h) /\ ConRebaja(m) = SumFunction(f)
  BY DEF SinRebaja, ConRebaja
<1> HIDE DEF S, monto, queda
<1>4. \A i \in S : f[i] \in Int /\ g[i] \in Int /\ h[i] = f[i] + g[i]
  BY <1>2
<1> HIDE DEF f, g, h
<1>5. SumFunction(h) = SumFunctionOnSet(h, S) /\ SumFunction(f) = SumFunctionOnSet(f, S)
  BY <1>1 DEF SumFunction, FoldFunction, SumFunctionOnSet
<1>6. SumFunctionOnSet(h, S) = SumFunctionOnSet(f, S) + SumFunctionOnSet(g, S)
  BY <1>1, <1>4, SumaMas
<1>7. SumFunctionOnSet(f, S) \in Int /\ SumFunctionOnSet(g, S) \in Int
  BY <1>1, <1>4, SumaEntera
<1> QED BY <1>3, <1>5, <1>6, <1>7 DEF g, S

\* The discount of a whole cart against that of its sets.
LEMMA DescuentoEs ==
    ASSUME carrito \in Seq(Articulo), NEW m \in Promocion, m.tipo # "porcentaje",
           NEW n \in Nat \ {0}, PorGrupos(m) /\ m.tipo = "precio_fijo_combo" => n < 2
    PROVE  LET D == DescuentoTotal(m, carrito, n)
               V == ValorCombo(m, carrito, n)
           IN /\ m.tipo = "monto_fijo" => D = n * m.valor
              /\ m.tipo # "monto_fijo" => D = Mayor({0, V - n * m.valor}) /\ D <= V
<1> DEFINE D == DescuentoTotal(m, carrito, n)
           V == ValorCombo(m, carrito, n)
           v == m.valor
           x == V - n * m.valor
<1>1. V \in Nat /\ v \in Nat /\ m.tipo \in {"porcentaje", "monto_fijo", "precio_fijo_combo"}
  BY ValorNat DEF Promocion
<1>2. D = IF m.tipo = "monto_fijo" THEN n * v
          ELSE IF PorGrupos(m) THEN Mayor({0, V - v}) * n
          ELSE Mayor({0, V - v * n})
  BY DEF DescuentoTotal
<1> HIDE DEF D, V, v
<1>3. n * v \in Nat /\ v * n = n * v
  BY <1>1
<1>4. x = V - n * v
  BY DEF v
<1>5. V - n * v \in Int
  BY <1>1, <1>3
<1> HIDE DEF x
<1>6. Mayor({0, x}) \in Nat /\ Mayor({0, x}) \in {0, x} /\ Mayor({0, x}) * 1 = Mayor({0, x})
  <2>1. Mayor({0, x}) \in Nat /\ Mayor({0, x}) \in {0, x}
    BY <1>4, <1>5, MayorDeCero
  <2> QED BY <2>1
<1>7. ASSUME m.tipo # "monto_fijo" PROVE D = Mayor({0, x})
  <2>1. CASE PorGrupos(m)
    <3>1. n = 1
      BY <1>1, <1>7, <2>1
    <3>2. V - v = x
      BY <1>1, <1>4, <3>1
    <3> QED BY <1>2, <1>6, <1>7, <2>1, <3>1, <3>2
  <2>2. CASE ~PorGrupos(m)
    BY <1>2, <1>3, <1>4, <1>7, <2>2
  <2> QED BY <2>1, <2>2
<1>8. Mayor({0, x}) <= V
  BY <1>1, <1>3, <1>4, <1>6
<1> QED BY <1>2, <1>7, <1>8 DEF D, V, v, x

\* Whatever the order in which its terms are taken, what comes off is the discount.
LEMMA AhorroEs ==
    ASSUME carrito \in Seq(Articulo), promos \in Seq(Promocion)
    PROVE  AhorroJusto
<1> SUFFICES ASSUME NEW j \in DOMAIN promos,
                    promos[j].activa, promos[j].tipo # "porcentaje", SinRepetir(promos[j]),
                    DivideExacto(promos[j], Servidos(promos[j])),
                    PorGrupos(promos[j]) /\ promos[j].tipo = "precio_fijo_combo"
                        => Servidos(promos[j]) < 2,
                    SinSobrante(promos[j], Servidos(promos[j]))
             PROVE  SinRebaja - ConRebaja(promos[j]) =
                        IF promos[j].tipo = "monto_fijo"
                        THEN Menor({Servidos(promos[j]) * promos[j].valor,
                                    ValorCombo(promos[j], carrito, Servidos(promos[j]))})
                        ELSE Mayor({0, ValorCombo(promos[j], carrito, Servidos(promos[j]))
                                         - Servidos(promos[j]) * promos[j].valor})
  BY DEF AhorroJusto, Repartible
<1> DEFINE m == promos[j]
           n == Servidos(m)
           D == DescuentoTotal(m, carrito, n)
           V == ValorCombo(m, carrito, n)
           S == DOMAIN carrito
           u(i) == Descontadas(m, carrito, n, i)
           p(i) == Precio[carrito[i].id]
           w == [i \in S |-> Precio[carrito[i].id] * Descontadas(m, carrito, n, i)]
           g == [i \in S |-> Quita(m, i)]
           A == SumFunctionOnSet(g, S)
<1>1. m \in Promocion /\ m.valor \in Nat
  <2>1. m \in Promocion
    OBVIOUS
  <2> QED BY <2>1 DEF Promocion
<1> HIDE DEF m
<1>2. n \in Nat /\ n = Conjuntos(m, carrito)
  BY <1>1, ServidosSon
<1>3. /\ m.activa /\ m.tipo # "porcentaje" /\ SinRepetir(m) /\ DivideExacto(m, n)
      /\ PorGrupos(m) /\ m.tipo = "precio_fijo_combo" => n < 2
      /\ m.tipo = "monto_fijo" => n * m.valor <= V \/ \A i \in S : u(i) \in {0, carrito[i].cant}
  BY DEF m, SinSobrante
<1> SUFFICES SinRebaja - ConRebaja(m) =
                 IF m.tipo = "monto_fijo" THEN Menor({n * m.valor, V})
                 ELSE Mayor({0, V - n * m.valor})
  BY DEF m
<1>4. IsFiniteSet(S) /\ DOMAIN w = S
  <2>1. S = 1 .. Len(carrito) /\ DOMAIN w = S
    OBVIOUS
  <2> HIDE DEF w, S
  <2> QED BY <2>1, FS_Interval
<1>5. V \in Nat /\ D \in Nat
  BY <1>1, <1>2, ValorNat, DescuentoTotalNat
<1>6. V = SumFunctionOnSet(w, S)
  <2>1. V = SumFunction(w)
    BY DEF ValorCombo
  <2> HIDE DEF w, S, V
  <2> QED BY <1>4, <2>1 DEF SumFunction, FoldFunction, SumFunctionOnSet
<1> HIDE DEF n
<1>7. ASSUME NEW i \in S
      PROVE  /\ g[i] \in Nat /\ w[i] = p(i) * u(i) /\ w[i] \in Nat /\ w[i] <= V
             /\ n = 0 => u(i) = 0 /\ w[i] = 0
             /\ w[i] = 0 => g[i] = 0
             /\ n > 0 /\ D <= V /\ w[i] # 0 => V * g[i] = D * w[i]
             /\ n > 0 /\ V < D /\ u(i) \in {0, carrito[i].cant} => g[i] = w[i]
  <2>1. p(i) \in Nat
    BY FilaTipo, PromocionesConstantes
  <2>2. u(i) \in Nat /\ (n = 0 => u(i) = 0)
    BY <1>1, <1>2, <1>3, DescontadasCaben, DescontadasNat
  <2>3. w[i] = p(i) * u(i) /\ g[i] = Quita(m, i)
    OBVIOUS
  <2>4. w[i] <= V
    BY <1>1, <1>2, ValorNat
  <2>5. /\ Quita(m, i) \in Nat
        /\ p(i) * u(i) = 0 => Quita(m, i) = 0
        /\ n > 0 /\ D <= V /\ p(i) * u(i) # 0 => V * Quita(m, i) = D * (p(i) * u(i))
        /\ n > 0 /\ V < D /\ u(i) \in {0, carrito[i].cant} => Quita(m, i) = p(i) * u(i)
    BY <1>1, <1>2, <1>3, QuitaEs
  <2> HIDE DEF p, u, w, g, D, V, S
  <2>6. p(i) * u(i) \in Nat /\ (n = 0 => p(i) * u(i) = 0)
    BY <2>1, <2>2
  <2> QED BY <2>2, <2>3, <2>4, <2>5, <2>6
<1>8. SinRebaja - ConRebaja(m) = A
  <2>1. \A i \in DOMAIN carrito : Quita(m, i) \in Nat
    BY <1>7
  <2> QED BY <1>1, <2>1, AhorroSumado
<1> HIDE DEF g, w, S, u, p, D, V
<1>9. \A i \in S : g[i] \in Int /\ w[i] \in Int
  BY <1>7
<1>10. A \in Nat
  BY <1>4, <1>7, SumaNatural
<1> DEFINE nv == n * m.valor
<1>11. nv \in Nat
  BY <1>1, <1>2
<1>12. CASE n = 0
  <2>1. \A i \in S : w[i] = 0 /\ g[i] = 0
    BY <1>7, <1>12
  <2>2. V = 0 /\ A = 0
    BY <1>4, <1>6, <2>1, SumaCero
  <2>3. nv = 0
    BY <1>1, <1>12
  <2> HIDE DEF nv, A
  <2>4. Menor({nv, V}) = 0
    <3>1. {nv, V} = {0}
      BY <2>2, <2>3
    <3>2. Menor({nv, V}) \in {nv, V}
      <4>1. nv \in Int /\ V \in Int
        BY <2>2, <2>3
      <4> QED BY <4>1, MenorDeDos
    <3> QED BY <3>1, <3>2
  <2>5. V - nv = 0
    BY <2>2, <2>3
  <2>6. Mayor({0, V - nv}) = 0
    <3> DEFINE x == V - nv
    <3>1. x = 0
      BY <2>5
    <3> HIDE DEF x
    <3>2. Mayor({0, x}) \in {0, x}
      BY <3>1, MayorDeCero
    <3> QED BY <3>1, <3>2 DEF x
  <2> QED BY <1>8, <2>2, <2>4, <2>6 DEF nv
<1>13. CASE n # 0
  <2>1. n \in Nat \ {0} /\ n > 0
    BY <1>2, <1>13
  <2>2. /\ m.tipo = "monto_fijo" => D = nv
        /\ m.tipo # "monto_fijo" => D = Mayor({0, V - nv}) /\ D <= V
    BY <1>1, <1>3, <2>1, DescuentoEs DEF D, V
  <2> HIDE DEF nv
  <2>3. Menor({nv, V}) \in {nv, V} /\ Menor({nv, V}) <= nv /\ Menor({nv, V}) <= V
    <3>1. nv \in Int /\ V \in Int
      BY <1>5, <1>11
    <3> QED BY <3>1, MenorDeDos
  <2>4. CASE D <= V
    <3>1. A = D
      <4>1. CASE V = 0
        <5>1. D = 0
          BY <1>5, <2>4, <4>1
        <5>2. \A i \in S : g[i] = 0
          BY <1>7, <4>1
        <5> QED BY <1>4, <5>1, <5>2, SumaCero
      <4>2. CASE V # 0
        <5> DEFINE h == [i \in S |-> D * w[i]]
        <5>1. \A i \in S : w[i] \in Int /\ h[i] = D * w[i]
          BY <1>9
        <5>2. \A i \in S : g[i] \in Int /\ h[i] = V * g[i]
          <6> TAKE i \in S
          <6>1. h[i] = D * w[i] /\ g[i] \in Int
            BY <1>9
          <6> HIDE DEF h
          <6>2. CASE w[i] = 0
            <7>1. g[i] = 0
              BY <1>7, <6>2
            <7>2. D * 0 = 0 /\ V * 0 = 0
              BY <1>5
            <7> QED BY <6>1, <6>2, <7>1, <7>2
          <6>3. CASE w[i] # 0
            BY <1>7, <2>1, <2>4, <6>1, <6>3
          <6> QED BY <6>2, <6>3
        <5> HIDE DEF h
        <5>3. D \in Int /\ V \in Int
          BY <1>5
        <5>4. SumFunctionOnSet(h, S) = D * SumFunctionOnSet(w, S)
          BY <1>4, <5>1, <5>3, SumaPor
        <5>5. SumFunctionOnSet(h, S) = V * SumFunctionOnSet(g, S)
          BY <1>4, <5>2, <5>3, SumaPor
        <5>6. V * A = D * V
          BY <1>6, <5>4, <5>5
        <5> HIDE DEF A
        <5>7. \A a, b, d \in Nat : a # 0 /\ a * b = d * a => b = d
          OBVIOUS
        <5> QED BY <1>5, <1>10, <4>2, <5>6, <5>7
      <4> QED BY <4>1, <4>2
    <3> HIDE DEF A
    <3>2. m.tipo = "monto_fijo" => Menor({nv, V}) = D
      BY <1>5, <1>11, <2>2, <2>3, <2>4
    <3> QED BY <1>8, <2>2, <3>1, <3>2 DEF nv
  <2>5. CASE ~(D <= V)
    <3>1. V < D /\ m.tipo = "monto_fijo" /\ D = nv
      BY <1>5, <2>2, <2>5
    <3>2. \A i \in S : u(i) \in {0, carrito[i].cant}
      BY <1>3, <2>5, <3>1 DEF nv
    <3>3. \A i \in S : w[i] \in Int /\ g[i] = w[i]
      BY <1>7, <1>9, <2>1, <3>1, <3>2
    <3>4. A = V
      BY <1>4, <1>6, <3>3, SumaIgual
    <3> HIDE DEF A
    <3>5. Menor({nv, V}) = V
      BY <1>5, <1>11, <2>3, <3>1
    <3> QED BY <1>8, <3>1, <3>4, <3>5 DEF nv
  <2> QED BY <2>4, <2>5
<1> QED BY <1>12, <1>13

(***************************************************************************)
(* However the discount of a promotion is spread over the items of a cart, *)
(* their order and their loose units, an amount is taken off once for each *)
(* set the cart completes, and a fixed price leaves that of the sets to    *)
(* pay (usePromocionesStore.ts:100-304, useCartStore.ts:61-66).            *)
(***************************************************************************)
THEOREM SeAhorraLoJusto == Spec => []AhorroJusto
<1>1. Init => CarritoInv
  BY CarritoEmpieza
<1>2. CarritoInv /\ [Next]_vars => CarritoInv'
  BY CarritoSigue
<1>3. CarritoInv => AhorroJusto
  BY CarritoTipo, PromosTipo, AhorroEs
<1> QED BY <1>1, <1>2, <1>3, PTL DEF Spec

(***************************************************************************)
(* No product is in the cart twice, and the total is that of the cart.     *)
(***************************************************************************)

Unicos(c) == \A i, j \in DOMAIN c : c[i].id = c[j].id => i = j

UnicosInv == Unicos(carrito) /\ total = Total(promos, carrito)

LEMMA FilasUnicas ==
    ASSUME NEW S, NEW c \in Seq(S), Unicos(c), NEW R
    PROVE  Unicos(Filas(c, R))
<1> DEFINE L == Len(c)
<1>0. PICK f : FilasHasta(f, c, R)
  BY FilasEcuacion
<1>1. /\ f[0] = <<>> /\ Filas(c, R) = f[L]
      /\ \A n \in 1 .. L : f[n] = IF n \in R THEN Append(f[n - 1], c[n]) ELSE f[n - 1]
      /\ \A n \in 0 .. L : f[n] \in Seq({c[k] : k \in R \cap DOMAIN c})
  BY <1>0 DEF FilasHasta
<1>2. L \in Nat /\ DOMAIN c = 1 .. L
  OBVIOUS
<1> HIDE DEF L
<1> DEFINE T == {c[k] : k \in R \cap DOMAIN c}
           Viene(v, n) == \A k \in DOMAIN v : \E j \in 1 .. n : v[k] = c[j]
           Bien(n) == Unicos(f[n]) /\ Viene(f[n], n)
           Mal == {n \in 0 .. L : ~Bien(n)}
<1>3. Mal = {}
  <2>1. SUFFICES ASSUME Mal # {} PROVE FALSE
    OBVIOUS
  <2>2. Mal \subseteq Nat
    BY <1>2
  <2>3. PICK n \in Mal : \A k \in Mal : n <= k
    <3> HIDE DEF Mal
    <3> QED BY <2>1, <2>2, Minimo
  <2>4. n \in 0 .. L /\ ~Bien(n)
    OBVIOUS
  <2>5. n # 0
    <3>1. Unicos(<<>>) /\ Viene(<<>>, 0)
      BY DEF Unicos
    <3> QED BY <1>1, <2>4, <3>1
  <2>6. n \in 1 .. L /\ n - 1 \in 0 .. L /\ Bien(n - 1)
    <3>1. n \in 1 .. L /\ n - 1 \in 0 .. L /\ ~(n <= n - 1)
      BY <1>2, <2>4, <2>5
    <3>2. n - 1 \notin Mal
      <4> HIDE DEF Mal
      <4> QED BY <2>3, <3>1
    <3> HIDE DEF Bien
    <3> QED BY <3>1, <3>2
  <2> DEFINE v == f[n - 1]
             w == f[n]
  <2>7. v \in Seq(T) /\ w = IF n \in R THEN Append(v, c[n]) ELSE v
    BY <1>1, <2>6
  <2>8. Unicos(v) /\ Viene(v, n - 1)
    BY <2>6
  <2> HIDE DEF v, w, T
  <2>9. \A j \in 1 .. (n - 1) : j \in 1 .. n /\ j # n /\ j \in DOMAIN c
    BY <1>2, <2>6
  <2>10. n \in 1 .. n /\ n \in DOMAIN c
    BY <1>2, <2>6
  <2>11. CASE n \notin R
    <3>1. Unicos(w) /\ Viene(w, n)
      BY <2>7, <2>8, <2>9, <2>11
    <3> QED BY <2>4, <3>1 DEF w
  <2>12. CASE n \in R
    <3>1. /\ w = Append(v, c[n]) /\ Len(v) \in Nat /\ DOMAIN v = 1 .. Len(v)
          /\ DOMAIN w = 1 .. (Len(v) + 1)
          /\ \A k \in 1 .. Len(v) : w[k] = v[k]
          /\ w[Len(v) + 1] = c[n]
      <4>1. w = Append(v, c[n]) /\ v \in Seq(T)
        BY <2>7, <2>12
      <4> QED BY <4>1
    <3>2. \A k \in DOMAIN w : k \in DOMAIN v \/ k = Len(v) + 1
      BY <3>1
    <3>3. Viene(w, n)
      BY <2>8, <2>9, <2>10, <3>1, <3>2
    <3>4. \A k \in DOMAIN v : v[k].id # c[n].id
      <4> TAKE k \in DOMAIN v
      <4>1. PICK j \in 1 .. (n - 1) : v[k] = c[j]
        BY <2>8
      <4>2. j \in DOMAIN c /\ n \in DOMAIN c /\ j # n
        BY <2>9, <2>10
      <4>3. c[j].id # c[n].id
        BY <4>2 DEF Unicos
      <4> QED BY <4>1, <4>3
    <3>5. Unicos(w)
      <4> SUFFICES ASSUME NEW x \in DOMAIN w, NEW y \in DOMAIN w, w[x].id = w[y].id
                   PROVE  x = y
        BY DEF Unicos
      <4>1. CASE x \in DOMAIN v /\ y \in DOMAIN v
        <5>1. w[x] = v[x] /\ w[y] = v[y]
          BY <3>1, <4>1
        <5> QED BY <2>8, <4>1, <5>1 DEF Unicos
      <4>2. CASE x \in DOMAIN v /\ y = Len(v) + 1
        <5>1. w[x] = v[x] /\ w[y] = c[n]
          BY <3>1, <4>2
        <5> QED BY <3>4, <4>2, <5>1
      <4>3. CASE x = Len(v) + 1 /\ y \in DOMAIN v
        <5>1. w[y] = v[y] /\ w[x] = c[n]
          BY <3>1, <4>3
        <5> QED BY <3>4, <4>3, <5>1
      <4>4. CASE x = Len(v) + 1 /\ y = Len(v) + 1
        BY <4>4
      <4> QED BY <3>2, <4>1, <4>2, <4>3, <4>4
    <3> QED BY <2>4, <3>3, <3>5 DEF w
  <2> QED BY <2>11, <2>12
<1>4. L \in 0 .. L
  BY <1>2
<1>5. Bien(L)
  BY <1>3, <1>4
<1> QED BY <1>1, <1>5

\* The same items in the same places, whatever else changes of them.
LEMMA MismosUnicos ==
    ASSUME NEW c, NEW d, Unicos(c), DOMAIN d = DOMAIN c,
           \A j \in DOMAIN c : d[j].id = c[j].id
    PROVE  Unicos(d)
BY DEF Unicos

LEMMA UnicosMasUno ==
    ASSUME carrito \in Seq(Articulo), Unicos(carrito), NEW p \in Productos
    PROVE  Unicos(MasUno(p))
<1>1. CASE EnCarrito(carrito, p)
  <2> DEFINE k == Indice(carrito, p)
             d == [carrito EXCEPT ![k].cant = @ + 1]
  <2>1. MasUno(p) = d
    BY <1>1 DEF MasUno
  <2>2. \A j \in DOMAIN carrito : carrito[j] \in Articulo
    OBVIOUS
  <2>3. DOMAIN d = DOMAIN carrito /\ \A j \in DOMAIN carrito : d[j].id = carrito[j].id
    <3> HIDE DEF k
    <3> QED BY <2>2 DEF Articulo
  <2> HIDE DEF d
  <2> QED BY <2>1, <2>3, MismosUnicos
<1>2. CASE ~EnCarrito(carrito, p)
  <2> DEFINE a == [id |-> p, cant |-> 1, desc |-> 0]
             w == Append(carrito, a)
             L == Len(carrito)
  <2>1. MasUno(p) = w
    BY <1>2 DEF MasUno
  <2>2. a.id = p
    OBVIOUS
  <2>3. \A j \in DOMAIN carrito : carrito[j].id # p
    BY <1>2 DEF EnCarrito
  <2> HIDE DEF a
  <2>4. /\ L \in Nat /\ DOMAIN carrito = 1 .. L /\ DOMAIN w = 1 .. (L + 1)
        /\ \A j \in 1 .. L : w[j] = carrito[j]
        /\ w[L + 1] = a
    OBVIOUS
  <2> HIDE DEF w, L
  <2>5. \A j \in DOMAIN w : j \in DOMAIN carrito \/ j = L + 1
    BY <2>4
  <2>6. \A j \in DOMAIN carrito : w[j].id = carrito[j].id /\ w[j].id # w[L + 1].id
    BY <2>2, <2>3, <2>4
  <2>7. Unicos(w)
    BY <2>5, <2>6 DEF Unicos
  <2> QED BY <2>1, <2>7
<1> QED BY <1>1, <1>2

LEMMA UnicosPedida ==
    ASSUME carrito \in Seq(Articulo), Unicos(carrito), NEW p, NEW n, PedirCantidad(p, n)
    PROVE  Unicos(carrito')
<1>1. CASE n <= 0
  <2>1. carrito' = ConSolo(Productos \ {p})
    BY <1>1 DEF PedirCantidad, Dejar
  <2> QED BY <2>1, FilasUnicas DEF ConSolo
<1>2. CASE ~(n <= 0)
  <2>1. carrito' = carrito
    BY <1>2 DEF PedirCantidad
  <2> QED BY <2>1
<1> QED BY <1>1, <1>2

LEMMA UnicosContinuar ==
    ASSUME CarritoInv, Unicos(carrito), NEW i \in 1 .. MaxEsperas, Continuar(i)
    PROVE  Unicos(carrito')
<1> DEFINE e == esperas[i]
<1>1. carrito \in Seq(Articulo) /\ i \in DOMAIN esperas /\ e \in Espera
  <2>1. carrito \in Seq(Articulo) /\ esperas \in Seq(Espera) /\ i \in DOMAIN esperas
    BY CarritoTipo DEF Continuar
  <2> QED BY <2>1
<1>2. CASE Alta(i)
  <2>1. e.op = "alta"
    BY <1>2 DEF Alta
  <2>2. e.id \in Productos
    BY <1>1, <2>1 DEF Espera
  <2>3. carrito' = MasUno(e.id) \/ carrito' = carrito
    BY <1>2 DEF Alta
  <2> HIDE DEF e
  <2> QED BY <1>1, <2>2, <2>3, UnicosMasUno
<1>3. CASE Fijar(i)
  <2> DEFINE nueva(j) == IF carrito[j].id = e.id /\ (e.stock = Fallo \/ e.n <= e.stock)
                         THEN [carrito[j] EXCEPT !.cant = e.n] ELSE carrito[j]
             d == [j \in DOMAIN carrito |-> nueva(j)]
  <2>1. carrito' = d
    BY <1>3 DEF Fijar
  <2>2. \A j \in DOMAIN carrito : carrito[j] \in Articulo
    BY <1>1
  <2>3. \A j \in DOMAIN carrito : nueva(j).id = carrito[j].id
    <3> HIDE DEF e
    <3> QED BY <2>2 DEF Articulo
  <2> HIDE DEF nueva
  <2>4. DOMAIN d = DOMAIN carrito /\ \A j \in DOMAIN carrito : d[j].id = carrito[j].id
    BY <2>3
  <2> HIDE DEF d
  <2> QED BY <2>1, <2>4, MismosUnicos
<1> QED BY <1>2, <1>3 DEF Continuar

LEMMA UnicosToque ==
    ASSUME CarritoInv, Unicos(carrito), Toque
    PROVE  Unicos(carrito')
<1>1. carrito \in Seq(Articulo) /\ Unicos(<<>>)
  BY CarritoTipo DEF Unicos
<1> DEFINE Quieto == UNCHANGED carrito
<1>2. ASSUME NEW p \in Productos, Escanear(p) \/ Elegir(p) PROVE Quieto
  BY <1>2 DEF Escanear, Elegir
<1>3. CASE Mover \/ Cerrar \/ AbrirPago \/ Rellenar \/ RellenarComprobante
  BY <1>3 DEF Mover, Cerrar, AbrirPago, Rellenar, RellenarComprobante, FueraDeDialogos
<1>4. CASE Suprimir
  <2>1. carrito' = ConSolo(Productos \ {carrito[sel + 1].id})
    BY <1>4 DEF Suprimir, Dejar
  <2> QED BY <1>1, <2>1, FilasUnicas DEF ConSolo
<1>5. ASSUME NEW d, Sumar(d) PROVE Unicos(carrito')
  BY <1>1, <1>5, UnicosPedida DEF Sumar
<1>6. CASE Cancelar \/ Confirmar \/ ConfirmarTecla
  <2>1. carrito' = <<>>
    BY <1>6 DEF Cancelar, Confirmar, ConfirmarTecla, Vender
  <2> QED BY <1>1, <2>1
<1>7. ASSUME NEW j, EditarFila(j) PROVE Unicos(carrito')
  BY <1>1, <1>7, UnicosPedida DEF EditarFila
<1>8. ASSUME NEW k, QuitarCombo(k) PROVE Unicos(carrito')
  <2>1. PICK Q : Dejar(Q)
    BY <1>8 DEF QuitarCombo
  <2>2. carrito' = ConSolo(Q)
    BY <2>1 DEF Dejar
  <2> QED BY <1>1, <2>2, FilasUnicas DEF ConSolo
<1>9. ASSUME NEW d, Abrir(d) PROVE Quieto
  BY <1>9 DEF Abrir, FueraDeDialogos
<1>10. ASSUME NEW p, AbrirDescuento(p) PROVE Quieto
  BY <1>10 DEF AbrirDescuento, FueraDeDialogos
<1>11. ASSUME NEW x \in Permitidos, AplicarDescuento(x) PROVE Unicos(carrito')
  <2> DEFINE k == Indice(carrito, objetivo)
             d == [carrito EXCEPT ![k].desc = x]
  <2>1. carrito' = d \/ carrito' = carrito
    BY <1>11 DEF AplicarDescuento
  <2>2. \A j \in DOMAIN carrito : carrito[j] \in Articulo
    BY <1>1
  <2>3. DOMAIN d = DOMAIN carrito /\ \A j \in DOMAIN carrito : d[j].id = carrito[j].id
    <3> HIDE DEF k
    <3> QED BY <2>2 DEF Articulo
  <2> HIDE DEF d
  <2> QED BY <2>1, <2>3, MismosUnicos
<1> QED BY <1>2, <1>3, <1>4, <1>5, <1>6, <1>7, <1>8, <1>9, <1>10, <1>11 DEF Toque

LEMMA UnicosSigue ==
    ASSUME CarritoInv, UnicosInv, [Next]_vars
    PROVE  UnicosInv'
<1>1. Unicos(carrito')
  <2>1. CASE Toque
    BY <2>1, UnicosToque DEF UnicosInv
  <2>2. CASE Llegada
    <3>1. PICK i \in 1 .. MaxEsperas : Respuesta(i) \/ Encontrar(i) \/ Continuar(i)
      BY <2>2 DEF Llegada
    <3>2. CASE Respuesta(i) \/ Encontrar(i)
      <4>1. carrito' = carrito
        BY <3>2 DEF Respuesta, Encontrar, ContadorSincronizado, LleganPromos
      <4> QED BY <4>1 DEF UnicosInv
    <3>3. CASE Continuar(i)
      BY <3>3, UnicosContinuar DEF UnicosInv
    <3> QED BY <3>1, <3>2, <3>3
  <2>3. CASE UNCHANGED vars
    BY <2>3 DEF vars, UnicosInv
  <2> QED BY <2>1, <2>2, <2>3 DEF Next
<1>2. total' = Total(promos', carrito')
  <2>1. CASE UNCHANGED <<carrito, promos, total>>
    BY <2>1 DEF UnicosInv
  <2>2. CASE EfectoPromos
    <3>1. CASE UNCHANGED <<carrito, promos>>
      BY <2>2, <3>1 DEF UnicosInv, EfectoPromos
    <3>2. CASE ~UNCHANGED <<carrito, promos>>
      BY <2>2, <3>2 DEF EfectoPromos
    <3> QED BY <3>1, <3>2
  <2> QED BY <2>1, <2>2 DEF Next, vars
<1>3. Total(promos', carrito') = Total(promos, carrito)' /\ Unicos(carrito') = Unicos(carrito)'
  BY DEF Unicos
<1> QED BY <1>1, <1>2, <1>3 DEF UnicosInv

LEMMA UnicosEmpieza == Init => UnicosInv
<1> SUFFICES ASSUME Init PROVE UnicosInv
  OBVIOUS
<1>1. carrito = <<>> /\ promos = <<>> /\ total = 0
  BY DEF Init
<1> DEFINE f == [i \in DOMAIN carrito |-> Subtotal(promos, carrito, i)]
<1>2. Total(promos, carrito) = SumFunction(f) /\ DOMAIN f = {}
  BY <1>1 DEF Total
<1> HIDE DEF f
<1>3. SumFunction(f) = SumFunctionOnSet(f, {})
  BY <1>2 DEF SumFunction, FoldFunction, SumFunctionOnSet
<1>4. Total(promos, carrito) = 0
  BY <1>2, <1>3, SumaVacia
<1> QED BY <1>1, <1>4 DEF UnicosInv, Unicos

(***************************************************************************)
(* Promotions by products, in a cart with no product twice.                *)
(***************************************************************************)

EnPromo(m, p) == \E x \in DOMAIN m.productos : m.productos[x] = p

Clasica(m) ==
    /\ m \in Promocion /\ m.modo = "clasico"
    /\ \A x, y \in DOMAIN m.productos : m.productos[x] = m.productos[y] => x = y

CarroUnico(c) == c \in Seq(Articulo) /\ Unicos(c)

DeUno(p, q) == [prods |-> {p}, cantidad |-> q]

LEMMA CantidadDe ==
    ASSUME NEW c, CarroUnico(c), NEW i \in DOMAIN c
    PROVE  Indice(c, c[i].id) = i /\ Cantidad(c, c[i].id) = c[i].cant
<1>1. EnCarrito(c, c[i].id)
  BY DEF EnCarrito
<1>2. c \in Seq(Articulo)
  BY DEF CarroUnico
<1>3. Indice(c, c[i].id) \in DOMAIN c /\ c[Indice(c, c[i].id)].id = c[i].id
  BY <1>1, <1>2, CantidadNat
<1>4. Indice(c, c[i].id) = i
  BY <1>3 DEF CarroUnico, Unicos
<1> QED BY <1>1, <1>4 DEF Cantidad

LEMMA JuntadasDeUno ==
    ASSUME NEW c, CarroUnico(c), NEW p \in Productos, NEW q \in Nat \ {0}
    PROVE  /\ DeUno(p, q) \in Grupo
           /\ Juntadas(DeUno(p, q), c, Len(c)) = Cantidad(c, p)
           /\ \A i \in DOMAIN c : c[i].id = p => Juntadas(DeUno(p, q), c, i - 1) = 0
<1> DEFINE g == DeUno(p, q)
           F(n) == [j \in 1 .. n |-> IF c[j].id \in g.prods THEN c[j].cant ELSE 0]
<1>1. c \in Seq(Articulo) /\ DOMAIN c = 1 .. Len(c) /\ Len(c) \in Nat
  BY DEF CarroUnico
<1>2. g.prods = {p} /\ g \in Grupo
  BY DEF DeUno, Grupo
<1>3. ASSUME NEW n \in 0 .. Len(c)
      PROVE  /\ Juntadas(g, c, n) = SumFunctionOnSet(F(n), 1 .. n) /\ IsFiniteSet(1 .. n)
             /\ \A j \in 1 .. n : F(n)[j] = IF c[j].id = p THEN c[j].cant ELSE 0
  <2> DEFINE f == F(n)
  <2>1. Juntadas(g, c, n) = SumFunction(f) /\ DOMAIN f = 1 .. n
    BY DEF Juntadas
  <2>2. \A j \in 1 .. n : f[j] = IF c[j].id = p THEN c[j].cant ELSE 0
    BY <1>2
  <2> HIDE DEF f
  <2>3. SumFunction(f) = SumFunctionOnSet(f, 1 .. n)
    BY <2>1 DEF SumFunction, FoldFunction, SumFunctionOnSet
  <2>4. n \in Int
    OBVIOUS
  <2> QED BY <2>1, <2>2, <2>3, <2>4, FS_Interval DEF f
<1>4. ASSUME NEW i \in DOMAIN c, c[i].id = p PROVE Juntadas(g, c, i - 1) = 0
  <2>1. i - 1 \in 0 .. Len(c) /\ \A j \in 1 .. (i - 1) : j \in DOMAIN c /\ j # i
    BY <1>1
  <2>2. \A j \in 1 .. (i - 1) : c[j].id # p
    BY <1>4, <2>1 DEF CarroUnico, Unicos
  <2> DEFINE f == F(i - 1)
  <2>3. /\ Juntadas(g, c, i - 1) = SumFunctionOnSet(f, 1 .. (i - 1)) /\ IsFiniteSet(1 .. (i - 1))
        /\ \A j \in 1 .. (i - 1) : f[j] = 0
    BY <1>3, <2>1, <2>2
  <2> HIDE DEF f, g
  <2> QED BY <2>3, SumaCero
<1>5. Juntadas(g, c, Len(c)) = Cantidad(c, p)
  <2> DEFINE f == F(Len(c))
             S == 1 .. Len(c)
  <2>1. /\ Juntadas(g, c, Len(c)) = SumFunctionOnSet(f, S) /\ IsFiniteSet(S) /\ S = DOMAIN c
        /\ \A j \in S : f[j] = IF c[j].id = p THEN c[j].cant ELSE 0
    <3>1. Len(c) \in 0 .. Len(c)
      BY <1>1
    <3> QED BY <1>1, <1>3, <3>1
  <2> HIDE DEF f, g, S
  <2>2. CASE EnCarrito(c, p)
    <3>1. PICK i \in S : c[i].id = p
      BY <2>1, <2>2 DEF EnCarrito
    <3>2. Cantidad(c, p) = c[i].cant /\ c[i].cant \in Int
      BY <1>1, <2>1, <3>1, CantidadDe, FilaTipo
    <3>3. \A j \in S : j # i => f[j] = 0
      BY <2>1, <3>1 DEF CarroUnico, Unicos
    <3>4. f[i] = c[i].cant
      BY <2>1, <3>1
    <3>5. SumFunctionOnSet(f, S) = f[i]
      BY <2>1, <3>2, <3>3, <3>4, SumaSola
    <3> QED BY <2>1, <3>2, <3>4, <3>5
  <2>3. CASE ~EnCarrito(c, p)
    <3>1. \A j \in S : f[j] = 0
      BY <2>1, <2>3 DEF EnCarrito
    <3>2. SumFunctionOnSet(f, S) = 0
      BY <2>1, <3>1, SumaCero
    <3> QED BY <2>1, <2>3, <3>2 DEF Cantidad
  <2> QED BY <2>2, <2>3
<1> QED BY <1>2, <1>4, <1>5

LEMMA GruposClasica ==
    ASSUME NEW m, Clasica(m)
    PROVE  /\ m.productos \in Seq(Productos) /\ m.cantidad \in Nat \ {0} /\ m.valor \in Nat
           /\ DOMAIN m.productos = 1 .. Len(m.productos) /\ Len(m.productos) \in Nat
           /\ \A x \in DOMAIN m.productos : m.productos[x] \in Productos
           /\ ~PorGrupos(m)
           /\ GruposDe(m) = [k \in DOMAIN m.productos |-> DeUno(m.productos[k], m.cantidad)]
<1>1. ~PorGrupos(m)
  BY DEF Clasica, PorGrupos
<1>2. GruposDe(m) = [k \in DOMAIN m.productos |-> DeUno(m.productos[k], m.cantidad)]
  BY <1>1 DEF GruposDe, DeUno
<1>3. m.productos \in Seq(Productos) /\ m.cantidad \in Nat \ {0} /\ m.valor \in Nat
  BY DEF Clasica, Promocion
<1>4. /\ DOMAIN m.productos = 1 .. Len(m.productos) /\ Len(m.productos) \in Nat
      /\ \A x \in DOMAIN m.productos : m.productos[x] \in Productos
  BY <1>3
<1> QED BY <1>1, <1>2, <1>3, <1>4

\* The sets of a promotion by products: those its scarcest product allows.
LEMMA ConjuntosClasica ==
    ASSUME NEW m, Clasica(m), NEW c, CarroUnico(c), m.productos # <<>>
    PROVE  Conjuntos(m, c)
               = Menor({Cantidad(c, m.productos[k]) \div m.cantidad : k \in DOMAIN m.productos})
<1> DEFINE ps == m.productos
           q == m.cantidad
           gs == GruposDe(m)
<1>1. /\ ps \in Seq(Productos) /\ q \in Nat \ {0} /\ \A x \in DOMAIN ps : ps[x] \in Productos
      /\ gs = [k \in DOMAIN ps |-> DeUno(ps[k], q)]
  BY GruposClasica
<1>2. gs # <<>>
  <2>1. DOMAIN ps # {}
    <3> HIDE DEF ps
    <3>1. ps # <<>>
      BY DEF ps
    <3>2. DOMAIN ps = 1 .. Len(ps) /\ Len(ps) \in Nat /\ Len(ps) # 0
      BY <1>1, <3>1, EmptySeq
    <3>3. 1 \in DOMAIN ps
      BY <3>2
    <3> QED BY <3>3
  <2>2. DOMAIN gs = DOMAIN ps
    BY <1>1
  <2>3. DOMAIN <<>> = {}
    OBVIOUS
  <2> HIDE DEF gs, ps
  <2> QED BY <2>1, <2>2, <2>3
<1>3. Conjuntos(m, c) = Menor({Juntadas(gs[k], c, Len(c)) \div gs[k].cantidad : k \in DOMAIN gs})
  BY <1>2 DEF Conjuntos
<1> HIDE DEF gs, ps, q
<1>4. \A k \in DOMAIN ps :
          /\ gs[k].cantidad = q
          /\ Juntadas(gs[k], c, Len(c)) = Cantidad(c, ps[k])
  <2> TAKE k \in DOMAIN ps
  <2>1. gs[k] = DeUno(ps[k], q)
    BY <1>1
  <2>2. gs[k].cantidad = q
    BY <2>1 DEF DeUno
  <2>3. Juntadas(DeUno(ps[k], q), c, Len(c)) = Cantidad(c, ps[k])
    BY <1>1, JuntadasDeUno
  <2> QED BY <2>1, <2>2, <2>3
<1>5. DOMAIN gs = DOMAIN ps
  BY <1>1
<1>6. {Juntadas(gs[k], c, Len(c)) \div gs[k].cantidad : k \in DOMAIN gs}
          = {Cantidad(c, ps[k]) \div q : k \in DOMAIN ps}
  BY <1>4, <1>5
<1> QED BY <1>3, <1>6 DEF ps, q

\* They are units of the cart: as many of each product as the sets ask for.
LEMMA ConjuntosTienen ==
    ASSUME NEW m, Clasica(m), NEW c, CarroUnico(c), NEW k \in DOMAIN m.productos
    PROVE  /\ Conjuntos(m, c) \in Nat
           /\ Conjuntos(m, c) * m.cantidad <= Cantidad(c, m.productos[k])
<1> DEFINE ps == m.productos
           q == m.cantidad
           T == {Cantidad(c, ps[j]) \div q : j \in DOMAIN ps}
           t == Menor(T)
<1>1. c \in Seq(Articulo) /\ q \in Nat \ {0} /\ ps # <<>>
  <2>1. DOMAIN <<>> = {}
    OBVIOUS
  <2> QED BY <2>1, GruposClasica DEF CarroUnico
<1>2. Conjuntos(m, c) = t
  BY <1>1, ConjuntosClasica
<1> HIDE DEF ps, q
<1>3. ASSUME NEW j \in DOMAIN ps
      PROVE Cantidad(c, ps[j]) \in Nat /\ Cantidad(c, ps[j]) \div q \in Nat
  <2>1. Cantidad(c, ps[j]) \in Nat
    BY <1>1, CantidadNat
  <2> QED BY <1>1, <2>1, DivNat
<1>4. k \in DOMAIN ps
  BY DEF ps
<1>5. T \subseteq Nat /\ T # {}
  BY <1>3, <1>4
<1>6. t \in T /\ \A y \in T : t <= y
  <2> HIDE DEF T
  <2> QED BY <1>5, MenorEs
<1>7. t \in Nat /\ t <= Cantidad(c, ps[k]) \div q
  <2> HIDE DEF t
  <2> QED BY <1>4, <1>5, <1>6
<1> HIDE DEF t
<1>8. t * q <= Cantidad(c, ps[k])
  <2>1. Cantidad(c, ps[k]) \in Nat
    BY <1>3, <1>4
  <2> QED BY <1>1, <1>7, <2>1, CabeEnCociente
<1> QED BY <1>2, <1>7, <1>8 DEF ps, q

\* The units that the sets take of an item: none, or as many as each product gives.
LEMMA DescontadasClasica ==
    ASSUME NEW m, Clasica(m), NEW c, CarroUnico(c), NEW i \in DOMAIN c
    PROVE  Descontadas(m, c, Conjuntos(m, c), i)
               = IF EnPromo(m, c[i].id) THEN Conjuntos(m, c) * m.cantidad ELSE 0
<1> DEFINE ps == m.productos
           q == m.cantidad
           gs == GruposDe(m)
           n == Conjuntos(m, c)
           a == c[i].id
           b == c[i].cant
           toma(g) == IF a \notin g.prods THEN 0
                      ELSE Mayor({0, Menor({b, n * g.cantidad - Juntadas(g, c, i - 1)})})
           S == DOMAIN ps
           f == [k \in DOMAIN gs |-> toma(gs[k])]
<1>1. /\ ps \in Seq(Productos) /\ q \in Nat \ {0} /\ \A x \in S : ps[x] \in Productos
      /\ gs = [k \in S |-> DeUno(ps[k], q)]
  BY GruposClasica
<1>2. c \in Seq(Articulo) /\ b \in Nat /\ n \in Nat /\ m \in Promocion
  <2>1. c \in Seq(Articulo) /\ m \in Promocion
    BY DEF CarroUnico, Clasica
  <2> QED BY <2>1, FilaTipo, ConjuntosNat
<1>3. IsFiniteSet(S)
  <2> HIDE DEF ps
  <2> QED BY <1>1, FS_Interval
<1>4. Descontadas(m, c, n, i) = SumFunction(f) /\ DOMAIN gs = S
  BY <1>1 DEF Descontadas
<1>5. ASSUME NEW k \in S PROVE f[k] = IF ps[k] = a THEN n * q ELSE 0
  <2> DEFINE g == DeUno(ps[k], q)
  <2>1. gs[k] = g /\ g.prods = {ps[k]} /\ g.cantidad = q /\ f[k] = toma(gs[k])
    BY <1>1, <1>4 DEF DeUno
  <2>2. CASE ps[k] # a
    BY <2>1, <2>2
  <2>3. CASE ps[k] = a
    <3> DEFINE j == Juntadas(g, c, i - 1)
               z == n * q - j
               y == Menor({b, z})
    <3>1. j = 0
      BY <1>1, <2>3, JuntadasDeUno
    <3>2. n * q \in Nat /\ n * q <= b
      <4>1. n * q <= Cantidad(c, ps[k])
        BY ConjuntosTienen
      <4>2. Cantidad(c, a) = b
        BY CantidadDe
      <4>3. n * q \in Nat
        <5> HIDE DEF n, q
        <5> QED BY <1>1, <1>2
      <4> QED BY <2>3, <4>1, <4>2, <4>3
    <3>3. f[k] = Mayor({0, y})
      BY <2>1, <2>3
    <3> HIDE DEF j, g, f, b, n, q, a
    <3>4. z = n * q /\ z \in Nat /\ z <= b
      BY <3>1, <3>2
    <3> HIDE DEF z
    <3>5. y = z
      <4>1. b \in Int /\ z \in Int
        BY <1>2, <3>4
      <4>2. y \in {b, z} /\ y <= b /\ y <= z
        BY <4>1, MenorDeDos
      <4> HIDE DEF y
      <4> QED BY <3>4, <4>1, <4>2
    <3> HIDE DEF y
    <3>6. Mayor({0, y}) = y
      <4>1. Mayor({0, y}) \in {0, y} /\ Mayor({0, y}) >= y /\ Mayor({0, y}) \in Nat
        BY <3>4, <3>5, MayorDeCero
      <4> QED BY <3>4, <3>5, <4>1
    <3> QED BY <2>3, <3>3, <3>4, <3>5, <3>6
  <2> QED BY <2>2, <2>3
<1>6. EnPromo(m, a) <=> \E k \in S : ps[k] = a
  BY DEF EnPromo
<1>7. \A x, y \in S : ps[x] = ps[y] => x = y
  BY DEF Clasica
<1>8. DOMAIN f = S
  BY <1>4
<1>9. n * q \in Nat
  <2> HIDE DEF n, q
  <2> QED BY <1>1, <1>2
<1> HIDE DEF f, S, n, q, ps, gs, a
<1>10. SumFunction(f) = SumFunctionOnSet(f, S)
  BY <1>8 DEF SumFunction, FoldFunction, SumFunctionOnSet
<1>11. CASE EnPromo(m, a)
  <2>1. PICK k \in S : ps[k] = a
    BY <1>6, <1>11
  <2>2. f[k] = n * q
    BY <1>5, <2>1
  <2>3. \A x \in S : x # k => f[x] = 0
    BY <1>5, <1>7, <2>1
  <2>4. f[k] \in Int
    BY <1>9, <2>2
  <2>5. SumFunctionOnSet(f, S) = f[k]
    BY <1>3, <2>3, <2>4, SumaSola
  <2> QED BY <1>4, <1>10, <1>11, <2>2, <2>5 DEF n, q, a
<1>12. CASE ~EnPromo(m, a)
  <2>1. \A x \in S : f[x] = 0
    BY <1>5, <1>6, <1>12
  <2>2. SumFunctionOnSet(f, S) = 0
    BY <1>3, <2>1, SumaCero
  <2> QED BY <1>4, <1>10, <1>12, <2>2 DEF n, a
<1> QED BY <1>11, <1>12

(***************************************************************************)
(* Separate promotions: the table and the total.                           *)
(***************************************************************************)

\* A cart and promotions in their usual form, the promotions separate.
Aparte == CarroUnico(carrito) /\ promos \in Seq(Promocion) /\ Separadas

\* The sets of the row of the k-th promotion.
Sets(k) == ConjuntosFila(promos[k], Quedan(promos, carrito)[k - 1])

LEMMA ActivaEs ==
    ASSUME Aparte, NEW k \in DOMAIN promos, promos[k].activa
    PROVE  /\ Clasica(promos[k]) /\ SinRepetir(promos[k])
           /\ promos[k].tipo \in {"porcentaje", "monto_fijo"}
           /\ promos[k].tipo = "porcentaje" => promos[k].valor <= 100
           /\ Servidos(promos[k]) = Conjuntos(promos[k], carrito)
           /\ DivideExacto(promos[k], Conjuntos(promos[k], carrito))
           /\ SinSobrante(promos[k], Conjuntos(promos[k], carrito))
<1> DEFINE m == promos[k]
<1>1. m \in Promocion /\ carrito \in Seq(Articulo)
  BY DEF Aparte, CarroUnico
<1>2. /\ m.modo = "clasico" /\ m.tipo # "precio_fijo_combo"
      /\ m.tipo = "porcentaje" => m.valor <= 100
      /\ DivideExacto(m, Servidos(m)) /\ SinSobrante(m, Servidos(m))
  BY DEF Aparte, Separadas
<1>3. \A x, y \in DOMAIN m.productos : m.productos[x] = m.productos[y] => x = y
  <2> TAKE x, y \in DOMAIN m.productos
  <2>1. k \in {n \in DOMAIN promos : promos[n].activa}
    OBVIOUS
  <2> QED BY <2>1 DEF Aparte, Separadas
<1>4. m.tipo \in {"porcentaje", "monto_fijo", "precio_fijo_combo"}
  BY <1>1 DEF Promocion
<1>5. Servidos(m) = Conjuntos(m, carrito)
  BY <1>1, ServidosSon
<1> HIDE DEF m
<1>6. Clasica(m)
  BY <1>1, <1>2, <1>3 DEF Clasica
<1>7. SinRepetir(m)
  <2>1. GruposDe(m) = [x \in DOMAIN m.productos |-> DeUno(m.productos[x], m.cantidad)]
    BY <1>6, GruposClasica
  <2>2. DOMAIN GruposDe(m) = DOMAIN m.productos
    BY <2>1
  <2>3. \A x \in DOMAIN m.productos : GruposDe(m)[x].prods = {m.productos[x]}
    BY <2>1 DEF DeUno
  <2>4. ASSUME NEW i \in DOMAIN carrito, NEW x \in DOMAIN GruposDe(m), NEW y \in DOMAIN GruposDe(m),
               carrito[i].id \in GruposDe(m)[x].prods, carrito[i].id \in GruposDe(m)[y].prods
        PROVE  x = y
    <3>1. x \in DOMAIN m.productos /\ y \in DOMAIN m.productos
      BY <2>2, <2>4
    <3>2. carrito[i].id = m.productos[x] /\ carrito[i].id = m.productos[y]
      BY <2>3, <2>4, <3>1
    <3> QED BY <1>3, <3>1, <3>2
  <2> QED BY <2>4 DEF SinRepetir
<1> QED BY <1>2, <1>4, <1>5, <1>6, <1>7 DEF m

\* Two active promotions have no product in common.
LEMMA SinComunes ==
    ASSUME Aparte, NEW j \in DOMAIN promos, NEW k \in DOMAIN promos,
           promos[j].activa, promos[k].activa,
           NEW p, EnPromo(promos[j], p), EnPromo(promos[k], p)
    PROVE  j = k
<1>1. PICK x \in DOMAIN promos[j].productos : promos[j].productos[x] = p
  BY DEF EnPromo
<1>2. PICK y \in DOMAIN promos[k].productos : promos[k].productos[y] = p
  BY DEF EnPromo
<1>3. j \in {n \in DOMAIN promos : promos[n].activa} /\ k \in {n \in DOMAIN promos : promos[n].activa}
  OBVIOUS
<1> QED BY <1>1, <1>2, <1>3 DEF Aparte, Separadas

\* A row that takes units is that of an active promotion.
LEMMA SetsEs ==
    ASSUME Aparte, NEW k \in DOMAIN promos
    PROVE  Sets(k) \in Nat /\ (Sets(k) # 0 => promos[k].activa /\ ConFila(promos[k]))
<1>1. promos \in Seq(Promocion) /\ carrito \in Seq(Articulo)
  BY DEF Aparte, CarroUnico
<1>2. promos[k] \in Promocion /\ k - 1 \in 0 .. Len(promos)
  BY <1>1
<1>3. Quedan(promos, carrito)[k - 1] \in [Productos -> Nat]
  BY <1>1, <1>2, QuedanNat
<1>4. Sets(k) \in Nat
  BY <1>2, <1>3, ConjuntosFilaNat DEF Sets
<1>5. Sets(k) # 0 => ConFila(promos[k])
  BY DEF Sets, ConjuntosFila
<1> QED BY <1>4, <1>5 DEF ConFila

\* The rows above that of a promotion leave its products alone.
LEMMA QuedaEntero ==
    ASSUME Aparte, NEW k \in DOMAIN promos, promos[k].activa,
           NEW p \in Productos, EnPromo(promos[k], p)
    PROVE  /\ \A j \in 1 .. (k - 1) : ~(EnPromo(promos[j], p) /\ Sets(j) # 0)
           /\ Quedan(promos, carrito)[k - 1][p] = Cantidad(carrito, p)
<1> DEFINE Q(n) == Quedan(promos, carrito)[n]
           Mal == {n \in 0 .. (k - 1) : Q(n)[p] # Cantidad(carrito, p)}
<1>1. promos \in Seq(Promocion) /\ carrito \in Seq(Articulo)
  BY DEF Aparte, CarroUnico
<1>2. k \in Nat \ {0} /\ k <= Len(promos) /\ Len(promos) \in Nat /\ DOMAIN promos = 1 .. Len(promos)
  BY <1>1
<1>3. \A j \in 1 .. (k - 1) : j \in DOMAIN promos /\ j # k
  BY <1>2
<1>4. ASSUME NEW j \in 1 .. (k - 1), EnPromo(promos[j], p), Sets(j) # 0 PROVE FALSE
  <2>1. j \in DOMAIN promos /\ j # k
    BY <1>3
  <2>2. promos[j].activa
    BY <1>4, <2>1, SetsEs
  <2> QED BY <1>4, <2>1, <2>2, SinComunes
<1>5. Mal = {}
  <2>1. SUFFICES ASSUME Mal # {} PROVE FALSE
    OBVIOUS
  <2>2. Mal \subseteq Nat
    BY <1>2
  <2>3. PICK n \in Mal : \A t \in Mal : n <= t
    <3> HIDE DEF Mal
    <3> QED BY <2>1, <2>2, Minimo
  <2>4. n \in 0 .. (k - 1) /\ Q(n)[p] # Cantidad(carrito, p)
    OBVIOUS
  <2>5. n # 0
    <3>1. Q(0) = [x \in Productos |-> Cantidad(carrito, x)]
      BY <1>1, QuedanEs
    <3>2. Q(0)[p] = Cantidad(carrito, p)
      BY <3>1
    <3> HIDE DEF Q, Mal
    <3> QED BY <2>4, <3>2
  <2>6. n \in 1 .. (k - 1) /\ n \in 1 .. Len(promos) /\ n - 1 \in 0 .. (k - 1) /\ ~(n <= n - 1)
    BY <1>2, <2>4, <2>5
  <2>7. n - 1 \notin Mal
    <3> HIDE DEF Mal
    <3> QED BY <2>3, <2>6
  <2>8. Q(n - 1)[p] = Cantidad(carrito, p)
    BY <2>6, <2>7
  <2>9. Q(n) = [x \in Productos |->
                   IF \E j \in DOMAIN promos[n].productos : promos[n].productos[j] = x
                   THEN Q(n - 1)[x] - ConjuntosFila(promos[n], Q(n - 1)) * promos[n].cantidad
                   ELSE Q(n - 1)[x]]
    BY <1>1, <2>6, QuedanEs
  <2>10. Q(n)[p] = IF EnPromo(promos[n], p)
                   THEN Q(n - 1)[p] - Sets(n) * promos[n].cantidad ELSE Q(n - 1)[p]
    <3> HIDE DEF Mal
    <3> QED BY <2>9 DEF EnPromo, Sets
  <2>11. Q(n - 1)[p] \in Nat /\ promos[n].cantidad \in Nat
    <3>1. Q(n - 1) \in [Productos -> Nat]
      <4>1. n - 1 \in 0 .. Len(promos)
        BY <1>2, <2>6
      <4> QED BY <1>1, <4>1, QuedanNat
    <3>2. promos[n] \in Promocion
      BY <1>1, <2>6
    <3> HIDE DEF Q
    <3> QED BY <3>1, <3>2 DEF Promocion
  <2>12. ~EnPromo(promos[n], p) \/ Sets(n) = 0
    BY <1>4, <2>6
  <2> HIDE DEF Q, Mal
  <2>13. Q(n)[p] = Q(n - 1)[p]
    <3>1. 0 * promos[n].cantidad = 0 /\ Q(n - 1)[p] - 0 = Q(n - 1)[p]
      BY <2>11
    <3> QED BY <2>10, <2>12, <3>1
  <2> QED BY <2>4, <2>8, <2>13
<1>6. k - 1 \in 0 .. (k - 1)
  BY <1>2
<1>7. Q(k - 1)[p] = Cantidad(carrito, p)
  BY <1>5, <1>6
<1> QED BY <1>4, <1>7

\* So its row has all the sets of the cart.
LEMMA SetsDeFila ==
    ASSUME Aparte, NEW k \in DOMAIN promos, Sets(k) # 0
    PROVE  Sets(k) = Conjuntos(promos[k], carrito)
<1> DEFINE m == promos[k]
           q == Quedan(promos, carrito)[k - 1]
<1>1. m.activa /\ ConFila(m)
  BY SetsEs
<1>2. Clasica(m) /\ CarroUnico(carrito)
  BY <1>1, ActivaEs DEF Aparte
<1>3. m.productos # <<>>
  <2>1. Len(m.productos) > 1
    BY <1>1 DEF ConFila
  <2>2. Len(<<>>) = 0
    OBVIOUS
  <2> QED BY <2>1, <2>2
<1>4. \A x \in DOMAIN m.productos : q[m.productos[x]] = Cantidad(carrito, m.productos[x])
  <2> TAKE x \in DOMAIN m.productos
  <2>1. m.productos[x] \in Productos
    BY <1>2, GruposClasica
  <2>2. EnPromo(m, m.productos[x])
    BY DEF EnPromo
  <2> QED BY <1>1, <2>1, <2>2, QuedaEntero
<1>5. Sets(k) = Menor({q[m.productos[x]] \div m.cantidad : x \in DOMAIN m.productos})
  BY <1>1 DEF Sets, ConjuntosFila
<1>6. {q[m.productos[x]] \div m.cantidad : x \in DOMAIN m.productos}
          = {Cantidad(carrito, m.productos[x]) \div m.cantidad : x \in DOMAIN m.productos}
  <2> HIDE DEF m, q
  <2> QED BY <1>4
<1>7. Conjuntos(m, carrito)
          = Menor({Cantidad(carrito, m.productos[x]) \div m.cantidad : x \in DOMAIN m.productos})
  BY <1>2, <1>3, ConjuntosClasica
<1> QED BY <1>5, <1>6, <1>7

\* A promotion gives nothing to an item that is not among its products.
LEMMA AjenaNada ==
    ASSUME Aparte, NEW k \in DOMAIN promos, NEW i \in DOMAIN carrito,
           ~(promos[k].activa /\ EnPromo(promos[k], carrito[i].id))
    PROVE  PctSolo(promos[k], carrito, i) = 0
<1> DEFINE m == promos[k]
           n == Conjuntos(m, carrito)
<1>1. CASE ~m.activa
  BY <1>1 DEF PctSolo
<1>2. CASE m.activa
  <2>1. Clasica(m) /\ CarroUnico(carrito) /\ carrito \in Seq(Articulo)
    BY <1>2, ActivaEs DEF Aparte, CarroUnico
  <2>2. Descontadas(m, carrito, n, i) = 0
    BY <1>2, <2>1, DescontadasClasica
  <2>3. carrito[i].cant \in Nat \ {0} /\ m.valor \in Nat
    BY <2>1, FilaTipo, GruposClasica
  <2>4. (m.valor * Escala * 0) \div carrito[i].cant = 0
    <3>1. m.valor * Escala * 0 = 0
      BY <2>3, EscalaPositiva
    <3>2. 0 \div carrito[i].cant = 0
      BY <2>3
    <3> QED BY <3>1, <3>2
  <2>5. PctDe(m, carrito, n, i) = 0
    BY <2>2, <2>4 DEF PctDe
  <2> QED BY <1>2, <2>5 DEF PctSolo
<1> QED BY <1>1, <1>2

\* An item has the discount of its promotion, whatever the others are.
LEMMA PctUnica ==
    ASSUME Aparte, NEW k \in DOMAIN promos, promos[k].activa,
           NEW i \in DOMAIN carrito, EnPromo(promos[k], carrito[i].id)
    PROVE  PctPromo(promos, carrito, i) = PctPromo(<<promos[k]>>, carrito, i)
<1> DEFINE e == PctPromo(promos, carrito, i)
           q(j) == Menor({Cien, PctSolo(promos[j], carrito, i)})
<1>1. promos \in Seq(Promocion) /\ carrito \in Seq(Articulo) /\ promos[k] \in Promocion
  BY DEF Aparte, CarroUnico
<1>2. /\ e \in Ofertas(promos, carrito, i) /\ Ofertas(promos, carrito, i) \subseteq 0 .. Cien
      /\ \A y \in Ofertas(promos, carrito, i) : e >= y
  BY <1>1, PctPromoEs
<1>3. q(k) \in Ofertas(promos, carrito, i)
  BY DEF Ofertas
<1>4. ASSUME NEW j \in DOMAIN promos, j # k PROVE q(j) = 0
  <2>1. ~(promos[j].activa /\ EnPromo(promos[j], carrito[i].id))
    BY <1>4, SinComunes
  <2>2. PctSolo(promos[j], carrito, i) = 0
    BY <2>1, AjenaNada
  <2>3. Cien \in Nat /\ 0 \in Int /\ Cien \in Int
    BY EscalaPositiva
  <2>4. Menor({Cien, 0}) \in {Cien, 0} /\ Menor({Cien, 0}) <= Cien /\ Menor({Cien, 0}) <= 0
    BY <2>3, MenorDeDos
  <2> QED BY <2>2, <2>3, <2>4
<1>5. e = 0 \/ e = q(k)
  <2>1. e = 0 \/ \E j \in DOMAIN promos : e = q(j)
    BY <1>2 DEF Ofertas
  <2> HIDE DEF e, q
  <2> QED BY <1>4, <2>1
<1>6. q(k) \in 0 .. Cien /\ e >= q(k) /\ e \in 0 .. Cien
  BY <1>2, <1>3
<1>7. PctPromo(<<promos[k]>>, carrito, i) = q(k)
  BY <1>1, UnaSola
<1> HIDE DEF e, q
<1>8. Cien \in Nat
  BY EscalaPositiva
<1>9. e = q(k)
  BY <1>5, <1>6, <1>8
<1> QED BY <1>7, <1>9 DEF e

\* A part v of 100 of the units u of q: what is taken off is that part of their price.
Parte(v, q, u) == (v * Escala * u) \div q
ParteExacta(v, q, u) == (v * Escala * u) % q = 0

LEMMA ParteCabe ==
    ASSUME NEW v \in 0 .. 100, NEW q \in Nat \ {0}, NEW u \in 0 .. q
    PROVE  Parte(v, q, u) \in 0 .. Cien
<1> DEFINE w == v * Escala
           a == w * u
<1>1. w \in 0 .. Cien
  BY ManualEs
<1>2. u \in Nat /\ q - u \in Nat /\ Cien \in Nat \ {0}
  BY EscalaPositiva
<1>3. Parte(v, q, u) = a \div q
  BY DEF Parte
<1> HIDE DEF w
<1>4. w \in Nat /\ Cien - w \in Nat
  BY <1>1, <1>2
<1>5. a \in Nat /\ ~((Cien + 1) * q <= a)
  <2> DEFINE x == w * (q - u)
             y == (Cien - w) * q
  <2>1. a \in Nat /\ x \in Nat /\ y \in Nat
    BY <1>2, <1>4
  <2>2. (Cien + 1) * q = a + x + y + q
    BY <1>2, <1>4
  <2> HIDE DEF a, x, y
  <2> QED BY <2>1, <2>2
<1> HIDE DEF a
<1>6. a \div q \in Nat
  BY <1>5, DivNat
<1>7. (Cien + 1) * q <= a <=> Cien + 1 <= a \div q
  <2>1. Cien + 1 \in Nat
    BY <1>2
  <2> QED BY <1>5, <2>1, CabeEnCociente
<1> QED BY <1>2, <1>3, <1>5, <1>6, <1>7

LEMMA RebajaDePorcentaje ==
    ASSUME NEW v \in 0 .. 100, NEW q \in Nat \ {0}, NEW u \in 0 .. q, NEW p \in Nat,
           ParteExacta(v, q, u), QuedaExacto(q, p, Parte(v, q, u))
    PROVE  /\ q * p - Rebajado(q * p, Parte(v, q, u)) \in Nat
           /\ Cien * (q * p - Rebajado(q * p, Parte(v, q, u))) = (v * Escala) * (p * u)
<1> DEFINE w == v * Escala
           a == w * u
           k == Parte(v, q, u)
<1>1. w \in Nat /\ u \in Nat /\ k \in 0 .. Cien
  <2>1. k \in 0 .. Cien
    BY ParteCabe
  <2> HIDE DEF k
  <2> QED BY <2>1, EscalaPositiva
<1>2. a \in Nat /\ a % q = 0 /\ k = a \div q
  BY <1>1 DEF ParteExacta, Parte
<1>3. (q * p * (Cien - k)) % Cien = 0
  BY DEF QuedaExacto
<1> HIDE DEF w, k
<1>4. k \in Nat /\ k * q = a
  <2> HIDE DEF a
  <2> QED BY <1>2, CocienteExacto
<1>5. q * p \in Nat
  OBVIOUS
<1>6. q * p - Rebajado(q * p, k) \in Nat /\ Cien * (q * p - Rebajado(q * p, k)) = q * p * k
  BY <1>1, <1>3, <1>5, RebajaExacta
<1>7. q * p * k = w * (p * u)
  <2>1. q * p * k = p * (k * q)
    BY <1>4
  <2>2. p * a = w * (p * u)
    BY <1>1
  <2> QED BY <1>4, <2>1, <2>2
<1> QED BY <1>6, <1>7 DEF k, w

\* What a percentage takes off an item.
LEMMA QuitaPorcentaje ==
    ASSUME Aparte, NEW k \in DOMAIN promos, promos[k].activa, promos[k].tipo = "porcentaje",
           NEW n \in Nat \ {0}, n = Conjuntos(promos[k], carrito), NEW i \in DOMAIN carrito
    PROVE  /\ Quita(promos[k], i) \in Nat
           /\ Cien * Quita(promos[k], i)
                  = (promos[k].valor * Escala)
                        * (Precio[carrito[i].id] * Descontadas(promos[k], carrito, n, i))
<1> DEFINE m == promos[k]
           u == Descontadas(m, carrito, n, i)
           p == Precio[carrito[i].id]
           q == carrito[i].cant
           v == m.valor
           e == PctPromo(<<m>>, carrito, i)
<1>1. /\ carrito \in Seq(Articulo) /\ m \in Promocion /\ Clasica(m) /\ SinRepetir(m)
      /\ v \in Nat /\ v <= 100 /\ DivideExacto(m, n)
  BY ActivaEs, GruposClasica DEF Aparte, CarroUnico
<1>2. q \in Nat \ {0} /\ p \in Nat /\ u \in 0 .. q
  BY <1>1, FilaTipo, PromocionesConstantes, DescontadasCaben
<1>3. ParteExacta(v, q, u) /\ QuedaExacto(q, p, e)
  BY <1>1 DEF DivideExacto, ParteExacta, QuedaExacto
<1>4. PctSolo(m, carrito, i) = Parte(v, q, u)
  BY DEF PctSolo, PctDe, Parte
<1>5. e = Menor({Cien, Parte(v, q, u)})
  BY <1>1, <1>4, UnaSola
<1>6. v \in 0 .. 100
  <2> HIDE DEF v
  <2> QED BY <1>1
<1>7. Quita(m, i) = q * p - Rebajado(q * p, e)
  BY DEF Quita
<1> HIDE DEF u, p, q, v, e, m
<1>8. Parte(v, q, u) \in 0 .. Cien /\ Cien \in Nat
  BY <1>2, <1>6, ParteCabe, EscalaPositiva
<1>9. Menor({Cien, Parte(v, q, u)}) \in {Cien, Parte(v, q, u)}
      /\ Menor({Cien, Parte(v, q, u)}) <= Parte(v, q, u)
  <2>1. Cien \in Int /\ Parte(v, q, u) \in Int
    BY <1>8
  <2> QED BY <2>1, MenorDeDos
<1>10. e = Parte(v, q, u)
  BY <1>5, <1>8, <1>9
<1>11. QuedaExacto(q, p, Parte(v, q, u)) /\ ParteExacta(v, q, u)
  BY <1>3, <1>10
<1>12. /\ q * p - Rebajado(q * p, Parte(v, q, u)) \in Nat
       /\ Cien * (q * p - Rebajado(q * p, Parte(v, q, u))) = (v * Escala) * (p * u)
  BY <1>2, <1>6, <1>11, RebajaDePorcentaje
<1> QED BY <1>7, <1>10, <1>12 DEF m, u, p, v

\* What the units that the sets of m take of the i-th item cost.
Cuesta(m, i) == Precio[carrito[i].id] * Descontadas(m, carrito, Conjuntos(m, carrito), i)

\* A row costs what its sets cost, less what its promotion takes off the items.
LEMMA ValorDeFila ==
    ASSUME Aparte, NEW k \in DOMAIN promos, Sets(k) # 0
    PROVE  LET m == promos[k] IN
           /\ SumFunction([x \in DOMAIN m.productos |->
                              Precio[m.productos[x]] * Sets(k) * m.cantidad])
                  = ValorCombo(m, carrito, Conjuntos(m, carrito))
           /\ ValorCombo(m, carrito, Conjuntos(m, carrito))
                  = SumFunctionOnSet([i \in DOMAIN carrito |-> Cuesta(m, i)], DOMAIN carrito)
           /\ \A i \in DOMAIN carrito : Cuesta(m, i) \in Nat
<1> DEFINE m == promos[k]
           n == Sets(k)
           ps == m.productos
           q == m.cantidad
           S == DOMAIN ps
           T == DOMAIN carrito
           V == ValorCombo(m, carrito, n)
           f == [x \in S |-> Precio[ps[x]] * n * q]
           g == [i \in T |-> Precio[carrito[i].id] * Descontadas(m, carrito, n, i)]
           b == [x \in S |-> Indice(carrito, ps[x])]
<1>1. /\ n \in Nat \ {0} /\ n = Conjuntos(m, carrito) /\ Clasica(m) /\ CarroUnico(carrito)
      /\ carrito \in Seq(Articulo) /\ m \in Promocion
  BY SetsEs, SetsDeFila, ActivaEs DEF Aparte, CarroUnico
<1> HIDE DEF n
<1>2. /\ ps \in Seq(Productos) /\ q \in Nat \ {0} /\ \A x \in S : ps[x] \in Productos
      /\ \A x, y \in S : ps[x] = ps[y] => x = y
  BY <1>1, GruposClasica DEF Clasica
<1>3. IsFiniteSet(S) /\ IsFiniteSet(T) /\ DOMAIN f = S /\ DOMAIN g = T
  <2>1. IsFiniteSet(S) /\ IsFiniteSet(T)
    <3>1. IsFiniteSet(S)
      <4> HIDE DEF ps
      <4> QED BY <1>2, FS_Interval
    <3>2. IsFiniteSet(T)
      BY <1>1, FS_Interval
    <3> QED BY <3>1, <3>2
  <2> QED BY <2>1
<1>4. V = SumFunction(g)
  BY DEF ValorCombo
<1>5. ASSUME NEW i \in T
      PROVE  /\ g[i] = IF EnPromo(m, carrito[i].id) THEN Precio[carrito[i].id] * (n * q) ELSE 0
             /\ g[i] \in Nat /\ g[i] = Cuesta(m, i)
  <2>1. Precio[carrito[i].id] \in Nat
    BY <1>1, FilaTipo, PromocionesConstantes
  <2>2. Descontadas(m, carrito, n, i) = IF EnPromo(m, carrito[i].id) THEN n * q ELSE 0
    BY <1>1, DescontadasClasica
  <2>3. g[i] = Precio[carrito[i].id] * Descontadas(m, carrito, n, i)
    OBVIOUS
  <2>4. g[i] = Cuesta(m, i)
    BY <1>1, <2>3 DEF Cuesta
  <2>5. n * q \in Nat
    BY <1>1, <1>2
  <2> DEFINE p == Precio[carrito[i].id]
             z == n * q
             u == Descontadas(m, carrito, n, i)
  <2> HIDE DEF g, p, z, u
  <2>6. p \in Nat /\ z \in Nat /\ g[i] = p * u /\ u = IF EnPromo(m, carrito[i].id) THEN z ELSE 0
    BY <2>1, <2>2, <2>3, <2>5 DEF p, z, u
  <2>7. g[i] = (IF EnPromo(m, carrito[i].id) THEN p * z ELSE 0) /\ g[i] \in Nat
    BY <2>6
  <2> QED BY <2>4, <2>7 DEF p, z
<1>6. ASSUME NEW x \in S
      PROVE  b[x] \in T /\ carrito[b[x]].id = ps[x] /\ f[x] = g[b[x]]
  <2>1. n * q <= Cantidad(carrito, ps[x])
    BY <1>1, ConjuntosTienen
  <2>2. n * q \in Nat \ {0}
    BY <1>1, <1>2, PorPositivos
  <2>3. EnCarrito(carrito, ps[x])
    <3> SUFFICES ASSUME ~EnCarrito(carrito, ps[x]) PROVE FALSE
      OBVIOUS
    <3>1. Cantidad(carrito, ps[x]) = 0
      BY DEF Cantidad
    <3> QED BY <2>1, <2>2, <3>1
  <2>4. b[x] \in T /\ carrito[b[x]].id = ps[x]
    BY <1>1, <2>3, CantidadNat
  <2>5. EnPromo(m, carrito[b[x]].id)
    BY <2>4 DEF EnPromo
  <2>6. g[b[x]] = Precio[ps[x]] * (n * q)
    <3> HIDE DEF g, b, m, ps, q
    <3> QED BY <1>5, <2>4, <2>5
  <2>7. f[x] = Precio[ps[x]] * n * q
    OBVIOUS
  <2>8. Precio[ps[x]] \in Nat
    BY <1>2, PromocionesConstantes
  <2> DEFINE p == Precio[ps[x]]
  <2> HIDE DEF p, f, g, b, q
  <2>9. p * n * q = p * (n * q)
    BY <1>1, <1>2, <2>8 DEF p
  <2> QED BY <2>4, <2>6, <2>7, <2>9 DEF p
<1>7. ASSUME NEW i \in T, \A x \in S : b[x] # i PROVE g[i] = 0
  <2>1. ~EnPromo(m, carrito[i].id)
    <3> SUFFICES ASSUME NEW x \in S, ps[x] = carrito[i].id PROVE FALSE
      BY DEF EnPromo
    <3>1. b[x] \in T /\ carrito[b[x]].id = carrito[i].id
      BY <1>6
    <3>2. b[x] = i
      <4> HIDE DEF b
      <4> QED BY <1>1, <3>1 DEF CarroUnico, Unicos
    <3> QED BY <1>7, <3>2
  <2> QED BY <1>5, <2>1
<1>8. \A x, y \in S : b[x] = b[y] => x = y
  <2>1. \A x \in S : carrito[b[x]].id = ps[x]
    BY <1>6
  <2> HIDE DEF b, ps
  <2> QED BY <1>2, <2>1
<1>9. \A i \in T : g[i] \in Int
  BY <1>5
<1>10. SumFunctionOnSet(f, S) = SumFunctionOnSet(g, T)
  <2> HIDE DEF f, g, b, S, T
  <2> QED BY <1>3, <1>6, <1>7, <1>8, <1>9, SumaReindexa
<1>11. SumFunction(f) = SumFunctionOnSet(f, S) /\ SumFunction(g) = SumFunctionOnSet(g, T)
  <2> HIDE DEF f, g, S, T
  <2> QED BY <1>3 DEF SumFunction, FoldFunction, SumFunctionOnSet
<1>12. g = [i \in T |-> Cuesta(m, i)]
  BY <1>1 DEF Cuesta
<1>13. \A i \in T : Cuesta(m, i) \in Nat
  BY <1>5
<1>14. SumFunction(f) = V /\ V = SumFunctionOnSet([i \in T |-> Cuesta(m, i)], T)
  <2> HIDE DEF f, g, V, T, S
  <2> QED BY <1>4, <1>10, <1>11, <1>12
<1>15. n = Conjuntos(m, carrito)
  BY <1>1
<1> QED BY <1>13, <1>14, <1>15 DEF n

LEMMA FilaEs ==
    ASSUME Aparte, NEW k \in DOMAIN promos, Sets(k) # 0
    PROVE  LET m == promos[k]
               S == DOMAIN carrito
           IN /\ \A i \in S : Quita(m, i) \in Nat
              /\ FilaCombo(promos, carrito, k)
                     = SumFunctionOnSet([i \in S |-> Cuesta(m, i)], S)
                           - SumFunctionOnSet([i \in S |-> Quita(m, i)], S)
<1> DEFINE m == promos[k]
           n == Sets(k)
           S == DOMAIN carrito
           V == ValorCombo(m, carrito, Conjuntos(m, carrito))
           w == [i \in S |-> Cuesta(m, i)]
           g == [i \in S |-> Quita(m, i)]
           A == SumFunctionOnSet(g, S)
           sin == SumFunction([x \in DOMAIN m.productos |-> Precio[m.productos[x]] * n * m.cantidad])
<1>1. /\ n \in Nat \ {0} /\ n = Conjuntos(m, carrito) /\ Clasica(m) /\ SinRepetir(m) /\ m.activa
      /\ m.tipo \in {"porcentaje", "monto_fijo"}
      /\ m.tipo = "porcentaje" => m.valor <= 100
      /\ DivideExacto(m, n) /\ SinSobrante(m, n) /\ n = Servidos(m)
  BY SetsEs, SetsDeFila, ActivaEs
<1>2. carrito \in Seq(Articulo) /\ promos \in Seq(Promocion) /\ m \in Promocion /\ m.valor \in Nat
  BY <1>1, GruposClasica DEF Aparte, CarroUnico
<1>3. sin = V /\ V = SumFunctionOnSet(w, S) /\ \A i \in S : Cuesta(m, i) \in Nat
  BY ValorDeFila
<1>4. FilaCombo(promos, carrito, k)
          = IF m.tipo = "porcentaje" THEN Rebajado(sin, m.valor * Escala)
            ELSE Mayor({0, sin - n * m.valor})
  BY <1>1 DEF FilaCombo, Sets
<1>5. IsFiniteSet(S)
  BY <1>2, FS_Interval
<1>6. V \in Nat
  <2> HIDE DEF m
  <2> QED BY <1>1, <1>2, ValorNat
<1> SUFFICES /\ \A i \in S : Quita(m, i) \in Nat
             /\ FilaCombo(promos, carrito, k) = V - A
  BY <1>3
<1> HIDE DEF sin
<1>7. CASE m.tipo = "monto_fijo"
  <2>1. m.tipo # "porcentaje" /\ ~(m.tipo = "precio_fijo_combo")
    BY <1>7
  <2>2. \A i \in S : Quita(m, i) \in Nat
    <3> TAKE i \in S
    <3> HIDE DEF m, n
    <3> QED BY <1>1, <1>2, <2>1, QuitaEs
  <2>3. SinRebaja - ConRebaja(m) = A
    <3> HIDE DEF m
    <3> QED BY <1>2, <2>2, AhorroSumado
  <2>4. SinRebaja - ConRebaja(m) = Menor({n * m.valor, V})
    <3>1. AhorroJusto
      BY <1>2, AhorroEs
    <3>2. k \in DOMAIN promos
      OBVIOUS
    <3>3. V = ValorCombo(m, carrito, n)
      BY <1>1
    <3> HIDE DEF V, n
    <3> QED BY <1>1, <1>7, <2>1, <3>1, <3>2, <3>3 DEF AhorroJusto, Repartible
  <2> DEFINE nv == n * m.valor
             x == V - nv
  <2>5. nv \in Nat
    <3> HIDE DEF m, n
    <3> QED BY <1>1, <1>2
  <2> HIDE DEF V, A, nv
  <2>6. Menor({nv, V}) \in {nv, V} /\ Menor({nv, V}) <= nv /\ Menor({nv, V}) <= V
    <3>1. nv \in Int /\ V \in Int
      BY <1>6, <2>5
    <3> QED BY <3>1, MenorDeDos
  <2>7. A = Menor({nv, V})
    BY <2>3, <2>4 DEF nv
  <2>8. x \in Int
    BY <1>6, <2>5
  <2>9. FilaCombo(promos, carrito, k) = Mayor({0, x})
    BY <1>3, <1>4, <2>1 DEF nv
  <2>10. Mayor({0, x}) \in {0, x} /\ Mayor({0, x}) >= x /\ Mayor({0, x}) \in Nat
    <3> HIDE DEF x
    <3> QED BY <2>8, MayorDeCero
  <2>11. Mayor({0, x}) = V - A
    <3> DEFINE y == Mayor({0, x})
               z == Menor({nv, V})
    <3>1. y \in {0, x} /\ y >= x /\ y \in Nat /\ z \in {nv, V} /\ z <= nv /\ z <= V
      BY <2>6, <2>10
    <3> HIDE DEF y, z
    <3>2. y = V - z
      BY <1>6, <2>5, <3>1
    <3> QED BY <2>7, <3>2 DEF y, z
  <2> QED BY <2>2, <2>9, <2>11
<1>8. CASE m.tipo = "porcentaje"
  <2> DEFINE c == m.valor * Escala
             h == [i \in S |-> c * Cuesta(m, i)]
  <2>1. ASSUME NEW i \in S PROVE Quita(m, i) \in Nat /\ Cien * Quita(m, i) = c * Cuesta(m, i)
    <3> HIDE DEF n
    <3> QED BY <1>1, <1>8, QuitaPorcentaje DEF Cuesta
  <2>2. c \in 0 .. Cien /\ Cien \in Nat \ {0}
    <3>1. m.valor \in 0 .. 100
      <4> DEFINE v == m.valor
      <4>1. v <= 100 /\ v \in Nat
        BY <1>1, <1>2, <1>8
      <4> HIDE DEF v
      <4>2. v \in 0 .. 100
        BY <4>1
      <4> QED BY <4>2 DEF v
    <3> QED BY <3>1, ManualEs, EscalaPositiva
  <2> HIDE DEF c
  <2>3. \A i \in S : w[i] \in Int /\ h[i] = c * w[i] /\ g[i] \in Int /\ h[i] = Cien * g[i]
    BY <1>3, <2>1
  <2>4. \A i \in S : g[i] \in Nat
    BY <2>1
  <2> HIDE DEF w, h, g, S, V
  <2>5. c \in Int /\ Cien \in Int
    BY <2>2
  <2>6. SumFunctionOnSet(h, S) = c * SumFunctionOnSet(w, S)
    BY <1>5, <2>3, <2>5, SumaPor
  <2>7. SumFunctionOnSet(h, S) = Cien * SumFunctionOnSet(g, S)
    BY <1>5, <2>3, <2>5, SumaPor
  <2>8. Cien * A = c * V
    BY <1>3, <2>6, <2>7
  <2>9. A \in Nat
    BY <1>5, <2>4, SumaNatural
  <2> HIDE DEF A
  <2>10. Rebajado(V, c) = V - A
    <3>1. V * (Cien - c) = Cien * (V - A)
      BY <1>6, <2>2, <2>8, <2>9
    <3>2. V - A \in Int
      BY <1>6, <2>9
    <3>3. (Cien * (V - A)) \div Cien = V - A
      <4> DEFINE z == V - A
      <4>1. z \in Int
        BY <3>2
      <4> HIDE DEF z
      <4>2. (Cien * z) \div Cien = z
        BY <2>2, <4>1
      <4> QED BY <4>2 DEF z
    <3> QED BY <3>1, <3>3 DEF Rebajado
  <2>11. FilaCombo(promos, carrito, k) = Rebajado(V, c)
    BY <1>3, <1>4, <1>8 DEF c
  <2>12. \A i \in S : Quita(m, i) \in Nat
    BY <2>1
  <2> QED BY <2>10, <2>11, <2>12
<1> HIDE DEF m, n, V, A, S
<1> QED BY <1>1, <1>7, <1>8

\* Has one of the first K rows taken units of the i-th item?  Those that are left cost
\* their full price then, and what the total takes off otherwise.
Tomada(K, i) == \E k \in 1 .. K : EnPromo(promos[k], carrito[i].id) /\ Sets(k) # 0

Resto(K, i) ==
    Rebajado(Quedan(promos, carrito)[K][carrito[i].id] * Precio[carrito[i].id],
             IF Tomada(K, i) THEN 0 ELSE PctPromo(promos, carrito, i))

LEMMA RestoNat ==
    ASSUME Aparte, NEW K \in 0 .. Len(promos), NEW i \in DOMAIN carrito
    PROVE  /\ Resto(K, i) \in Nat
           /\ Quedan(promos, carrito)[K][carrito[i].id] \in Nat
           /\ carrito[i].cant \in Nat \ {0} /\ Precio[carrito[i].id] \in Nat
<1> DEFINE x == Quedan(promos, carrito)[K][carrito[i].id]
           p == Precio[carrito[i].id]
           e == IF Tomada(K, i) THEN 0 ELSE PctPromo(promos, carrito, i)
<1>1. promos \in Seq(Promocion) /\ carrito \in Seq(Articulo)
  BY DEF Aparte, CarroUnico
<1>2. carrito[i].id \in Productos /\ carrito[i].cant \in Nat \ {0}
  BY <1>1, FilaTipo
<1>3. Quedan(promos, carrito)[K] \in [Productos -> Nat]
  BY <1>1, QuedanNat
<1>4. x \in Nat
  BY <1>2, <1>3
<1>5. p \in Nat
  BY <1>2, PromocionesConstantes
<1>6. e \in 0 .. Cien
  <2>1. PctPromo(promos, carrito, i) \in 0 .. Cien
    BY <1>1, PctPromoEs
  <2>2. 0 \in 0 .. Cien
    BY EscalaPositiva
  <2> QED BY <2>1, <2>2
<1>7. Resto(K, i) = Rebajado(x * p, e)
  BY DEF Resto
<1> HIDE DEF x, p, e
<1>8. x * p \in Nat
  BY <1>4, <1>5
<1>9. Rebajado(x * p, e) \in Nat
  BY <1>6, <1>8, RebajadoNat
<1> QED BY <1>2, <1>4, <1>5, <1>7, <1>9 DEF x, p

\* What is left of a product after the row of one promotion more.
LEMMA UnaFilaMas ==
    ASSUME Aparte, NEW K \in 1 .. Len(promos), NEW i \in DOMAIN carrito
    PROVE  /\ K \in DOMAIN promos /\ K - 1 \in 0 .. Len(promos) /\ Sets(K) \in Nat
           /\ Quedan(promos, carrito)[K][carrito[i].id]
                  = IF EnPromo(promos[K], carrito[i].id) /\ Sets(K) # 0
                    THEN Quedan(promos, carrito)[K - 1][carrito[i].id]
                             - Sets(K) * promos[K].cantidad
                    ELSE Quedan(promos, carrito)[K - 1][carrito[i].id]
           /\ Tomada(K, i) <=> \/ Tomada(K - 1, i)
                               \/ EnPromo(promos[K], carrito[i].id) /\ Sets(K) # 0
<1> DEFINE p == carrito[i].id
           Q(n) == Quedan(promos, carrito)[n]
<1>1. promos \in Seq(Promocion) /\ carrito \in Seq(Articulo)
  BY DEF Aparte, CarroUnico
<1>2. K \in DOMAIN promos /\ K - 1 \in 0 .. Len(promos) /\ K \in Nat \ {0} /\ promos[K] \in Promocion
  BY <1>1
<1>3. p \in Productos
  BY <1>1, FilaTipo
<1>4. Sets(K) \in Nat
  BY <1>2, SetsEs
<1>5. Q(K) = [x \in Productos |->
                 IF \E j \in DOMAIN promos[K].productos : promos[K].productos[j] = x
                 THEN Q(K - 1)[x] - ConjuntosFila(promos[K], Q(K - 1)) * promos[K].cantidad
                 ELSE Q(K - 1)[x]]
  BY <1>1, QuedanEs
<1>6. Q(K)[p] = IF EnPromo(promos[K], p)
                THEN Q(K - 1)[p] - Sets(K) * promos[K].cantidad ELSE Q(K - 1)[p]
  <2> HIDE DEF p
  <2> QED BY <1>3, <1>5 DEF EnPromo, Sets
<1>7. Q(K - 1)[p] \in Nat /\ promos[K].cantidad \in Nat
  <2>1. Q(K - 1) \in [Productos -> Nat]
    BY <1>1, <1>2, QuedanNat
  <2> HIDE DEF Q, p
  <2> QED BY <1>2, <1>3, <2>1 DEF Promocion
<1> HIDE DEF Q, p
<1>8. Sets(K) = 0 => Q(K - 1)[p] - Sets(K) * promos[K].cantidad = Q(K - 1)[p]
  BY <1>7
<1>9. Q(K)[p] = IF EnPromo(promos[K], p) /\ Sets(K) # 0
                THEN Q(K - 1)[p] - Sets(K) * promos[K].cantidad ELSE Q(K - 1)[p]
  BY <1>6, <1>8
<1>10. Tomada(K, i) <=> Tomada(K - 1, i) \/ (EnPromo(promos[K], p) /\ Sets(K) # 0)
  <2>1. 1 .. K = (1 .. (K - 1)) \cup {K}
    BY <1>2
  <2> QED BY <2>1 DEF Tomada, p
<1> QED BY <1>2, <1>4, <1>9, <1>10 DEF Q, p

\* A row takes its units at full price out of the loose ones, with what came off them.
LEMMA RestoSigue ==
    ASSUME Aparte, NEW K \in 1 .. Len(promos), NEW i \in DOMAIN carrito
    PROVE  Resto(K - 1, i)
               = Resto(K, i) + (IF Sets(K) # 0
                                THEN Cuesta(promos[K], i) - Quita(promos[K], i) ELSE 0)
<1> DEFINE m == promos[K]
           p == carrito[i].id
           n == Sets(K)
           a == Quedan(promos, carrito)[K - 1][p]
           z == Quedan(promos, carrito)[K][p]
<1>1. /\ promos \in Seq(Promocion) /\ carrito \in Seq(Articulo) /\ CarroUnico(carrito)
      /\ p \in Productos
  BY FilaTipo DEF Aparte, CarroUnico
<1>2. /\ K \in DOMAIN promos /\ K - 1 \in 0 .. Len(promos) /\ n \in Nat
      /\ z = IF EnPromo(m, p) /\ n # 0 THEN a - n * m.cantidad ELSE a
      /\ Tomada(K, i) <=> Tomada(K - 1, i) \/ (EnPromo(m, p) /\ n # 0)
  BY UnaFilaMas
<1>3. Resto(K, i) \in Nat /\ Resto(K - 1, i) \in Nat
  <2>1. K \in 0 .. Len(promos)
    OBVIOUS
  <2> QED BY <1>2, <2>1, RestoNat
<1>4. CASE ~(EnPromo(m, p) /\ n # 0)
  <2>1. Resto(K - 1, i) = Resto(K, i)
    BY <1>2, <1>4 DEF Resto
  <2>2. n # 0 => Cuesta(m, i) = 0 /\ Quita(m, i) = 0
    <3> SUFFICES ASSUME n # 0 PROVE Cuesta(m, i) = 0 /\ Quita(m, i) = 0
      OBVIOUS
    <3>1. ~EnPromo(m, p) /\ m.activa /\ Clasica(m) /\ m \in Promocion
      BY <1>1, <1>2, <1>4, SetsEs, ActivaEs
    <3>2. Precio[p] \in Nat /\ carrito[i].cant * Precio[p] \in Nat
      BY <1>1, PromocionesConstantes, PrecioDeFila
    <3>3. Descontadas(m, carrito, Conjuntos(m, carrito), i) = 0
      BY <1>1, <3>1, DescontadasClasica
    <3>4. Cuesta(m, i) = 0
      <4>1. Precio[p] * 0 = 0
        BY <3>2
      <4> QED BY <3>3, <4>1 DEF Cuesta
    <3>5. PctSolo(m, carrito, i) = 0
      BY <1>2, <3>1, AjenaNada
    <3>6. PctPromo(<<m>>, carrito, i) = 0
      <4>1. PctPromo(<<m>>, carrito, i) = Menor({Cien, 0})
        BY <1>1, <3>1, <3>5, UnaSola
      <4>2. Cien \in Int /\ Cien \in Nat /\ 0 \in Int
        BY EscalaPositiva
      <4>3. Menor({Cien, 0}) \in {Cien, 0} /\ Menor({Cien, 0}) <= 0
        BY <4>2, MenorDeDos
      <4> QED BY <4>1, <4>2, <4>3
    <3>7. Quita(m, i) = 0
      <4> DEFINE monto == carrito[i].cant * Precio[p]
      <4>1. monto \in Nat
        BY <3>2
      <4>2. Quita(m, i) = monto - Rebajado(monto, 0)
        BY <3>6 DEF Quita
      <4> HIDE DEF monto
      <4>3. Rebajado(monto, 0) = monto
        BY <4>1, SinDescuento
      <4> QED BY <4>1, <4>2, <4>3
    <3> QED BY <3>4, <3>7
  <2> QED BY <1>3, <2>1, <2>2
<1>5. CASE EnPromo(m, p) /\ n # 0
  <2> DEFINE q == carrito[i].cant
             r == Precio[p]
             u == n * m.cantidad
             e == PctPromo(promos, carrito, i)
  <2>1. m.activa /\ Clasica(m) /\ m \in Promocion /\ n = Conjuntos(m, carrito)
    BY <1>1, <1>2, <1>5, SetsEs, ActivaEs, SetsDeFila
  <2>2. ~Tomada(K - 1, i) /\ a = q
    <3>1. /\ \A j \in 1 .. (K - 1) : ~(EnPromo(promos[j], p) /\ Sets(j) # 0)
          /\ a = Cantidad(carrito, p)
      BY <1>1, <1>2, <1>5, <2>1, QuedaEntero
    <3>2. Cantidad(carrito, p) = q
      BY <1>1, CantidadDe
    <3> QED BY <3>1, <3>2 DEF Tomada
  <2>3. Tomada(K, i) /\ z = q - u
    BY <1>2, <1>5, <2>2
  <2>4. q \in Nat /\ r \in Nat /\ z \in Nat
    <3>1. K \in 0 .. Len(promos)
      OBVIOUS
    <3> QED BY <3>1, RestoNat
  <2>5. u \in Nat
    <3>1. m.cantidad \in Nat
      BY <2>1, GruposClasica
    <3> HIDE DEF m, n
    <3> QED BY <1>2, <3>1
  <2>6. Resto(K - 1, i) = Rebajado(q * r, e)
    BY <2>2 DEF Resto
  <2>7. Resto(K, i) = Rebajado(z * r, 0)
    BY <2>3 DEF Resto
  <2>8. Cuesta(m, i) = r * u
    <3>1. Descontadas(m, carrito, Conjuntos(m, carrito), i) = u
      BY <1>1, <1>5, <2>1, DescontadasClasica
    <3> QED BY <3>1 DEF Cuesta
  <2>9. Quita(m, i) = q * r - Rebajado(q * r, e)
    <3>1. PctPromo(<<m>>, carrito, i) = e
      BY <1>2, <1>5, <2>1, PctUnica
    <3> QED BY <3>1 DEF Quita
  <2> HIDE DEF q, r, u, e, z, a, m, n
  <2>10. z * r \in Nat /\ q * r \in Nat /\ r * u \in Nat /\ z * r = q * r - r * u
    BY <2>3, <2>4, <2>5
  <2>11. Rebajado(z * r, 0) = z * r
    BY <2>10, SinDescuento
  <2> DEFINE x == Rebajado(q * r, e)
             y == z * r
             v == q * r
             w == r * u
  <2>12. /\ Resto(K - 1, i) = x /\ Resto(K, i) = y /\ Cuesta(m, i) = w /\ Quita(m, i) = v - x
         /\ y \in Nat /\ v \in Nat /\ w \in Nat /\ y = v - w /\ x \in Nat
    BY <1>3, <2>6, <2>7, <2>8, <2>9, <2>10, <2>11
  <2> HIDE DEF x, y, v, w
  <2>13. Resto(K - 1, i) = Resto(K, i) + (Cuesta(m, i) - Quita(m, i))
    BY <2>12
  <2> QED BY <1>5, <2>13 DEF n, m
<1> QED BY <1>4, <1>5

\* Without a discount of the cashier an item has that of its promotions.
LEMMA SinManual ==
    ASSUME NEW ps \in Seq(Promocion), NEW c \in Seq(Articulo), NEW i \in DOMAIN c, c[i].desc = 0
    PROVE  PctEfectivo(ps, c, i) = PctPromo(ps, c, i)
<1> DEFINE d == c[i].desc * Escala
           p == PctPromo(ps, c, i)
           e == PctEfectivo(ps, c, i)
<1>1. p \in 0 .. Cien /\ e \in {d, p} /\ e >= p
  BY PctEfectivoEs
<1>2. d = 0 /\ Cien \in Nat
  BY EscalaPositiva
<1> HIDE DEF d, p, e
<1>3. e = p
  BY <1>1, <1>2
<1> QED BY <1>3 DEF e, p

\* Row by row, what the table shows is the total.
LEMMA TablaHasta ==
    ASSUME Aparte, \A i \in DOMAIN carrito : carrito[i].desc = 0, NEW K \in 0 .. Len(promos)
    PROVE  SumFunctionOnSet([k \in DOMAIN promos |-> FilaCombo(promos, carrito, k)], 1 .. K)
               + SumFunctionOnSet([i \in DOMAIN carrito |-> Resto(K, i)], DOMAIN carrito)
               = Total(promos, carrito)
<1> DEFINE S == DOMAIN carrito
           L == Len(promos)
           f == [k \in DOMAIN promos |-> FilaCombo(promos, carrito, k)]
           R(n) == [i \in S |-> Resto(n, i)]
           Arriba(n) == SumFunctionOnSet(f, 1 .. n)
           Abajo(n) == SumFunctionOnSet(R(n), S)
           T == Total(promos, carrito)
           Mal == {n \in 0 .. L : Arriba(n) + Abajo(n) # T}
<1>1. /\ promos \in Seq(Promocion) /\ carrito \in Seq(Articulo) /\ CarroUnico(carrito)
      /\ L \in Nat /\ DOMAIN promos = 1 .. L /\ IsFiniteSet(S)
  <2>1. promos \in Seq(Promocion) /\ carrito \in Seq(Articulo) /\ CarroUnico(carrito)
    BY DEF Aparte, CarroUnico
  <2>2. IsFiniteSet(S)
    BY <2>1, FS_Interval
  <2> QED BY <2>1, <2>2
<1>2. \A n \in 0 .. L : \A i \in S : R(n)[i] \in Nat
  BY RestoNat
<1>3. ASSUME NEW k \in 1 .. L
      PROVE  f[k] \in Int /\ Abajo(k - 1) = Abajo(k) + f[k]
  <2> DEFINE m == promos[k]
             w == [i \in S |-> Cuesta(m, i)]
             g == [i \in S |-> Quita(m, i)]
             menos == [i \in S |-> 0 - Quita(m, i)]
             h == [i \in S |-> Cuesta(m, i) - Quita(m, i)]
             a == R(k - 1)
             z == R(k)
  <2>1. k \in DOMAIN promos /\ f[k] = FilaCombo(promos, carrito, k) /\ k \in 0 .. L /\ k - 1 \in 0 .. L
    BY <1>1
  <2>2. \A i \in S : a[i] \in Int /\ z[i] \in Int
    BY <1>2, <2>1
  <2>3. \A i \in S : a[i] = z[i] + (IF Sets(k) # 0 THEN Cuesta(m, i) - Quita(m, i) ELSE 0)
    BY RestoSigue
  <2>4. Abajo(k) \in Int
    <3> HIDE DEF R, S
    <3> QED BY <1>1, <2>2, SumaEntera
  <2>5. CASE Sets(k) = 0
    <3>1. f[k] = 0
      BY <2>1, <2>5 DEF FilaCombo, Sets
    <3>2. \A i \in S : z[i] \in Int /\ a[i] = z[i]
      BY <2>2, <2>3, <2>5
    <3>3. Abajo(k - 1) = Abajo(k)
      <4> HIDE DEF R, S
      <4> QED BY <1>1, <3>2, SumaIgual
    <3> HIDE DEF f, Abajo
    <3> QED BY <2>4, <3>1, <3>3
  <2>6. CASE Sets(k) # 0
    <3>1. /\ \A i \in S : Quita(m, i) \in Nat
          /\ FilaCombo(promos, carrito, k) = SumFunctionOnSet(w, S) - SumFunctionOnSet(g, S)
      BY <2>1, <2>6, FilaEs
    <3>2. \A i \in S : Cuesta(m, i) \in Nat
      BY <2>1, <2>6, ValorDeFila
    <3>3. \A i \in S : /\ w[i] \in Int /\ g[i] \in Int /\ h[i] \in Int
                       /\ w[i] = h[i] + g[i] /\ a[i] = z[i] + h[i]
      <4> TAKE i \in S
      <4>1. w[i] = Cuesta(m, i) /\ g[i] = Quita(m, i) /\ h[i] = Cuesta(m, i) - Quita(m, i)
        OBVIOUS
      <4>2. a[i] = z[i] + (Cuesta(m, i) - Quita(m, i))
        BY <2>3, <2>6
      <4>3. Cuesta(m, i) \in Nat /\ Quita(m, i) \in Nat
        BY <3>1, <3>2
      <4> HIDE DEF w, g, h, R, m, S
      <4> QED BY <4>1, <4>2, <4>3
    <3> HIDE DEF w, g, h, R, m, S
    <3>4. SumFunctionOnSet(w, S) = SumFunctionOnSet(h, S) + SumFunctionOnSet(g, S)
      BY <1>1, <3>3, SumaMas
    <3>5. SumFunctionOnSet(a, S) = SumFunctionOnSet(z, S) + SumFunctionOnSet(h, S)
      BY <1>1, <2>2, <3>3, SumaMas
    <3>6. SumFunctionOnSet(h, S) \in Int /\ SumFunctionOnSet(g, S) \in Int
      BY <1>1, <3>3, SumaEntera
    <3>7. f[k] = SumFunctionOnSet(h, S)
      BY <2>1, <3>1, <3>4, <3>6
    <3> QED BY <3>5, <3>6, <3>7
  <2> QED BY <2>5, <2>6
<1>4. Arriba(0) = 0 /\ Abajo(0) = T
  <2>1. Arriba(0) = 0
    <3>1. 1 .. 0 = {}
      OBVIOUS
    <3> QED BY <3>1, SumaVacia
  <2>2. ASSUME NEW i \in S PROVE R(0)[i] = Subtotal(promos, carrito, i)
    <3>1. ~Tomada(0, i)
      BY DEF Tomada
    <3>2. Quedan(promos, carrito)[0] = [x \in Productos |-> Cantidad(carrito, x)]
      BY <1>1, QuedanEs
    <3>3. carrito[i].id \in Productos /\ Cantidad(carrito, carrito[i].id) = carrito[i].cant
      BY <1>1, FilaTipo, CantidadDe
    <3>4. Quedan(promos, carrito)[0][carrito[i].id] = carrito[i].cant
      BY <3>2, <3>3
    <3>5. PctEfectivo(promos, carrito, i) = PctPromo(promos, carrito, i)
      BY <1>1, SinManual
    <3> QED BY <3>1, <3>4, <3>5 DEF Resto, Subtotal
  <2> DEFINE s == [i \in S |-> Subtotal(promos, carrito, i)]
  <2>3. T = SumFunction(s) /\ DOMAIN s = S
    BY DEF Total
  <2>4. \A i \in S : R(0)[i] \in Int /\ s[i] = R(0)[i]
    <3>1. 0 \in 0 .. L
      BY <1>1
    <3> QED BY <1>2, <2>2, <3>1
  <2> HIDE DEF s, S, R, T
  <2>5. SumFunction(s) = SumFunctionOnSet(s, S)
    BY <2>3 DEF SumFunction, FoldFunction, SumFunctionOnSet
  <2>6. SumFunctionOnSet(s, S) = Abajo(0)
    BY <1>1, <2>4, SumaIgual
  <2> QED BY <2>1, <2>3, <2>5, <2>6
<1>5. Mal = {}
  <2>1. SUFFICES ASSUME Mal # {} PROVE FALSE
    OBVIOUS
  <2>2. Mal \subseteq Nat
    BY <1>1
  <2>3. PICK n \in Mal : \A t \in Mal : n <= t
    <3> HIDE DEF Mal
    <3> QED BY <2>1, <2>2, Minimo
  <2>4. n \in 0 .. L /\ Arriba(n) + Abajo(n) # T
    OBVIOUS
  <2>5. T \in Nat
    BY <1>1, TotalNat
  <2> HIDE DEF T, Abajo, Arriba, Mal
  <2>6. n # 0
    BY <1>4, <2>4, <2>5
  <2>7. n \in 1 .. L /\ n - 1 \in 0 .. L /\ ~(n <= n - 1) /\ n - 1 \in Nat /\ n \in Nat
    BY <1>1, <2>4, <2>6
  <2>8. Arriba(n - 1) + Abajo(n - 1) = T
    <3>1. n - 1 \notin Mal
      BY <2>3, <2>7
    <3> QED BY <2>7, <3>1 DEF Mal
  <2>9. f[n] \in Int /\ Abajo(n - 1) = Abajo(n) + f[n]
    BY <1>3, <2>7
  <2> HIDE DEF f
  <2>10. Arriba(n) = Arriba(n - 1) + f[n] /\ Arriba(n - 1) \in Int
    <3>1. \A k \in 1 .. L : f[k] \in Int
      BY <1>3
    <3>2. \A k \in 1 .. ((n - 1) + 1) : f[k] \in Int
      BY <1>1, <2>7, <3>1
    <3>3. (n - 1) + 1 = n
      BY <2>7
    <3> DEFINE o == n - 1
    <3> HIDE DEF o
    <3>4. o \in Nat /\ o + 1 = n /\ \A k \in 1 .. (o + 1) : f[k] \in Int
      BY <2>7, <3>2, <3>3 DEF o
    <3>5. /\ SumFunctionOnSet(f, 1 .. (o + 1)) = SumFunctionOnSet(f, 1 .. o) + f[o + 1]
          /\ SumFunctionOnSet(f, 1 .. o) \in Int
      BY <3>4, SumaTramo
    <3> QED BY <3>4, <3>5 DEF o, Arriba
  <2>11. Abajo(n) \in Int
    <3>1. \A i \in S : R(n)[i] \in Int
      BY <1>2, <2>4
    <3> HIDE DEF R, S
    <3> QED BY <1>1, <3>1, SumaEntera DEF Abajo
  <2> QED BY <2>4, <2>8, <2>9, <2>10, <2>11
<1>6. K \notin Mal
  BY <1>5
<1> QED BY <1>6

LEMMA TablaEs ==
    ASSUME CarroUnico(carrito), promos \in Seq(Promocion), total = Total(promos, carrito)
    PROVE  TablaYTotal
<1> SUFFICES ASSUME Separadas, \A i \in DOMAIN carrito : carrito[i].desc = 0
             PROVE  TotalFilas(promos, carrito) = Total(promos, carrito)
  BY DEF TablaYTotal
<1> DEFINE L == Len(promos)
           S == DOMAIN carrito
           f == [k \in DOMAIN promos |-> FilaCombo(promos, carrito, k)]
           g == [i \in S |-> FilaSuelta(promos, carrito, i)]
           h == [i \in S |-> Resto(L, i)]
<1>1. Aparte
  BY DEF Aparte
<1>2. /\ L \in Nat /\ DOMAIN promos = 1 .. L /\ L \in 0 .. L
      /\ carrito \in Seq(Articulo)
  BY DEF CarroUnico
<1>3. SumFunctionOnSet(f, 1 .. L) + SumFunctionOnSet(h, S) = Total(promos, carrito)
  BY <1>1, <1>2, TablaHasta
<1>4. ASSUME NEW i \in S PROVE g[i] = h[i]
  <2> DEFINE p == carrito[i].id
             x == Quedan(promos, carrito)[L][p] * Precio[p]
  <2>1. EnCombo(promos, carrito, p) <=> Tomada(L, i)
    <3>1. ASSUME NEW k \in DOMAIN promos
          PROVE  ConjuntosFila(promos[k], Quedan(promos, carrito)[k - 1]) > 0 <=> Sets(k) # 0
      BY <1>1, SetsEs DEF Sets
    <3> QED BY <1>2, <3>1 DEF EnCombo, Tomada, EnPromo
  <2>2. carrito[i].desc * Escala = 0
    BY EscalaPositiva
  <2>3. PctEfectivo(promos, carrito, i) = PctPromo(promos, carrito, i)
    BY <1>2, SinManual
  <2>4. g[i] = Rebajado(x, IF EnCombo(promos, carrito, p) THEN carrito[i].desc * Escala
                           ELSE PctEfectivo(promos, carrito, i))
    BY DEF FilaSuelta, Sueltas
  <2>5. h[i] = Rebajado(x, IF Tomada(L, i) THEN 0 ELSE PctPromo(promos, carrito, i))
    BY DEF Resto
  <2> HIDE DEF g, h, x, L
  <2> QED BY <2>1, <2>2, <2>3, <2>4, <2>5
<1>5. SumFunction(f) = SumFunctionOnSet(f, 1 .. L) /\ SumFunction(g) = SumFunctionOnSet(g, S)
  <2>1. DOMAIN f = 1 .. L /\ DOMAIN g = S
    BY <1>2
  <2> HIDE DEF f, g, S, L
  <2> QED BY <2>1 DEF SumFunction, FoldFunction, SumFunctionOnSet
<1>6. g = h
  <2> HIDE DEF S
  <2>1. g = [i \in S |-> g[i]] /\ h = [i \in S |-> h[i]]
    OBVIOUS
  <2> HIDE DEF g, h
  <2> QED BY <1>4, <2>1, Zenon
<1>7. TotalFilas(promos, carrito) = SumFunction(f) + SumFunction(g)
  BY DEF TotalFilas
<1> HIDE DEF f, g, h, S, L
<1> QED BY <1>3, <1>5, <1>6, <1>7

(***************************************************************************)
(* However many promotions the cart completes, and whatever units they     *)
(* leave loose, the rows of the table add up to the total that is charged  *)
(* (SalesTable.tsx:49-133, useCartStore.ts:61-66): for promotions of       *)
(* products apart, each a percentage or an amount, without discounts of    *)
(* the cashier.                                                            *)
(***************************************************************************)
THEOREM LaTablaSumaElTotal == Spec => []TablaYTotal
<1>1. Init => CarritoInv /\ UnicosInv
  BY CarritoEmpieza, UnicosEmpieza
<1>2. CarritoInv /\ UnicosInv /\ [Next]_vars => CarritoInv' /\ UnicosInv'
  BY CarritoSigue, UnicosSigue
<1>3. CarritoInv /\ UnicosInv => TablaYTotal
  BY CarritoTipo, PromosTipo, TablaEs DEF CarroUnico, UnicosInv
<1> QED BY <1>1, <1>2, <1>3, PTL DEF Spec

LEMMA VentaEmpieza == Init => VueltoCorrecto
BY DEF Init, VueltoCorrecto

(***************************************************************************)
(* The cash handed over less the change is the cash of the payments, and   *)
(* the change is never negative, whatever the form showed when it was      *)
(* confirmed (PaymentModal.tsx:111-149, useSaleStore.ts:111-142).          *)
(***************************************************************************)
THEOREM VueltoExacto == Spec => []VueltoCorrecto
<1>1. Init => CarritoInv /\ DineroInv /\ VueltoCorrecto
  BY CarritoEmpieza, DineroEmpieza, VentaEmpieza
<1>2. CarritoInv /\ DineroInv /\ VueltoCorrecto /\ [Next]_vars => (CarritoInv /\ DineroInv /\ VueltoCorrecto)'
  BY CarritoSigue, DineroSigue, VentaSigue
<1> QED BY <1>1, <1>2, PTL DEF Spec

(***************************************************************************)
(* No two sales of a session have the same ticket number, whatever number  *)
(* the backend answers and whenever it does: the answer is joined with the *)
(* counter of that moment (useSaleStore.ts:162-173), each sale takes the   *)
(* number after it (useSaleStore.ts:108), and nothing else writes either.  *)
(***************************************************************************)
THEOREM TicketsDistintosSiempre == Spec => []TicketsDistintos
<1>1. Init => TicketsInv
  BY DEF Init, TicketsInv, TicketsDistintos
<1>2. TicketsInv /\ [Next]_vars => TicketsInv'
  BY TicketsSiguen
<1>3. TicketsInv => TicketsDistintos
  BY DEF TicketsInv
<1>4. QED
  BY <1>1, <1>2, <1>3, PTL DEF Spec
=============================================================================
