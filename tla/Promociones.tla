---------------------------- MODULE Promociones ----------------------------
(***************************************************************************)
(* The discounts of a cart, and the rows the till shows for it.            *)
(*   store/usePromocionesStore.ts   computePromoDescuentos                 *)
(*   store/useCartStore.ts          effectivePct, computeTotal...          *)
(*   components/pos/SalesTable.tsx  buildDisplayRows                       *)
(*                                                                         *)
(* A cart is a sequence of items [id, cant, desc]; desc is the manual      *)
(* discount.  Prices are whole numbers; a percentage is counted in units   *)
(* of 1/Escala percent, so that 100% is Cien.  The program computes with   *)
(* floating point numbers: the instances take prices for which no division *)
(* below has a remainder.                                                  *)
(***************************************************************************)
EXTENDS Integers, Sequences, Functions

CONSTANTS
    Productos,      \* ids of the catalogue
    Precio,         \* price of each, as the item keeps it
    Escala          \* units of a percent

ASSUME PromocionesConstantes ==
    /\ Precio \in [Productos -> Nat]
    /\ Escala \in Nat \ {0}

Cien == 100 * Escala

Menor(S) == CHOOSE x \in S : \A y \in S : x <= y
Mayor(S) == CHOOSE x \in S : \A y \in S : x >= y

EnCarrito(c, p) == \E i \in DOMAIN c : c[i].id = p

Indice(c, p) == CHOOSE i \in DOMAIN c : c[i].id = p

Cantidad(c, p) == IF EnCarrito(c, p) THEN c[Indice(c, p)].cant ELSE 0

-----------------------------------------------------------------------------
(* A promotion is [activa, modo, tipo, valor, cantidad, productos, grupos]. *)
(* productos and grupos are sequences; a group is [prods, cantidad].        *)

Promocion ==
    [activa : BOOLEAN, modo : {"clasico", "grupos"},
     tipo : {"porcentaje", "monto_fijo", "precio_fijo_combo"}, valor : Nat,
     cantidad : Nat \ {0}, productos : Seq(Productos),
     grupos : Seq([prods : SUBSET Productos, cantidad : Nat \ {0}])]

PorGrupos(promo) == promo.modo = "grupos" /\ promo.grupos # <<>>

\* The groups a promotion asks for.  One of mode "clasico", or of mode "grupos"
\* without groups, asks for `cantidad' units of each of its products.
GruposDe(promo) ==
    IF PorGrupos(promo)
    THEN promo.grupos
    ELSE [k \in DOMAIN promo.productos |->
             [prods |-> {promo.productos[k]}, cantidad |-> promo.cantidad]]

\* Units of the cart in a group, up to the i-th item.
Juntadas(g, c, i) == SumFunction([j \in 1..i |-> IF c[j].id \in g.prods THEN c[j].cant ELSE 0])

\* Faulty variant: a started set counts as a complete one.
ConjuntosEmpezados(promo, c) ==
    LET gs == GruposDe(promo)
        por(k) == (Juntadas(gs[k], c, Len(c)) + gs[k].cantidad - 1) \div gs[k].cantidad
    IN IF gs = <<>> THEN 0 ELSE Menor({por(k) : k \in DOMAIN gs})

\* completeSets: how often every group is served.  0 when a group is short.
Conjuntos(promo, c) ==
    LET gs == GruposDe(promo)
        por(k) == Juntadas(gs[k], c, Len(c)) \div gs[k].cantidad
    IN IF gs = <<>> THEN 0 ELSE Menor({por(k) : k \in DOMAIN gs})

\* discountedQty: the units of the i-th item that n complete sets take.  Each
\* group fills them from its first item on; an item of two groups is taken twice.
Descontadas(promo, c, n, i) ==
    LET gs == GruposDe(promo)
        toma(g) ==
            IF c[i].id \notin g.prods THEN 0
            ELSE Mayor({0, Menor({c[i].cant,
                                  n * g.cantidad - Juntadas(g, c, i - 1)})})
    IN SumFunction([k \in DOMAIN gs |-> toma(gs[k])])

\* totalComboValue: what those units cost without the promotion.
ValorCombo(promo, c, n) ==
    SumFunction([i \in DOMAIN c |-> Precio[c[i].id] * Descontadas(promo, c, n, i)])

\* totalDiscount of the two kinds of promotion that are not a percentage.  With
\* groups, the value of all the sets less ONE fixed price is taken once per set.
DescuentoTotal(promo, c, n) ==
    IF promo.tipo = "monto_fijo" THEN n * promo.valor
    ELSE IF PorGrupos(promo)
    THEN Mayor({0, ValorCombo(promo, c, n) - promo.valor}) * n
    ELSE Mayor({0, ValorCombo(promo, c, n) - promo.valor * n})

\* effectivePct of the i-th item: its share of the discount, over all its units.
\* The price of the item cancels out; an item without price gets nothing.
PctDe(promo, c, n, i) ==
    LET u == Descontadas(promo, c, n, i) IN
    IF promo.tipo = "porcentaje" THEN (promo.valor * Escala * u) \div c[i].cant
    ELSE IF Precio[c[i].id] = 0 \/ u = 0 THEN 0
    ELSE (Cien * DescuentoTotal(promo, c, n) * u) \div (ValorCombo(promo, c, n) * c[i].cant)

\* The discount of one promotion: none when it is off or the cart has no set.
PctSolo(promo, c, i) ==
    LET n == IF promo.activa THEN Conjuntos(promo, c) ELSE 0
    IN IF n > 0 THEN PctDe(promo, c, n, i) ELSE 0

\* computePromoDescuentos with applyDiscount: of all the active promotions the
\* item keeps the highest discount, between 0 and 100%.
PctPromo(promos, c, i) ==
    Mayor({0} \cup {Menor({Cien, PctSolo(promos[k], c, i)}) : k \in DOMAIN promos})

-----------------------------------------------------------------------------
(* Amounts of the cart. *)

\* The manual discount of an item or that of its promotions, the higher one.
PctEfectivo(promos, c, i) == Mayor({c[i].desc * Escala, PctPromo(promos, c, i)})

Rebajado(monto, pct) == (monto * (Cien - pct)) \div Cien

Subtotal(promos, c, i) == Rebajado(c[i].cant * Precio[c[i].id], PctEfectivo(promos, c, i))

Total(promos, c) == SumFunction([i \in DOMAIN c |-> Subtotal(promos, c, i)])

ConGlobal(monto, global) == Rebajado(monto, global * Escala)

-----------------------------------------------------------------------------
(* The rows of the table. *)

\* Only promotions with two products or more get a row of their own.
ConFila(promo) == promo.activa /\ Len(promo.productos) > 1

\* completeSets of the row, from the units that the rows above have left.
ConjuntosFila(promo, quedan) ==
    IF ConFila(promo)
    THEN Menor({quedan[promo.productos[k]] \div promo.cantidad : k \in DOMAIN promo.productos})
    ELSE 0

\* remaining after the rows of the first k promotions.
Quedan(promos, c) ==
    LET r[k \in 0..Len(promos)] ==
            IF k = 0 THEN [p \in Productos |-> Cantidad(c, p)]
            ELSE LET m == promos[k] IN
                 [p \in Productos |->
                     IF \E j \in DOMAIN m.productos : m.productos[j] = p
                     THEN r[k - 1][p] - ConjuntosFila(m, r[k - 1]) * m.cantidad
                     ELSE r[k - 1][p]]
    IN r

\* totalConDescuento of the row of the k-th promotion.  A fixed price is taken
\* off like an amount.
FilaCombo(promos, c, k) ==
    LET m == promos[k]
        n == ConjuntosFila(m, Quedan(promos, c)[k - 1])
        sin == SumFunction([j \in DOMAIN m.productos |-> Precio[m.productos[j]] * n * m.cantidad])
    IN IF n = 0 THEN 0
       ELSE IF m.tipo = "porcentaje" THEN Rebajado(sin, m.valor * Escala)
       ELSE Mayor({0, sin - n * m.valor})

\* comboProductIds: the products some row above has taken units of.
EnCombo(promos, c, p) ==
    \E k \in DOMAIN promos :
        /\ \E j \in DOMAIN promos[k].productos : promos[k].productos[j] = p
        /\ ConjuntosFila(promos[k], Quedan(promos, c)[k - 1]) > 0

\* displayQty of the row of the i-th item; the row is there when it is positive.
Sueltas(promos, c, i) == Quedan(promos, c)[Len(promos)][c[i].id]

\* Faulty variant: the loose units of a promotion keep its discount.
FilaSueltaRebajada(promos, c, i) ==
    Rebajado(Sueltas(promos, c, i) * Precio[c[i].id], PctEfectivo(promos, c, i))

FilaSuelta(promos, c, i) ==
    Rebajado(Sueltas(promos, c, i) * Precio[c[i].id],
             IF EnCombo(promos, c, c[i].id) THEN c[i].desc * Escala
             ELSE PctEfectivo(promos, c, i))

\* What the rows of the table add up to.
TotalFilas(promos, c) ==
    SumFunction([k \in DOMAIN promos |-> FilaCombo(promos, c, k)])
    + SumFunction([i \in DOMAIN c |-> FilaSuelta(promos, c, i)])
=============================================================================
