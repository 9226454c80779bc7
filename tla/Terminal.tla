------------------------------ MODULE Terminal ------------------------------
(***************************************************************************)
(* The till of the POS page: cart, discounts, payment and sale.            *)
(*   pages/PosTerminal.tsx, components/pos/{SalesTable, TotalPanel,        *)
(*   DiscountModal, PaymentModal}.tsx, store/{useCartStore, useSaleStore,  *)
(*   usePOSUIStore}.ts                                                     *)
(*                                                                         *)
(* One thread: a handler runs to its first await, and the rest of it later,*)
(* when what it waits for is there.  `esperas' holds those rests.  A store *)
(* is rendered, and the effects of the render are run, before the next     *)
(* event: the promotions of the cart (PosTerminal.tsx:119-131) are part of *)
(* each step and so is the key handler of the payment form (`captura').    *)
(*                                                                         *)
(* `total' is computed again with the promotions.                            *)
(*                                                                         *)
(* Reads and writes of IndexedDB run in the order they were asked for, so  *)
(* a read has its value when it is asked for, and the handler goes on      *)
(* later.  What happens to a sale once it is queued is OfflineSync.tla.    *)
(***************************************************************************)
EXTENDS Promociones, FiniteSets

CONSTANTS
    Existencias,    \* stock of the local catalogue at the start
    Promos,         \* what the backend may answer for the active promotions
    Descuentos,     \* percentages the cashier may enter
    Montos,         \* amounts the cashier may enter
    Limite,         \* percentage allowed in DiscountModal: 30 for a cashier
    MaxEsperas,     \* bound: handlers waiting at once
    MaxCant,        \* bound: units of one item
    MaxVentas,      \* bound: sales of the session
    MaxTicket,      \* bound: last ticket number the backend may answer
    MaxToques       \* bound: keys, clicks and scans of the cashier

ASSUME TerminalConstantes ==
    /\ Existencias \in [Productos -> Nat]
    /\ Promos \subseteq Seq(Promocion)
    /\ Descuentos \subseteq 0..100
    /\ Montos \subseteq Nat
    /\ {MaxEsperas, MaxCant, MaxVentas, MaxTicket, MaxToques} \subseteq Nat

VARIABLES
    carrito,        \* useCartStore: cart
    total,          \* total, before descuentoGlobal
    global,         \* descuentoGlobal
    sel,            \* selectedRowIndex, from 0; -1 for none
    promos,         \* usePromocionesStore: promociones
    stock,          \* db.products: stock of each product
    fallo,          \* history: has a read of db.products failed?
    esperas,        \* handlers that wait, oldest first
    abierto,        \* the dialogs that are open
    objetivo,       \* discountTargetItemId
    pago,           \* the form of PaymentModal
    captura,        \* what its key handler on window was made with
    contador,       \* useSaleStore: ticketCounter
    historial,      \* ticket numbers of historial, newest first
    ultima,         \* lastSaleRecord
    toques          \* keys, clicks and scans so far

vars == <<carrito, total, global, sel, promos, stock, fallo, esperas, abierto, objetivo,
          pago, captura, contador, historial, ultima, toques>>

Nadie == "nadie"
Vacio == -1          \* a field without a number
Nada == [vacia |-> TRUE]

\* The dialogs of anyModalOpen; "otro" is that of the prices or that of the history,
\* which leave the sale alone.  The dialog of the finished sale and the search are
\* not among them.
Modales == {"pago", "descuento", "otro"}
Dialogos == Modales \cup {"post", "busqueda"}

AlgunModal == abierto \cap Modales # {}

Metodos == {"efectivo", "debito", "mixto"}

\* The form after its reset.  tarjeta stands for the four amounts that are not
\* cash; completo, for the data that the chosen kind of invoice asks of the buyer.
PagoNuevo == [metodo |-> "efectivo", recibido |-> Vacio, tarjeta |-> 0, completo |-> TRUE]

Esperar(e) == esperas' = Append(esperas, e)

Sin(i) == [j \in 1..(Len(esperas) - 1) |-> IF j < i THEN esperas[j] ELSE esperas[j + 1]]

HayLugar(n) == Len(esperas) + n <= MaxEsperas

-----------------------------------------------------------------------------
(* The page opens with two answers to come: the last ticket number and the *)
(* promotions.                                                             *)
Init ==
    /\ carrito = <<>> /\ total = 0 /\ global = 0 /\ sel = -1
    /\ promos = <<>>
    /\ stock = Existencias /\ fallo = FALSE
    /\ esperas = <<[op |-> "contador"], [op |-> "promos"]>>
    /\ abierto = {}
    /\ objetivo = Nadie
    /\ pago = PagoNuevo /\ captura = Nada
    /\ contador = 0 /\ historial = <<>> /\ ultima = Nada /\ toques = 0

\* Faulty variant: the counter is overwritten with the answer.
ContadorPisado(n) ==
    /\ contador' = n
    /\ UNCHANGED <<carrito, global, sel, promos, stock, fallo, abierto, objetivo,
                   pago, historial, ultima>>

\* syncTicketCounter: the counter, read after the answer, only goes up.
ContadorSincronizado(n) ==
    /\ contador' = Mayor({contador, n})
    /\ UNCHANGED <<carrito, global, sel, promos, stock, fallo, abierto, objetivo,
                   pago, historial, ultima>>

\* fetchActivePromociones, answered.
LleganPromos ==
    /\ promos' \in Promos
    /\ UNCHANGED <<carrito, global, sel, stock, fallo, abierto, objetivo,
                   pago, contador, historial, ultima>>

\* The first answers of the page.  Either request may fail and change nothing.
Respuesta(i) ==
    /\ i \in DOMAIN esperas
    /\ esperas' = Sin(i)
    /\ \/ esperas[i].op = "contador" /\ \E n \in 0..MaxTicket : ContadorSincronizado(n)
       \/ esperas[i].op = "promos" /\ LleganPromos
       \/ /\ esperas[i].op \in {"contador", "promos"}
          /\ UNCHANGED <<carrito, global, sel, promos, stock, fallo, abierto,
                         objetivo, pago, contador, historial, ultima>>

-----------------------------------------------------------------------------
(* The cart: store/useCartStore.ts. *)

\* getLocalStock: the stock now, or no answer because IndexedDB failed.  A stock
\* below zero allows as little as none.
Fallo == -1

Leido(p) == Mayor({0, stock[p]})

Lecturas(p) == {Leido(p), Fallo}

Anotar(s) == fallo' = (fallo \/ s = Fallo)

\* Faulty variant: the selection may be the row after the last.
AcotarDeMas(n, largo) == Mayor({0, Menor({n, largo})})

Acotar(n, largo) == Mayor({0, Menor({n, largo - 1})})

\* The items of the cart c in the rows of R.
Filas(c, R) ==
    LET f[n \in 0..Len(c)] ==
            IF n = 0 THEN <<>>
            ELSE IF n \in R THEN Append(f[n - 1], c[n]) ELSE f[n - 1]
    IN f[Len(c)]

\* removeItem, for every item outside Q: the selection stays inside the cart.
ConSolo(Q) == Filas(carrito, {j \in DOMAIN carrito : carrito[j].id \in Q})

Dejar(Q) ==
    /\ carrito' = ConSolo(Q)
    /\ sel' = IF ConSolo(Q) = carrito THEN sel ELSE Acotar(sel, Len(ConSolo(Q)))

\* addItem, up to the read of the stock.
PedirAlta(p) ==
    /\ HayLugar(1)
    /\ \E s \in Lecturas(p) : Anotar(s) /\ Esperar([op |-> "alta", id |-> p, stock |-> s])

\* Does the stock that was read allow one more?  A read that failed does.
Alcanza(e) ==
    e.stock = Fallo \/ (e.stock > 0 /\ Cantidad(carrito, e.id) + 1 <= e.stock)

MasUno(p) ==
    IF EnCarrito(carrito, p)
    THEN [carrito EXCEPT ![Indice(carrito, p)].cant = @ + 1]
    ELSE Append(carrito, [id |-> p, cant |-> 1, desc |-> 0])

\* addItem, once the stock is read: the cart is read again, checked and written.
Alta(i) ==
    LET e == esperas[i] IN
    /\ e.op = "alta"
    /\ IF Alcanza(e)
       THEN /\ Cantidad(carrito, e.id) < MaxCant
            /\ carrito' = MasUno(e.id)
            /\ sel' = Indice(carrito', e.id) - 1
       ELSE UNCHANGED <<carrito, sel>>

\* updateQuantity(p, n), up to the read of the stock.  n was computed from the
\* cart on the screen and is not computed again.
PedirCantidad(p, n) ==
    IF n <= 0
    THEN Dejar(Productos \ {p}) /\ UNCHANGED <<esperas, fallo>>
    ELSE /\ HayLugar(1) /\ n <= MaxCant
         /\ \E s \in Lecturas(p) :
               Anotar(s) /\ Esperar([op |-> "cantidad", id |-> p, n |-> n, stock |-> s])
         /\ UNCHANGED <<carrito, sel>>

\* Faulty variant: the quantity is set whatever the stock.
FijarSinMirarStock(i) ==
    LET e == esperas[i] IN
    /\ e.op = "cantidad"
    /\ carrito' = [j \in DOMAIN carrito |->
           IF carrito[j].id = e.id THEN [carrito[j] EXCEPT !.cant = e.n] ELSE carrito[j]]
    /\ UNCHANGED sel

\* updateQuantity, once the stock is read.  An item that is gone stays gone.
Fijar(i) ==
    LET e == esperas[i] IN
    /\ e.op = "cantidad"
    /\ carrito' = [j \in DOMAIN carrito |->
           IF carrito[j].id = e.id /\ (e.stock = Fallo \/ e.n <= e.stock)
           THEN [carrito[j] EXCEPT !.cant = e.n] ELSE carrito[j]]
    /\ UNCHANGED sel

Continuar(i) ==
    /\ i \in DOMAIN esperas
    /\ Alta(i) \/ Fijar(i)
    /\ esperas' = Sin(i)
    /\ UNCHANGED <<global, promos, stock, fallo, abierto, objetivo, pago, contador,
                   historial, ultima>>

\* The effect of the page on cart and promotions: setPromoDiscounts.
EfectoPromos ==
    total' = IF UNCHANGED <<carrito, promos>> THEN total ELSE Total(promos', carrito')

\* What the actions on the cart leave alone.
FueraDelCarrito == UNCHANGED <<global, promos, stock, pago, contador, historial, ultima>>

-----------------------------------------------------------------------------
(* The scanner and the search. *)

\* Enter in the scanner.  The focus comes back to it (usePosFocus) unless one of
\* Modales is open, whatever else is.
Escanear(p) ==
    /\ ~AlgunModal /\ "busqueda" \notin abierto
    /\ HayLugar(1) /\ Esperar([op |-> "buscar", id |-> p])
    /\ UNCHANGED <<carrito, sel, fallo, abierto, objetivo>> /\ FueraDelCarrito

\* handleAddProduct, once backend and catalogue have answered: addItem is called
\* for a product with local stock, unless the backend says that it has none.
\* Whether a dialog has been opened meanwhile is not asked.
Encontrar(i) ==
    /\ i \in DOMAIN esperas /\ esperas[i].op = "buscar"
    /\ LET p == esperas[i].id IN
       \/ /\ stock[p] > 0
          /\ \E s \in Lecturas(p) :
                /\ Anotar(s)
                /\ esperas' = Append(Sin(i), [op |-> "alta", id |-> p, stock |-> s])
       \/ esperas' = Sin(i) /\ UNCHANGED fallo
    /\ UNCHANGED <<carrito, sel, abierto, objetivo>> /\ FueraDelCarrito

\* selectProduct: the search lists what had stock when it looked.
Elegir(p) ==
    /\ "busqueda" \in abierto
    /\ PedirAlta(p)
    /\ abierto' = abierto \ {"busqueda"}
    /\ UNCHANGED <<carrito, sel, objetivo>> /\ FueraDelCarrito

-----------------------------------------------------------------------------
(* The keys of the page (PosTerminal.tsx) and the buttons of the table, which *)
(* a dialog covers.                                                          *)

SinNada == ~AlgunModal /\ "busqueda" \notin abierto

Seleccionado == sel >= 0 /\ sel < Len(carrito)

\* Arrow keys: moveSelectionUp, moveSelectionDown; a click selects any row.
Mover ==
    /\ carrito # <<>>
    /\ \/ SinNada /\ sel' = IF sel <= 0 THEN Len(carrito) - 1 ELSE sel - 1
       \/ SinNada /\ sel' = IF sel >= Len(carrito) - 1 THEN 0 ELSE sel + 1
       \/ abierto = {} /\ \E j \in DOMAIN carrito : sel' = j - 1
    /\ UNCHANGED <<carrito, esperas, fallo, abierto, objetivo>> /\ FueraDelCarrito

\* Delete: removeSelectedItem.
Suprimir ==
    /\ SinNada /\ carrito # <<>> /\ Seleccionado
    /\ Dejar(Productos \ {carrito[sel + 1].id})
    /\ UNCHANGED <<esperas, fallo, abierto, objetivo>> /\ FueraDelCarrito

\* The keys + and -, on the selected row; - stops at one.
Sumar(d) ==
    /\ SinNada /\ Seleccionado
    /\ LET it == carrito[sel + 1] IN
       /\ d = -1 => it.cant > 1
       /\ PedirCantidad(it.id, it.cant + d)
    /\ UNCHANGED <<abierto, objetivo>> /\ FueraDelCarrito

\* The row of an item has buttons while units are left outside the promotions; the
\* row of a promotion, while the cart completes it.
ConFilaSuelta(j) == abierto = {} /\ j \in DOMAIN carrito /\ Sueltas(promos, carrito, j) > 0

ConFilaCombo(k) ==
    abierto = {} /\ k \in DOMAIN promos
    /\ ConjuntosFila(promos[k], Quedan(promos, carrito)[k - 1]) > 0

\* The buttons + and - of a row, the quantity typed into it, and the bin of the
\* row, all in units of the item: those of the promotion rows are added.
EditarFila(j) ==
    /\ ConFilaSuelta(j)
    /\ LET it == carrito[j]
           enCombos == it.cant - Sueltas(promos, carrito, j)
       IN \E n \in {it.cant - 1, it.cant + 1, enCombos} \cup {enCombos + v : v \in 1..MaxCant} :
             PedirCantidad(it.id, n)
    /\ UNCHANGED <<abierto, objetivo>> /\ FueraDelCarrito

\* handleDeleteCombo: every product of the row at once; those with units left
\* wait for their stock, each with the quantity computed now.
QuitarCombo(k) ==
    /\ ConFilaCombo(k)
    /\ LET m == promos[k]
           n == ConjuntosFila(m, Quedan(promos, carrito)[k - 1]) * m.cantidad
           suyo(it) == \E j \in DOMAIN m.productos : m.productos[j] = it.id
           quedan == Filas(carrito, {j \in DOMAIN carrito :
                                suyo(carrito[j]) /\ carrito[j].cant > n})
       IN /\ HayLugar(Len(quedan))
          /\ Dejar({p \in Productos : \E j \in DOMAIN carrito :
                       carrito[j].id = p /\ (suyo(carrito[j]) => carrito[j].cant > n)})
          /\ \E mal \in BOOLEAN :
                /\ fallo' = (fallo \/ (mal /\ quedan # <<>>))
                /\ esperas' = esperas \o [j \in DOMAIN quedan |->
                       [op |-> "cantidad", id |-> quedan[j].id, n |-> quedan[j].cant - n,
                        stock |-> IF mal THEN Fallo ELSE Leido(quedan[j].id)]]
    /\ UNCHANGED <<abierto, objetivo>> /\ FueraDelCarrito

\* COBRAR, DESCUENTO and CANCELAR need a cart; the keys of the first two, and that no
\* dialog of Modales be open.
HayQueCobrar == ~AlgunModal /\ carrito # <<>>

\* CANCELAR: clearCart.
Cancelar ==
    /\ HayQueCobrar /\ abierto = {}
    /\ carrito' = <<>> /\ sel' = -1 /\ global' = 0
    /\ UNCHANGED <<promos, stock, fallo, esperas, abierto, objetivo, pago, contador,
                   historial, ultima>>

-----------------------------------------------------------------------------
(* Dialogs (usePOSUIStore) and discounts (DiscountModal). *)

FueraDeDialogos == UNCHANGED <<carrito, global, sel, promos, stock, fallo, esperas,
                               contador, historial, ultima>>

\* F2, F5 and F7: search, price check, history of sales.
Abrir(d) ==
    /\ ~AlgunModal
    /\ abierto' = abierto \cup {d}
    /\ UNCHANGED <<objetivo, pago>> /\ FueraDeDialogos

\* Escape closes one dialog, in this order; the close button of any does too.
Cerrar ==
    \E d \in abierto :
        /\ \/ d = "busqueda" => ~AlgunModal
           \/ d # "busqueda"
        /\ abierto' = abierto \ {d}
        /\ objetivo' = IF d = "descuento" THEN Nadie ELSE objetivo
        /\ ultima' = IF d = "post" THEN Nada ELSE ultima
        /\ UNCHANGED <<carrito, global, sel, promos, stock, fallo, esperas, pago,
                       contador, historial>>

\* F8 and the button, for the sale; F3, for the selected item or else the first.
AbrirDescuento(p) ==
    /\ HayQueCobrar
    /\ p \in {Nadie, carrito[IF Seleccionado THEN sel + 1 ELSE 1].id}
    /\ abierto' = abierto \cup {"descuento"} /\ objetivo' = p
    /\ UNCHANGED pago /\ FueraDeDialogos

\* What the field and the buttons of the dialog let through.
Permitidos == {d \in Descuentos : d <= Limite} \cup {0}

\* handleApply and handleRemove.  Without its item the dialog is that of the sale.
AplicarDescuento(d) ==
    /\ "descuento" \in abierto
    /\ d \in Permitidos
    /\ IF EnCarrito(carrito, objetivo)
       THEN /\ carrito' = [carrito EXCEPT ![Indice(carrito, objetivo)].desc = d]
            /\ UNCHANGED global
       ELSE /\ global' = d
            /\ UNCHANGED carrito
    /\ abierto' = abierto \ {"descuento"} /\ objetivo' = Nadie
    /\ UNCHANGED <<sel, promos, stock, fallo, esperas, pago, contador, historial,
                   ultima>>

-----------------------------------------------------------------------------
(* PaymentModal. *)

\* finalTotal, of the form.
TotalVisible == IF global > 0 THEN ConGlobal(total, global) ELSE total

\* What is left to pay in cash (cashDue).
EnEfectivo(f, monto) == IF f.metodo = "mixto" THEN monto - f.tarjeta ELSE 0

\* efectivoRecibido: an empty field counts as the exact amount.
Recibido(f, monto) ==
    LET debe == IF f.metodo = "efectivo" THEN monto ELSE EnEfectivo(f, monto)
    IN IF f.metodo = "debito" \/ (f.metodo = "mixto" /\ debe <= 0) THEN 0
       ELSE IF f.recibido = Vacio THEN debe ELSE f.recibido

\* Faulty variant: what is handed over is not compared with the cash that is due.
PuedeSinContar(f, monto) ==
    /\ f.completo
    /\ f.metodo = "mixto" => EnEfectivo(f, monto) >= 0

\* canConfirm.
Puede(f, monto) ==
    /\ f.completo
    /\ f.metodo = "efectivo" => Recibido(f, monto) >= monto
    /\ f.metodo = "mixto" =>
          EnEfectivo(f, monto) >= 0 /\ Recibido(f, monto) >= EnEfectivo(f, monto)

\* F10 and COBRAR: the form is reset.
AbrirPago ==
    /\ HayQueCobrar
    /\ abierto' = abierto \cup {"pago"} /\ pago' = PagoNuevo
    /\ UNCHANGED objetivo /\ FueraDeDialogos

\* The fields of the amounts: the method, the cash, and what is not cash.
Rellenar ==
    /\ "pago" \in abierto
    /\ \/ \E m \in Metodos : pago' = [pago EXCEPT !.metodo = m]
       \/ /\ pago.metodo = "efectivo" \/ EnEfectivo(pago, TotalVisible) > 0
          /\ \E x \in Montos \cup {Vacio} : pago' = [pago EXCEPT !.recibido = x]
       \/ /\ pago.metodo = "mixto"
          /\ \E x \in Montos \cup {0} : pago' = [pago EXCEPT !.tarjeta = x]
    /\ pago' # pago
    /\ UNCHANGED <<abierto, objetivo>> /\ FueraDeDialogos

\* The kind of invoice and the data it asks for.
RellenarComprobante ==
    /\ "pago" \in abierto
    /\ pago' = [pago EXCEPT !.completo = ~pago.completo]
    /\ UNCHANGED <<abierto, objetivo>> /\ FueraDeDialogos

\* What a handler of the form was made with: its fields, and the total it showed.
Cierre == [form |-> pago, monto |-> TotalVisible]

\* The handler of Enter on window is made again when the form opens, when its
\* method changes and when canConfirm does: not when its amounts do.
EfectoTeclas ==
    captura' = IF "pago" \notin abierto' THEN Nada
               ELSE IF /\ "pago" \in abierto
                       /\ pago'.metodo = pago.metodo
                       /\ Puede(pago, TotalVisible)' = Puede(pago, TotalVisible)
               THEN captura ELSE Cierre'

-----------------------------------------------------------------------------
(* confirmSale (useSaleStore.ts), called by handleConfirmPayment. *)

\* The total that is charged: without discount if the discounted one is 0.
ACobrar == IF ConGlobal(total, global) # 0 THEN ConGlobal(total, global) ELSE total

\* pagos: those of the form when they are mixed, else one of the whole sale.
Pagos(f, monto) ==
    IF f.metodo = "mixto" THEN [tarjeta |-> f.tarjeta, efectivo |-> EnEfectivo(f, monto)]
    ELSE IF f.metodo = "debito" THEN [tarjeta |-> ACobrar, efectivo |-> 0]
    ELSE [tarjeta |-> 0, efectivo |-> ACobrar]

\* SaleRecord: the cart comes from the store, the rest from the form and from the
\* total of the handler that calls.
Registro(f, monto) ==
    [vacia |-> FALSE, total |-> total, totalConDescuento |-> ConGlobal(total, global),
     metodo |-> f.metodo, pagos |-> Pagos(f, monto),
     recibido |-> Recibido(f, monto),
     vuelto |-> IF f.metodo = "efectivo" THEN Recibido(f, monto) - monto
                ELSE Recibido(f, monto) - Mayor({0, EnEfectivo(f, monto)})]

\* deductLocalStock, one transaction, asked for before any later read.
Descontado == [p \in Productos |-> stock[p] - Cantidad(carrito, p)]

\* confirmSale, clearCart, and the dialog of the finished sale.  The queue of
\* OfflineSync gets the sale; nobody waits for it.
Vender(f, monto) ==
    /\ Puede(f, monto)
    /\ Len(historial) < MaxVentas
    /\ ultima' = Registro(f, monto)
    /\ stock' = Descontado
    /\ historial' = <<contador + 1>> \o historial
    /\ contador' = contador + 1
    /\ carrito' = <<>> /\ sel' = -1 /\ global' = 0
    /\ abierto' = (abierto \ {"pago"}) \cup {"post"}
    /\ UNCHANGED <<promos, fallo, esperas, objetivo, pago>>

\* The button, which also wants a valid address, and Enter in the field of the cash.
Confirmar == "pago" \in abierto /\ Vender(pago, TotalVisible)

\* Enter anywhere else in the form, with the handler that is there.
ConfirmarTecla ==
    /\ "pago" \in abierto /\ captura # Nada
    /\ captura.form.metodo # "efectivo"
    /\ Vender(captura.form, captura.monto)

-----------------------------------------------------------------------------
\* What the cashier does, and what comes by itself.
Toque ==
    \/ \E p \in Productos : Escanear(p) \/ Elegir(p)
    \/ Mover \/ Suprimir \/ Sumar(1) \/ Sumar(-1) \/ Cancelar
    \/ \E j \in 1..Len(carrito) : EditarFila(j)
    \/ \E k \in 1..Len(promos) : QuitarCombo(k)
    \/ \E d \in {"busqueda", "otro"} : Abrir(d)
    \/ Cerrar
    \/ \E p \in Productos \cup {Nadie} : AbrirDescuento(p)
    \/ \E d \in Permitidos : AplicarDescuento(d)
    \/ AbrirPago \/ Rellenar \/ RellenarComprobante
    \/ Confirmar \/ ConfirmarTecla

Llegada == \E i \in 1..MaxEsperas : Respuesta(i) \/ Encontrar(i) \/ Continuar(i)

Next ==
    /\ \/ toques < MaxToques /\ Toque /\ toques' = toques + 1
       \/ Llegada /\ UNCHANGED toques
    /\ EfectoPromos
    /\ EfectoTeclas

Spec == Init /\ [][Next]_vars

-----------------------------------------------------------------------------
(* Properties. *)

\* Every variable has a value of its kind.
TypeOK ==
    /\ carrito \in Seq([id : Productos, cant : Nat \ {0}, desc : 0..100])
    /\ global \in 0..100 /\ sel \in -1..Mayor({0, Len(carrito) - 1})
    /\ promos \in {<<>>} \cup Promos
    /\ stock \in [Productos -> Int] /\ fallo \in BOOLEAN
    /\ abierto \subseteq Dialogos
    /\ contador \in Nat /\ historial \in Seq(Nat)

\* The counter of tickets is shared by the sales, which add one, and by the answer
\* of the backend, which may come after sales were made (useSaleStore.ts:162-173).
\* No two sales of the session have the same number.
TicketsDistintos ==
    /\ \A i, j \in DOMAIN historial : i < j => historial[i] > historial[j]
    /\ \A i \in DOMAIN historial : historial[i] <= contador

\* Scans, + and the quantities typed into a row each wait for a read of the stock,
\* and several wait at once: unless a read failed, which lets the change through
\* (useCartStore.ts:108-116), no item asks for more than there was.
NuncaMasQueElStock ==
    fallo \/ \A i \in DOMAIN carrito : carrito[i].cant <= Existencias[carrito[i].id]

\* The cash that is handed over less the change is the cash of the payments, and the
\* change is not negative: also in a mixed sale confirmed by a key handler that
\* has not seen the last edits (PaymentModal.tsx:111-149, 222-235).
VueltoCorrecto ==
    (ultima # Nada /\ (ultima.metodo = "efectivo" => ultima.totalConDescuento # 0)) =>
        ultima.vuelto >= 0 /\ ultima.recibido - ultima.vuelto = ultima.pagos.efectivo

\* The sets a promotion gives: the largest number of times that the cart can serve
\* each of its groups.
Unidades == SumFunction([i \in DOMAIN carrito |-> carrito[i].cant])

Alcanzan(m, n) ==
    LET gs == GruposDe(m) IN
    \A k \in DOMAIN gs : n * gs[k].cantidad <= Juntadas(gs[k], carrito, Len(carrito))

Servidos(m) ==
    IF GruposDe(m) = <<>> THEN 0
    ELSE CHOOSE n \in 0..Unidades : Alcanzan(m, n) /\ ~Alcanzan(m, n + 1)

\* No item is in two groups of m: its units would be counted in both.
SinRepetir(m) ==
    LET gs == GruposDe(m) IN
    \A i \in DOMAIN carrito : \A j, k \in DOMAIN gs :
        carrito[i].id \in gs[j].prods /\ carrito[i].id \in gs[k].prods => j = k

\* The share of each item and the rest of its price are whole, as in floating point.
DivideExacto(m, n) ==
    LET quita == Cien * DescuentoTotal(m, carrito, n)
        valen == ValorCombo(m, carrito, n)
    IN \A i \in DOMAIN carrito :
        LET u == Descontadas(m, carrito, n, i)
            precio == Precio[carrito[i].id]
        IN /\ IF m.tipo = "porcentaje"
              THEN (m.valor * Escala * u) % carrito[i].cant = 0
              ELSE u # 0 /\ precio # 0 => (quita * u) % (valen * carrito[i].cant) = 0
           /\ (carrito[i].cant * precio * (Cien - PctPromo(<<m>>, carrito, i))) % Cien = 0

\* No amount larger than its sets cost meets loose units, which would pay the difference.
SinSobrante(m, n) ==
    m.tipo = "monto_fijo" =>
        \/ n * m.valor <= ValorCombo(m, carrito, n)
        \/ \A i \in DOMAIN carrito : Descontadas(m, carrito, n, i) \in {0, carrito[i].cant}

\* What the cart costs without a discount, and with m alone.
SinRebaja == SumFunction([i \in DOMAIN carrito |-> carrito[i].cant * Precio[carrito[i].id]])

ConRebaja(m) ==
    SumFunction([i \in DOMAIN carrito |->
        Rebajado(carrito[i].cant * Precio[carrito[i].id], PctPromo(<<m>>, carrito, i))])

\* Amounts and fixed prices whose discount can be told without spreading it.
Repartible(m, n) ==
    /\ m.activa /\ m.tipo # "porcentaje"
    /\ PorGrupos(m) /\ m.tipo = "precio_fijo_combo" => n < 2
    /\ SinRepetir(m) /\ DivideExacto(m, n) /\ SinSobrante(m, n)

\* However a discount is spread over the items and their loose units, an amount is
\* taken off once for each set the cart completes, and a fixed price leaves that of
\* the sets to pay; never more is taken off than the sets cost.  Left out are two
\* sets or more by groups, which DescuentoTotal charges too little for; an item in
\* two groups, whose units count twice; and an amount larger than its sets cost next
\* to loose units, which pay for the difference (usePromocionesStore.ts:100-304).
AhorroJusto ==
    \A k \in DOMAIN promos :
        LET m == promos[k]
            n == Servidos(m)
            valen == ValorCombo(m, carrito, n)
        IN \/ SinRebaja - ConRebaja(m) = IF m.tipo = "monto_fijo" THEN Menor({n * m.valor, valen})
                                         ELSE Mayor({0, valen - n * m.valor})
           \/ ~Repartible(m, n)

\* Promotions for which table and total are computed alike: by products, each once and
\* in one promotion, not by groups; an amount, or a percentage of at most 100.
Separadas ==
    LET activas == {n \in DOMAIN promos : promos[n].activa} IN
    /\ \A k \in activas :
           /\ promos[k].modo = "clasico" /\ promos[k].tipo # "precio_fijo_combo"
           /\ promos[k].tipo = "porcentaje" => promos[k].valor <= 100
    /\ \A j, k \in activas :
           \A x \in DOMAIN promos[j].productos, y \in DOMAIN promos[k].productos :
               promos[j].productos[x] = promos[k].productos[y] => j = k /\ x = y
    /\ \A k \in activas :
           LET n == Servidos(promos[k])
           IN SinSobrante(promos[k], n) /\ DivideExacto(promos[k], n)

\* The table splits the cart into rows of promotions and of loose units, the total
\* spreads each discount over the items: without manual discounts both come to the
\* same amount (SalesTable.tsx:49-133 and useCartStore.ts).
TablaYTotal ==
    (\A i \in DOMAIN carrito : carrito[i].desc = 0)
        => TotalFilas(promos, carrito) = total \/ ~Separadas
=============================================================================
