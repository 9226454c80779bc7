------------------------------- MODULE Compras -------------------------------
(***************************************************************************)
(* The pages of the purchases (pages/admin/ComprasPage.tsx, NuevaCompra-   *)
(* Page.tsx, DetalleCompraPage.tsx) and service/compra_service.go.  Going  *)
(* from one page to another leaves the first and its requests behind.      *)
(* The supplier, the dates that are always there and the texts are left    *)
(* out.                                                                    *)
(***************************************************************************)
EXTENDS Peticiones, Functions

CONSTANTS
    Renglones,      \* rows that can be typed: [con |-> has a name, neto, iva, dto]
    MaxRenglones,   \* bound: rows of a purchase
    Montos          \* amounts of a payment; 0 is an untouched one

Estados == {"pendiente", "pagada", "anulada"}
Todas == "todas"

DelEstado(s, filtro) == [i \in {j \in DOMAIN s : filtro \in {Todas, s[j].estado}} |-> s[i]]
Listar(filtro) == <<Tras(Pedido("listar", Nadie, Nada), filtro)>>

Vacia ==
    [ruta |-> "lista", filas |-> <<>>, filtro |-> Todas, cargando |-> FALSE, borrar |-> Nadie,
     ocupada |-> FALSE, id |-> Nadie, compra |-> Nada]
Lista == [Vacia EXCEPT !.cargando = TRUE]
Nueva == [Vacia EXCEPT !.ruta = "nueva"]
Detalle(i) == [Vacia EXCEPT !.ruta = "detalle", !.id = i, !.cargando = TRUE]

----------------------------------------------------------------------------
(* Amounts, in hundredths                                                  *)

Sumar(s, Campo(_)) == FoldFunction(LAMBDA x, y : x + y, 0, [i \in DOMAIN s |-> Campo(s[i])])

Neto(r) == r.neto - r.dto
ConIva(r) == Neto(r) + r.iva

\* The page adds the tax; the total that the backend compares with the payments has none.
TotalVisible(renglones) == Sumar(renglones, ConIva)
TotalGuardado(renglones) == Sumar(renglones, Neto)

Pagado(pagos) == Sumar(pagos, LAMBDA p : p)

\* What a purchase still owes, as its row of the table says.
Saldo(c) == IF c.estado # "pendiente" \/ c.pagado >= c.total THEN 0 ELSE c.total - c.pagado

----------------------------------------------------------------------------
(* The backend: only a purchase with a due date is accepted.               *)

Creada(datos) ==
    LET pagado == Pagado(datos.pagos)
    IN  [estado |-> IF datos.pagos # <<>> /\ pagado >= TotalGuardado(datos.renglones)
                    THEN "pagada" ELSE "pendiente",
         total |-> TotalVisible(datos.renglones),
         pagado |-> pagado]

Servidor(s, q) ==
    IF q.op \notin {"listar", "crear"} /\ q.id \notin DOMAIN s THEN Rechaza(s)
    ELSE
    CASE q.op = "listar" -> Acepta(s, [filas |-> DelEstado(s, q.tras)])
      [] q.op = "crear" ->
           IF q.datos.vence THEN Acepta(Poner(s, Nuevo(s), Creada(q.datos)), Nada) ELSE Rechaza(s)
      [] q.op = "obtener" -> Acepta(s, s[q.id])
      [] q.op \in {"estado", "estadoDetalle"} ->
           LET t == [s EXCEPT ![q.id].estado = q.tras] IN Acepta(t, t[q.id])
      [] q.op = "eliminar" -> Acepta([i \in DOMAIN s \ {q.id} |-> s[i]], Nada)

----------------------------------------------------------------------------
(* The list                                                                *)

Confirmacion == vista.ruta = "lista" /\ vista.borrar # Nadie
EnLista == vista.ruta = "lista" /\ ~Confirmacion
Filas == IF EnLista /\ ~vista.cargando THEN DOMAIN vista.filas ELSE {}

\* A list on its way does not know of a change made after it was asked for.
Cambia(v, pedidos) ==
    \/ EnVuelo({"listar"}) = 0 /\ Toque(v, pedidos)
    \/ EnVuelo({"listar"}) > 0 /\ Tropiezo(v, pedidos)

Filtrar ==
    /\ EnLista
    /\ \E filtro \in ({Todas} \cup Estados) \ {vista.filtro} :
          Recarga([vista EXCEPT !.filtro = filtro, !.cargando = TRUE], Listar(filtro))

Actualizar ==
    /\ EnLista /\ ~vista.cargando
    /\ Recarga([vista EXCEPT !.cargando = TRUE], Listar(vista.filtro))

CambiarEstado ==
    \E i \in Filas : \E estado \in Estados \ {vista.filas[i].estado} :
        Cambia(vista, <<Tras(Pedido("estado", i, Nada), estado)>>)

PedirBaja == \E i \in Filas : Toque([vista EXCEPT !.borrar = i], <<>>)

CancelarBaja == Confirmacion /\ Toque([vista EXCEPT !.borrar = Nadie], <<>>)

ConfirmarBaja ==
    /\ Confirmacion /\ ~vista.ocupada
    /\ Cambia([vista EXCEPT !.ocupada = TRUE], <<Pedido("eliminar", vista.borrar, Nada)>>)

IrANueva == EnLista /\ Montar(Nueva, <<>>)
IrADetalle == \E i \in Filas : Montar(Detalle(i), <<Pedido("obtener", i, Nada)>>)

----------------------------------------------------------------------------
(* A new purchase.  There is always a row; an empty one is not sent, nor a *)
(* payment of nothing.                                                     *)

EnNueva == vista.ruta = "nueva"

Tecleados == UNION {[1..n -> Renglones] : n \in 1..MaxRenglones}
PagosTecleados == {<<>>} \cup {<<m>> : m \in Montos}

Llenos(renglones) == SelectSeq(renglones, LAMBDA r : r.con \/ r.neto > 0)

GuardarCompra ==
    /\ EnNueva /\ ~vista.ocupada
    /\ \E renglones \in Tecleados, pagos \in PagosTecleados, vence \in BOOLEAN :
          /\ Llenos(renglones) # <<>>
          /\ Toque([vista EXCEPT !.ocupada = TRUE],
                   <<Pedido("crear", Nadie,
                            [renglones |-> Llenos(renglones), vence |-> vence,
                             pagos |-> SelectSeq(pagos, LAMBDA m : m > 0)])>>)

----------------------------------------------------------------------------
(* The detail                                                              *)

EnDetalle == vista.ruta = "detalle" /\ ~vista.cargando

CambiarEstadoDetalle ==
    /\ EnDetalle /\ vista.compra # Nada /\ ~vista.ocupada
    /\ \E estado \in Estados \ {vista.compra.estado} :
          Toque([vista EXCEPT !.ocupada = TRUE],
                <<Tras(Pedido("estadoDetalle", vista.id, Nada), estado)>>)

Volver == (EnNueva \/ EnDetalle) /\ Montar(Lista, Listar(Todas))

----------------------------------------------------------------------------
(* The answers                                                             *)

\* A new state is put in its row, which stays in the table whatever the filter says.
Recibir(m) ==
    LET v == vista
        q == m.q
        libre == [v EXCEPT !.ocupada = FALSE]
    IN  CASE q.op = "listar" ->
               Queda([v EXCEPT !.cargando = FALSE, !.filas = IF m.ok THEN m.datos.filas ELSE @])
          [] q.op = "estado" ->
               IF ~m.ok \/ q.id \notin DOMAIN v.filas THEN Queda(v)
               ELSE LET w == [v EXCEPT !.filas[q.id].estado = m.datos.estado]
                    IN  IF v.filtro \in {Todas, m.datos.estado} THEN Queda(w) ELSE Inventa(w)
          [] q.op = "eliminar" ->
               IF m.ok
               THEN Queda([libre EXCEPT !.borrar = Nadie,
                                        !.filas = [i \in DOMAIN @ \ {q.id} |-> @[i]]])
               ELSE Queda(libre)
          [] q.op = "crear" ->
               IF ~m.ok THEN Queda(libre)
               ELSE IF v.ruta = "lista" THEN Queda(v)
               ELSE LlevaA(Lista, Listar(Todas))
          [] q.op = "obtener" ->
               Queda([v EXCEPT !.cargando = FALSE, !.compra = IF m.ok THEN m.datos ELSE @])
          [] q.op = "estadoDetalle" ->
               IF m.ok /\ v.compra # Nada
               THEN Queda([libre EXCEPT !.compra.estado = m.datos.estado]) ELSE Queda(libre)

Init ==
    /\ PeticionesInit(Lista, Listar(Todas))
    /\ srv = <<[estado |-> "pendiente", total |-> 121, pagado |-> 0]>>

Responde(i) == Atiende(i, Servidor)
Recibe(i) == Llega(i, Recibir)

Next ==
    \/ Filtrar \/ Actualizar \/ CambiarEstado \/ PedirBaja \/ CancelarBaja \/ ConfirmarBaja
    \/ IrANueva \/ IrADetalle
    \/ GuardarCompra
    \/ CambiarEstadoDetalle \/ Volver
    \/ \E i \in DOMAIN ida : Responde(i)
    \/ \E i \in DOMAIN vuelta : Recibe(i)

Mostrado ==
    /\ vista.ruta = "lista" => vista.filas = DelEstado(srv, vista.filtro)
    /\ vista.compra # Nada => /\ vista.id \in DOMAIN srv
                              /\ vista.compra = srv[vista.id]
Guardados == {{"crear"}, {"eliminar"}, {"estadoDetalle"}}
Ocupada == vista.cargando \/ vista.ocupada
=============================================================================
