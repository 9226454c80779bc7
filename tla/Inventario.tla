----------------------------- MODULE Inventario -----------------------------
(***************************************************************************)
(* The page of the inventory (pages/admin/InventarioPage.tsx): alerts,     *)
(* links between a pack and its units, and manual adjustments; and the     *)
(* part of service/inventario_service.go that answers it.                  *)
(*                                                                         *)
(* The four requests of a load, of which the page takes those that succeed,*)
(* are one here, that fails as a whole.  The list of movements, which the  *)
(* page loads and never changes, is left out.  Every tab can be opened at  *)
(* any moment.                                                             *)
(***************************************************************************)
EXTENDS Peticiones, Integers

CONSTANTS
    Bulto, Unidad,      \* two products: a pack, and what it holds
    Cantidades,         \* quantities that pass the validation of the forms
    Minimo              \* stock at or below which a product is short

Productos == {Bulto, Unidad}

Cargar == <<Pedido("cargar", Nadie, Nada)>>

VistaInicial ==
    [stock |-> <<>>, vinculos |-> <<>>, alertas |-> {}, cargando |-> TRUE, modal |-> "no",
     vinculo |-> Nadie, guardando |-> {}]

Cortos(stock) == {p \in DOMAIN stock : stock[p] <= Minimo}
Respuesta(s) == [stock |-> s.stock, vinculos |-> s.vinculos, alertas |-> Cortos(s.stock)]

----------------------------------------------------------------------------
(* The backend: a link is a pack, its units and how many; there is one for *)
(* each pair of products.                                                  *)

Servidor(s, q) ==
    LET suma(p, n) == [s EXCEPT !.stock[p] = @ + n]
        abre(u) == [s EXCEPT !.stock[Bulto] = @ - 1, !.stock[Unidad] = @ + u]
        ok(t) == Acepta(t, Respuesta(t))
        hay == q.id \in DOMAIN s.vinculos
    IN  CASE q.op \in {"cargar", "alertas"} -> ok(s)
          [] q.op = "ajustar" ->
               IF s.stock[q.id] + q.datos.delta < 0 THEN Rechaza(s) ELSE ok(suma(q.id, q.datos.delta))
          [] q.op = "crear" ->
               IF s.vinculos # <<>> THEN Rechaza(s)
               ELSE ok([s EXCEPT !.vinculos = Poner(@, 1, q.datos.delta)])
          [] q.op = "editar" ->
               IF hay THEN ok([s EXCEPT !.vinculos[q.id] = q.datos.delta]) ELSE Rechaza(s)
          [] q.op = "eliminar" ->
               ok([s EXCEPT !.vinculos = [i \in DOMAIN @ \ {q.id} |-> @[i]]])
          [] q.op = "desarmar" ->
               IF hay /\ s.stock[Bulto] > 0 THEN ok(abre(s.vinculos[q.id])) ELSE Rechaza(s)

----------------------------------------------------------------------------
(* The user                                                                *)

SinModal == vista.modal = "no"
Vinculos == IF vista.cargando \/ ~SinModal THEN {} ELSE DOMAIN vista.vinculos
Existe(p) == p \in DOMAIN vista.stock

\* Alerts of the backend, or those that the page works out if it has none.
Criticos == IF vista.alertas # {} THEN vista.alertas ELSE Cortos(vista.stock)

AbrirDesarme ==
    \E i \in Vinculos :
        /\ Existe(Bulto) => vista.stock[Bulto] # 0
        /\ Toque([vista EXCEPT !.modal = "desarmar", !.vinculo = i], <<>>)

AbrirVinculo ==
    \/ SinModal /\ Toque([vista EXCEPT !.modal = "crear"], <<>>)
    \/ \E i \in Vinculos, modal \in {"editar", "eliminar"} :
          Toque([vista EXCEPT !.modal = modal, !.vinculo = i], <<>>)

\* The dialogue of an unpacking, and the three of a link: the buttons of each wait for its
\* own request.
Confirmacion == vista.modal = "desarmar"
Libre(modal) == vista.modal = modal /\ modal \notin vista.guardando

CerrarModal == ~SinModal /\ Toque([vista EXCEPT !.modal = "no"], <<>>)

\* Nothing marks that an unpacking is on its way.
Desarmar ==
    Confirmacion /\ Toque(vista, <<Pedido("desarmar", vista.vinculo, Nada)>>)

Ocupar(modal) == [vista EXCEPT !.guardando = @ \cup {modal}]
Unidades(n) == [delta |-> n, previsto |-> 0]

GuardarVinculo ==
    \/ /\ Libre("crear") /\ {Bulto, Unidad} \subseteq DOMAIN vista.stock
       /\ \E n \in Cantidades : Toque(Ocupar("crear"), <<Pedido("crear", Nadie, Unidades(n))>>)
    \/ /\ Libre("editar")
       /\ \E n \in Cantidades :
             Toque(Ocupar("editar"), <<Pedido("editar", vista.vinculo, Unidades(n))>>)
    \/ /\ Libre("eliminar")
       /\ Toque(Ocupar("eliminar"), <<Pedido("eliminar", vista.vinculo, Nada)>>)

\* What the page expects an adjustment to leave, from the stock it shows.
Previsto(p, delta) ==
    IF vista.stock[p] + delta < 0 THEN 0 ELSE vista.stock[p] + delta

Ajustar ==
    /\ SinModal
    /\ \E p \in DOMAIN vista.stock, n \in Cantidades : \E delta \in {n, -n} :
          Toque(vista, <<Pedido("ajustar", p, [delta |-> delta,
                                               previsto |-> Previsto(p, delta)])>>)

----------------------------------------------------------------------------
Recibir(m) ==
    LET v == vista
        fijar(p, n) == [v EXCEPT !.stock = [x \in DOMAIN @ |-> IF x = p THEN n ELSE @[x]]]
        cerrar(w) == [w EXCEPT !.modal = IF @ = m.q.op THEN "no" ELSE @]
        libera(w) == [w EXCEPT !.guardando = @ \ {m.q.op}]
        termina(w) == [w EXCEPT !.guardando = @ \ {m.q.tras}]
    IN  CASE m.q.op = "cargar" ->
               Queda(termina(IF m.ok THEN [v EXCEPT !.cargando = FALSE,
                                                    !.stock = m.datos.stock,
                                                    !.vinculos = m.datos.vinculos,
                                                    !.alertas = m.datos.alertas]
                             ELSE [v EXCEPT !.cargando = FALSE]))
          [] m.q.op = "alertas" ->
               Queda(IF m.ok THEN [v EXCEPT !.alertas = m.datos.alertas] ELSE v)
          [] m.q.op = "ajustar" ->
               IF m.ok THEN Pide(fijar(m.q.id, m.datos.stock[m.q.id]),
                                 <<Pedido("alertas", Nadie, Nada)>>)
               \* even when the backend refuses, the page shows what it expected
               ELSE Inventa(fijar(m.q.id, m.q.datos.previsto))
          [] m.q.op \in {"crear", "editar", "eliminar", "desarmar"} ->
               IF m.ok THEN Pide([cerrar(v) EXCEPT !.cargando = TRUE],
                                 <<Tras(Pedido("cargar", Nadie, Nada), m.q.op)>>)
               ELSE Queda(libera(v))

Init ==
    /\ PeticionesInit(VistaInicial, Cargar)
    /\ srv = [stock |-> [p \in Productos |-> 1], vinculos |-> <<2>>]

Responde(i) == Atiende(i, Servidor)
Recibe(i) == Llega(i, Recibir)

Next ==
    \/ AbrirDesarme \/ AbrirVinculo \/ CerrarModal
    \/ Desarmar \/ GuardarVinculo \/ Ajustar
    \/ Montar(VistaInicial, Cargar)
    \/ \E i \in DOMAIN ida : Responde(i)
    \/ \E i \in DOMAIN vuelta : Recibe(i)

Mostrado ==
    /\ vista.stock = srv.stock
    /\ vista.vinculos = srv.vinculos
    /\ Criticos = Cortos(srv.stock)
Guardados == {{"crear"}, {"editar"}, {"eliminar"}}
Ocupada == vista.cargando \/ vista.guardando # {}
=============================================================================
