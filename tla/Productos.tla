----------------------------- MODULE Productos -----------------------------
(***************************************************************************)
(* The page of the products (pages/admin/GestionProductosPage.tsx), and    *)
(* the part of service/producto_service.go that answers it.  Which rows    *)
(* the search, the categories, the order and the pages leave in sight is   *)
(* the user's choice at each moment; the state of the rows that are in     *)
(* sight is chosen then too.                                               *)
(***************************************************************************)
EXTENDS Peticiones

CONSTANT Nombres        \* valid products: a name, with a bar code of its own

Listar == <<Pedido("listar", Nadie, Nada)>>

VistaInicial ==
    [filas |-> <<>>, cargando |-> TRUE, modal |-> "no", objetivo |-> Nadie,
     seleccion |-> {}, borrando |-> FALSE]

\* The bar code is unique; the stock of an inactive product is not adjusted, and none
\* goes below zero.
Servidor(s, q) ==
    CASE q.op = "listar" -> Acepta(s, s)
      [] q.op = "crear" ->
           IF \E i \in DOMAIN s : s[i].codigo = q.datos THEN Rechaza(s)
           ELSE Acepta(Poner(s, Nuevo(s), [codigo |-> q.datos, nombre |-> q.datos,
                                           stock |-> 0, activo |-> TRUE]), Nada)
      [] q.op = "actualizar" -> Acepta([s EXCEPT ![q.id].nombre = q.datos], Nada)
      [] q.op \in {"desactivar", "borrar"} -> Acepta([s EXCEPT ![q.id].activo = FALSE], Nada)
      [] q.op = "reactivar" -> Acepta([s EXCEPT ![q.id].activo = TRUE], Nada)
      [] q.op = "sumar" ->
           IF ~s[q.id].activo THEN Rechaza(s)
           ELSE LET t == [s EXCEPT ![q.id].stock = @ + 1] IN Acepta(t, t)
      [] q.op = "restar" ->
           IF ~s[q.id].activo \/ s[q.id].stock = 0 THEN Rechaza(s)
           ELSE LET t == [s EXCEPT ![q.id].stock = @ - 1] IN Acepta(t, t)

----------------------------------------------------------------------------
(* The user                                                                *)

\* What is open over the table.
EnForm == vista.modal = "form"
EnStock == vista.modal = "stock"
EnMasivo == vista.modal = "masivo"
SinModal == ~EnForm /\ ~EnStock /\ ~EnMasivo

\* Inactive rows are in sight only if they are asked for, and either state alone can be.
Filtros == [inactivos : BOOLEAN, estado : {"todos", "activo", "inactivo"}]
Pasa(p, f) ==
    /\ f.inactivos \/ p.activo
    /\ f.estado = "todos" \/ (f.estado = "activo") = p.activo

EnVista(f) ==
    IF vista.cargando \/ ~SinModal THEN {}
    ELSE {i \in DOMAIN vista.filas : Pasa(vista.filas[i], f)}
Filas == UNION {EnVista(f) : f \in Filtros}

AbrirAlta == SinModal /\ Toque([vista EXCEPT !.modal = "form", !.objetivo = Nadie], <<>>)

AbrirEdicion ==
    \E i \in Filas : Toque([vista EXCEPT !.modal = "form", !.objetivo = i], <<>>)

\* An edition sends neither the bar code nor the stock of its form, nor whether the
\* product is active.
Guardar ==
    /\ EnForm
    /\ \E nombre \in Nombres :
          Toque(vista, <<Pedido(IF vista.objetivo = Nadie THEN "crear" ELSE "actualizar",
                                vista.objetivo, nombre)>>)

AbrirStock ==
    \E i \in Filas : Toque([vista EXCEPT !.modal = "stock", !.objetivo = i], <<>>)

AjustarStock ==
    /\ EnStock
    /\ \E op \in {"sumar", "restar"} : Toque(vista, <<Pedido(op, vista.objetivo, Nada)>>)

CerrarModal == ~SinModal /\ Toque([vista EXCEPT !.modal = "no"], <<>>)

Alternan(q, i) == q.op \in {"desactivar", "reactivar"} /\ q.id = i

\* What to ask is decided by the row as it is shown: a second click before the first is
\* answered flips the row twice; one made while a second list is on its way may flip a
\* row that the list has already changed.
AlternarActivo ==
    \E i \in Filas :
        LET pedido == <<Pedido(IF vista.filas[i].activo THEN "desactivar" ELSE "reactivar",
                               i, Nada)>>
            otro == \/ \E n \in DOMAIN ida : Alternan(ida[n], i)
                    \/ \E n \in DOMAIN vuelta : Alternan(vuelta[n].q, i)
                    \/ EnVuelo({"listar"}) > 0
        IN  \/ otro /\ Tropiezo(vista, pedido)
            \/ ~otro /\ Toque(vista, pedido)

\* One row, or all that are in sight: when all of them are marked they are unmarked.
Marcar ==
    \E f \in Filtros : \E S \in SUBSET EnVista(f) \ {{}} :
        Toque([vista EXCEPT !.seleccion = IF S \subseteq @ THEN @ \ S ELSE @ \cup S], <<>>)

AbrirBorrado ==
    /\ SinModal /\ vista.seleccion # {}
    /\ Toque([vista EXCEPT !.modal = "masivo"], <<>>)

\* The products are deactivated one after another: `datos' are those still to go.
BorrarDesde(S) ==
    LET i == CHOOSE x \in S : \A y \in S : x <= y
    IN IF S = {} THEN <<Tras(Pedido("listar", Nadie, Nada), "borrar")>>
       ELSE <<Pedido("borrar", i, S \ {i})>>

BorrarMarcados ==
    /\ EnMasivo /\ ~vista.borrando
    /\ Toque([vista EXCEPT !.borrando = TRUE, !.cargando = @ \/ vista.seleccion = {}],
             BorrarDesde(vista.seleccion))

----------------------------------------------------------------------------
Recibir(m) ==
    LET v == vista
        cerrar(modal) == IF v.modal = modal THEN "no" ELSE v.modal
    IN  CASE m.q.op = "listar" ->
               LET w == [v EXCEPT !.cargando = FALSE, !.filas = IF m.ok THEN m.datos ELSE @]
               IN Queda(IF m.q.tras = "borrar"
                        THEN [w EXCEPT !.seleccion = {}, !.borrando = FALSE,
                                       !.modal = cerrar("masivo")]
                        ELSE w)
          [] m.q.op \in {"crear", "actualizar"} ->
               IF m.ok THEN Pide([v EXCEPT !.modal = cerrar("form"), !.cargando = TRUE], Listar)
               ELSE Queda(v)
          [] m.q.op \in {"desactivar", "reactivar"} ->
               Queda(IF m.ok /\ m.q.id \in DOMAIN v.filas
                     THEN [v EXCEPT !.filas[m.q.id].activo = ~@] ELSE v)
          [] m.q.op \in {"sumar", "restar"} ->
               Queda(IF m.ok THEN [v EXCEPT !.modal = cerrar("stock"),
                                            !.filas = [i \in DOMAIN @ |->
                                                IF i = m.q.id
                                                THEN [@[i] EXCEPT !.stock = m.datos[i].stock]
                                                ELSE @[i]]]
                     ELSE v)
          [] m.q.op = "borrar" ->         \* failed or not, the next one
               Pide([v EXCEPT !.cargando = @ \/ m.q.datos = {}], BorrarDesde(m.q.datos))

----------------------------------------------------------------------------
Init ==
    /\ PeticionesInit(VistaInicial, Listar)
    /\ \E n \in Nombres : srv = <<[codigo |-> n, nombre |-> n, stock |-> 1, activo |-> TRUE]>>

Responde(i) == Atiende(i, Servidor)
Recibe(i) == Llega(i, Recibir)

Next ==
    \/ AbrirAlta \/ AbrirEdicion \/ Guardar \/ AbrirStock \/ AjustarStock \/ CerrarModal
    \/ AlternarActivo \/ Marcar \/ AbrirBorrado \/ BorrarMarcados
    \/ Montar(VistaInicial, Listar)
    \/ \E i \in DOMAIN ida : Responde(i)
    \/ \E i \in DOMAIN vuelta : Recibe(i)

Mostrado == vista.filas = srv
Guardados == {{"borrar"}}
Ocupada == vista.cargando \/ vista.borrando
=============================================================================
