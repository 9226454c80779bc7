------------------------------- MODULE Listas -------------------------------
(***************************************************************************)
(* The page of the price lists (pages/admin/ListasPreciosPage.tsx): the    *)
(* table of lists, and the detail of one with the discount of each of its  *)
(* products; and the part of service/lista_precios_service.go that answers *)
(* it.  The PDF, the order of the rows and the number of products of each  *)
(* list are left out.                                                      *)
(***************************************************************************)
EXTENDS Peticiones

CONSTANTS
    Nombres,        \* valid names of lists; one of them can be searched for
    Articulos,      \* the active products
    Descuentos      \* percentages between 0 and 90

Todas == Nada                       \* the empty search
Coinciden(s, filtro) ==
    [i \in {j \in DOMAIN s : filtro \in {Todas, s[j].nombre}} |-> s[i].nombre]

Listar(filtro) == <<Pedido("listar", Nadie, filtro)>>

VistaInicial ==
    [listas |-> <<>>, filtro |-> Todas, cargando |-> TRUE, modal |-> "no", editando |-> Nadie,
     borrar |-> Nadie, guardando |-> FALSE, detalle |-> Nada, abriendo |-> FALSE,
     dialogo |-> "no", aplicando |-> FALSE]

Detalle(s, i) == [id |-> i, nombre |-> s[i].nombre, items |-> s[i].items]

Servidor(s, q) ==
    LET repetido == \E i \in DOMAIN s \ {q.id} : s[i].nombre = q.datos
        hay == q.id \in DOMAIN s
        fijar(items) == [s EXCEPT ![q.id].items = items]
    IN  IF ~hay /\ q.op \notin {"listar", "crear"} THEN Rechaza(s)
        ELSE
        CASE q.op = "listar" -> Acepta(s, [listas |-> Coinciden(s, q.datos)])
          [] q.op = "crear" ->
               IF repetido THEN Rechaza(s)
               ELSE Acepta(Poner(s, Nuevo(s), [nombre |-> q.datos, items |-> <<>>]), Nada)
          [] q.op = "actualizar" ->
               IF repetido THEN Rechaza(s) ELSE Acepta([s EXCEPT ![q.id].nombre = q.datos], Nada)
          [] q.op = "eliminar" -> Acepta([i \in DOMAIN s \ {q.id} |-> s[i]], Nada)
          [] q.op = "obtener" -> Acepta(s, Detalle(s, q.id))
          [] q.op \in {"agregar", "descuento"} ->
               Acepta(fijar(Poner(s[q.id].items, q.datos.articulo, q.datos.pct)), Nada)
          [] q.op = "quitar" ->
               Acepta(fijar([p \in DOMAIN s[q.id].items \ {q.datos.articulo} |-> s[q.id].items[p]]),
                      Nada)
          [] q.op = "masivo" ->
               LET t == fijar([p \in Articulos |-> q.datos.pct]) IN Acepta(t, Detalle(t, q.id))

----------------------------------------------------------------------------
(* The table of lists                                                      *)

\* The table, or the form or the question that is open over it; the detail hides them all.
EnTabla == vista.detalle = Nada /\ vista.modal = "no"
EnForm == vista.detalle = Nada /\ vista.modal = "form"
EnBaja == vista.detalle = Nada /\ vista.modal = "borrar"
Filas == IF EnTabla /\ ~vista.cargando THEN DOMAIN vista.listas ELSE {}

Buscado == CHOOSE n \in Nombres : TRUE
\* A change is followed by the list with the search of the moment it was asked for.
ConBusqueda(pedido) == Tras(pedido, IF vista.filtro = Todas THEN "" ELSE "filtrada")

\* The answer that opens a detail, or that fills it again, may be older than a change
\* made meanwhile.
Cambia(v, pedidos) ==
    \/ EnVuelo({"obtener", "masivo"}) = 0 /\ Toque(v, pedidos)
    \/ EnVuelo({"obtener", "masivo"}) > 0 /\ Tropiezo(v, pedidos)

\* A search while a change is on its way: the list that follows the change is that of the
\* search before.
Buscar ==
    /\ EnTabla
    /\ \E filtro \in {Todas, Buscado} \ {vista.filtro} :
          LET v == [vista EXCEPT !.filtro = filtro, !.cargando = TRUE]
          IN  IF EnVuelo({"crear", "actualizar", "eliminar", "masivo"}) = 0
              THEN Recarga(v, Listar(filtro)) ELSE Tropiezo(v, Listar(filtro))

AbrirDetalle ==
    \E i \in Filas : Toque([vista EXCEPT !.abriendo = TRUE], <<Pedido("obtener", i, Nada)>>)

AbrirForm ==
    \/ EnTabla /\ Toque([vista EXCEPT !.modal = "form", !.editando = Nadie], <<>>)
    \/ \E i \in Filas : Toque([vista EXCEPT !.modal = "form", !.editando = i], <<>>)

PedirBaja == \E i \in Filas : Toque([vista EXCEPT !.modal = "borrar", !.borrar = i], <<>>)

CerrarModal ==
    /\ EnForm \/ EnBaja
    /\ Toque([vista EXCEPT !.modal = "no"], <<>>)

Guardar ==
    /\ EnForm /\ ~vista.guardando
    /\ \E nombre \in Nombres :
          Cambia([vista EXCEPT !.guardando = TRUE],
                 <<ConBusqueda(Pedido(IF vista.editando = Nadie THEN "crear" ELSE "actualizar",
                                      vista.editando, nombre))>>)

ConfirmarBaja ==
    /\ EnBaja
    /\ Cambia(vista, <<ConBusqueda(Pedido("eliminar", vista.borrar, Nada))>>)

----------------------------------------------------------------------------
(* The detail                                                              *)

\* What is open over the detail; confirming a discount for all asks twice.
EnDialogo(d) == vista.detalle # Nada /\ vista.dialogo = d
EnDetalle == EnDialogo("no")
EnAgregar == EnDialogo("agregar")
EnMasivo == EnDialogo("masivo") \/ EnDialogo("confirmar")
Items == IF EnDetalle /\ ~vista.abriendo THEN DOMAIN vista.detalle.items ELSE {}
DelDetalle(op, articulo, pct) ==
    <<ConBusqueda(Pedido(op, vista.detalle.id, [articulo |-> articulo, pct |-> pct]))>>

Volver == EnDetalle /\ Toque([vista EXCEPT !.detalle = Nada], <<>>)

AbrirDialogo ==
    /\ EnDetalle
    /\ \E d \in {"agregar", "masivo"} : Toque([vista EXCEPT !.dialogo = d], <<>>)

CerrarDialogo ==
    /\ EnAgregar \/ EnMasivo
    /\ Toque([vista EXCEPT !.dialogo = "no"], <<>>)

Agregar ==
    /\ EnAgregar /\ ~vista.guardando
    /\ \E p \in Articulos \ DOMAIN vista.detalle.items, d \in Descuentos :
          Toque([vista EXCEPT !.guardando = TRUE], DelDetalle("agregar", p, d))

Quitar == \E p \in Items : Toque(vista, DelDetalle("quitar", p, 0))

CambiarDescuento ==
    \E p \in Items : \E d \in Descuentos \ {vista.detalle.items[p]} :
        Toque(vista, DelDetalle("descuento", p, d))

\* Only the second time is a request; the second question goes back to the first.
ContinuarMasivo ==
    /\ EnMasivo
    /\ Toque([vista EXCEPT !.dialogo = IF @ = "masivo" THEN "confirmar" ELSE "masivo"], <<>>)

AplicarMasivo ==
    /\ EnDialogo("confirmar") /\ ~vista.aplicando
    /\ \E d \in Descuentos :
          Toque([vista EXCEPT !.aplicando = TRUE], DelDetalle("masivo", 0, d))

----------------------------------------------------------------------------
(* The answers.  `tras' tells a list what else ends with it.               *)

Recibir(m) ==
    LET v == vista
        q == m.q
        otra(tras) ==
            <<Tras(Pedido("listar", Nadie,
                          IF q.tras = "filtrada" THEN Buscado ELSE Todas),
                   tras)>>
        relee(w) == Pide([w EXCEPT !.abriendo = TRUE],
                         <<Tras(Pedido("obtener", q.id, Nada), q.op)>>)
    IN  CASE q.op = "listar" ->
               Queda([v EXCEPT !.cargando = FALSE,
                               !.listas = IF m.ok THEN m.datos.listas ELSE @,
                               !.guardando = @ /\ q.tras # "guardar",
                               !.aplicando = @ /\ q.tras # "masivo"])
          [] q.op \in {"crear", "actualizar"} ->
               IF m.ok THEN Pide([v EXCEPT !.modal = IF @ = "form" THEN "no" ELSE @,
                                           !.cargando = TRUE], otra("guardar"))
               ELSE Queda([v EXCEPT !.guardando = FALSE])
          [] q.op = "eliminar" ->
               IF m.ok THEN Pide([v EXCEPT !.modal = IF @ = "borrar" THEN "no" ELSE @,
                                           !.cargando = TRUE], otra(""))
               ELSE Queda(v)
          [] q.op = "obtener" ->
               Queda([v EXCEPT !.abriendo = FALSE,
                               !.detalle = IF m.ok THEN m.datos ELSE @,
                               !.guardando = @ /\ q.tras # "agregar"])
          [] q.op = "agregar" ->
               IF m.ok THEN relee([v EXCEPT !.dialogo = IF @ = "agregar" THEN "no" ELSE @])
               ELSE Queda([v EXCEPT !.guardando = FALSE])
          [] q.op \in {"quitar", "descuento"} -> IF m.ok THEN relee(v) ELSE Queda(v)
          [] q.op = "masivo" ->
               IF m.ok THEN Pide([v EXCEPT !.detalle = m.datos, !.cargando = TRUE,
                                           !.dialogo = IF @ \in {"masivo", "confirmar"}
                                                       THEN "no" ELSE @], otra("masivo"))
               ELSE Queda([v EXCEPT !.aplicando = FALSE])

Init ==
    /\ PeticionesInit(VistaInicial, Listar(Todas))
    /\ srv = <<[nombre |-> CHOOSE n \in Nombres : TRUE,
                items |-> [p \in {CHOOSE a \in Articulos : TRUE} |-> CHOOSE d \in Descuentos : TRUE]]>>

Responde(i) == Atiende(i, Servidor)
Recibe(i) == Llega(i, Recibir)

Next ==
    \/ Buscar \/ AbrirDetalle \/ AbrirForm \/ PedirBaja \/ CerrarModal
    \/ Guardar \/ ConfirmarBaja
    \/ Volver \/ AbrirDialogo \/ CerrarDialogo \/ Agregar \/ Quitar \/ CambiarDescuento
    \/ ContinuarMasivo \/ AplicarMasivo
    \/ Montar(VistaInicial, Listar(Todas))
    \/ \E i \in DOMAIN ida : Responde(i)
    \/ \E i \in DOMAIN vuelta : Recibe(i)

\* The table is that of the search, and the detail that of its list.
Mostrado ==
    /\ vista.listas = Coinciden(srv, vista.filtro)
    /\ vista.detalle # Nada => /\ vista.detalle.id \in DOMAIN srv
                               /\ vista.detalle = Detalle(srv, vista.detalle.id)
Guardados == {{"crear", "actualizar", "agregar"}, {"masivo"}}
Ocupada == vista.cargando \/ vista.guardando \/ vista.abriendo \/ vista.aplicando
=============================================================================
