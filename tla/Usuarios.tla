------------------------------ MODULE Usuarios ------------------------------
(***************************************************************************)
(* The page of the users (pages/admin/UsuariosPage.tsx), and the part of   *)
(* service/auth_service.go that answers it.                                *)
(***************************************************************************)
EXTENDS Peticiones

CONSTANT Nombres        \* valid names; a new user's username is one of them too

Listar(todos) == <<Pedido(IF todos THEN "listarTodos" ELSE "listar", Nadie, Nada)>>

VistaInicial ==
    [filas |-> <<>>, cargando |-> TRUE, modal |-> FALSE, editando |-> Nadie,
     inactivos |-> FALSE]

Servidor(s, q) ==
    CASE q.op = "listarTodos" -> Acepta(s, s)
      [] q.op = "listar" -> Acepta(s, [i \in {j \in DOMAIN s : s[j].activo} |-> s[i]])
      [] q.op = "crear" ->        \* the username is unique
           IF \E i \in DOMAIN s : s[i].usuario = q.datos THEN Rechaza(s)
           ELSE Acepta(Poner(s, Nuevo(s), [usuario |-> q.datos, nombre |-> q.datos,
                                           activo |-> TRUE]), Nada)
      [] q.op = "actualizar" -> Acepta([s EXCEPT ![q.id].nombre = q.datos], Nada)
      [] q.op = "desactivar" -> Acepta([s EXCEPT ![q.id].activo = FALSE], Nada)
      [] q.op = "reactivar" -> Acepta([s EXCEPT ![q.id].activo = TRUE], Nada)

----------------------------------------------------------------------------
(* The user                                                                *)

\* What the form that is open can hold; nothing else is reached while it is.
Formulario == IF vista.modal THEN Nombres ELSE {}
Filas == IF vista.modal \/ vista.cargando THEN {} ELSE DOMAIN vista.filas

AbrirAlta ==
    /\ ~vista.modal
    /\ Toque([vista EXCEPT !.modal = TRUE, !.editando = Nadie], <<>>)

AbrirEdicion ==
    \E i \in Filas : Toque([vista EXCEPT !.modal = TRUE, !.editando = i], <<>>)

\* Nothing marks the page as busy: the button can be pressed again.
Guardar ==
    \E nombre \in Formulario :
        Toque(vista, <<Tras(Pedido(IF vista.editando = Nadie THEN "crear" ELSE "actualizar",
                                   vista.editando, nombre),
                            IF vista.inactivos THEN "listarTodos" ELSE "listar")>>)

CerrarModal == vista.modal /\ Toque([vista EXCEPT !.modal = FALSE], <<>>)

MostrarInactivos ==
    /\ ~vista.modal
    /\ Recarga([vista EXCEPT !.inactivos = ~@, !.cargando = TRUE], Listar(~vista.inactivos))

\* What to ask is decided by the row as it is shown.  A second click before the first
\* is answered flips the row twice; one made while a list is on its way may find no row
\* to flip.
Alternan(q, i) == q.op \in {"desactivar", "reactivar"} /\ q.id = i

AlternarActivo ==
    \E i \in Filas :
        LET pedido == <<Pedido(IF vista.filas[i].activo THEN "desactivar" ELSE "reactivar",
                               i, Nada)>>
            otro == \/ \E n \in DOMAIN ida : Alternan(ida[n], i)
                    \/ \E n \in DOMAIN vuelta : Alternan(vuelta[n].q, i)
                    \/ EnVuelo({"listar", "listarTodos"}) > 0
        IN  \/ otro /\ Tropiezo(vista, pedido)
            \/ ~otro /\ Toque(vista, pedido)

----------------------------------------------------------------------------
(* The answers.  A save is followed by the list that was being shown when  *)
(* the button was pressed.                                                 *)

Recibir(m) ==
    LET v == vista
    IN  CASE m.q.op \in {"listar", "listarTodos"} ->
               Queda([v EXCEPT !.cargando = FALSE, !.filas = IF m.ok THEN m.datos ELSE @])
          [] m.q.op \in {"crear", "actualizar"} ->
               IF m.ok THEN Pide([v EXCEPT !.modal = FALSE, !.cargando = TRUE],
                                 Listar(m.q.tras = "listarTodos"))
               ELSE Queda(v)
          [] m.q.op \in {"desactivar", "reactivar"} ->
               Queda(IF m.ok /\ m.q.id \in DOMAIN v.filas
                     THEN [v EXCEPT !.filas[m.q.id].activo = ~@] ELSE v)

----------------------------------------------------------------------------
Init ==
    /\ PeticionesInit(VistaInicial, Listar(FALSE))
    /\ \E n \in Nombres : srv = <<[usuario |-> n, nombre |-> n, activo |-> TRUE]>>

Responde(i) == Atiende(i, Servidor)
Recibe(i) == Llega(i, Recibir)

Next ==
    \/ AbrirAlta \/ AbrirEdicion \/ Guardar \/ CerrarModal
    \/ MostrarInactivos \/ AlternarActivo
    \/ Montar(VistaInicial, Listar(FALSE))
    \/ \E i \in DOMAIN ida : Responde(i)
    \/ \E i \in DOMAIN vuelta : Recibe(i)

\* A user deactivated here stays in the table, though the list without the inactive
\* ones leaves it out.
Mostrado ==
    /\ \A i \in DOMAIN vista.filas : vista.filas[i] = srv[i]
    /\ \A i \in DOMAIN srv : srv[i].activo => i \in DOMAIN vista.filas
Guardados == {}
Ocupada == vista.cargando
=============================================================================
