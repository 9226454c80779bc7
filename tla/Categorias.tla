----------------------------- MODULE Categorias -----------------------------
(***************************************************************************)
(* The page of the categories (pages/admin/CategoriasPage.tsx), and the    *)
(* rules of the backend that it meets (service/categoria_service.go).      *)
(* What is typed in a form or a search is chosen when it is used.          *)
(***************************************************************************)
EXTENDS Peticiones

CONSTANT Nombres        \* names that pass the validation of the form

Listar == <<Pedido("listar", Nadie, Nada)>>

VistaInicial ==
    [filas |-> <<>>, cargando |-> TRUE, modal |-> FALSE, editando |-> Nadie,
     borrar |-> Nadie, guardando |-> FALSE, plegados |-> TRUE]

----------------------------------------------------------------------------
(* The backend: names are unique, and a category is never deleted.         *)

Repetido(s, nombre, id) == \E i \in DOMAIN s \ {id} : s[i].nombre = nombre

Servidor(s, q) ==
    CASE q.op = "listar" -> Acepta(s, s)
      [] q.op = "crear" ->
           IF Repetido(s, q.datos, Nadie) THEN Rechaza(s)
           ELSE Acepta(Poner(s, Nuevo(s), [nombre |-> q.datos, activo |-> TRUE]), Nada)
      [] q.op = "actualizar" ->
           IF Repetido(s, q.datos, q.id) THEN Rechaza(s)
           ELSE Acepta([s EXCEPT ![q.id].nombre = q.datos], Nada)
      [] q.op = "reactivar" -> Acepta([s EXCEPT ![q.id].activo = TRUE], Nada)
      [] q.op = "desactivar" -> Acepta([s EXCEPT ![q.id].activo = FALSE], Nada)

----------------------------------------------------------------------------
(* The user                                                                *)

\* The two dialogues: what the form that is open can hold, and the question before a row
\* goes.  While one is there nothing else can be reached.
Formulario == IF vista.modal THEN Nombres ELSE {}
Confirmacion == vista.borrar # Nadie
SinDialogo == ~vista.modal /\ ~Confirmacion

\* The rows of the table are not there while it loads; the inactive ones are.
FilasActivas == IF vista.cargando THEN {} ELSE {i \in DOMAIN vista.filas : vista.filas[i].activo}
FilasInactivas == {i \in DOMAIN vista.filas : ~vista.filas[i].activo}

AbrirAlta ==
    /\ SinDialogo
    /\ Toque([vista EXCEPT !.modal = TRUE, !.editando = Nadie], <<>>)

AbrirEdicion ==
    /\ SinDialogo
    /\ \E i \in FilasActivas : Toque([vista EXCEPT !.modal = TRUE, !.editando = i], <<>>)

\* A save that does not say it is on its way.
GuardarSinMarca ==
    /\ ~vista.guardando
    /\ \E nombre \in Formulario :
          Toque(vista, <<Pedido(IF vista.editando = Nadie THEN "crear" ELSE "actualizar",
                                vista.editando, nombre)>>)

Guardar ==
    /\ ~vista.guardando
    /\ \E nombre \in Formulario :
          Toque([vista EXCEPT !.guardando = TRUE],
                <<Pedido(IF vista.editando = Nadie THEN "crear" ELSE "actualizar",
                         vista.editando, nombre)>>)

CerrarModal == vista.modal /\ Toque([vista EXCEPT !.modal = FALSE], <<>>)

PedirBaja ==
    /\ SinDialogo
    /\ \E i \in FilasActivas : Toque([vista EXCEPT !.borrar = i], <<>>)

CancelarBaja == Confirmacion /\ Toque([vista EXCEPT !.borrar = Nadie], <<>>)

ConfirmarBaja ==
    /\ Confirmacion
    /\ Toque(vista, <<Pedido("desactivar", vista.borrar, Nada)>>)

Desplegar ==
    /\ SinDialogo /\ FilasInactivas # {}
    /\ Toque([vista EXCEPT !.plegados = ~@], <<>>)

Reactivar ==
    /\ SinDialogo /\ ~vista.plegados
    /\ \E i \in FilasInactivas : Toque(vista, <<Pedido("reactivar", i, Nada)>>)

----------------------------------------------------------------------------
(* The answers.  A list that follows a save ends the save as well: its     *)
(* handler waits for both.                                                 *)

\* A save that takes the new row for granted.
SinReleer(v, tras) == Queda([v EXCEPT !.guardando = FALSE])

Releer(v, tras) == Pide([v EXCEPT !.cargando = TRUE], <<Tras(Pedido("listar", Nadie, Nada), tras)>>)

Recibir(m) ==
    LET v == vista
        termina(w) == IF m.q.tras = "guardar" THEN [w EXCEPT !.guardando = FALSE] ELSE w
    IN  CASE m.q.op = "listar" ->
               Queda(termina([v EXCEPT !.cargando = FALSE,
                                       !.filas = IF m.ok THEN m.datos ELSE @]))
          [] m.q.op \in {"crear", "actualizar"} ->
               IF m.ok THEN Releer([v EXCEPT !.modal = FALSE], "guardar")
               ELSE Queda([v EXCEPT !.guardando = FALSE])
          [] m.q.op = "desactivar" ->
               IF m.ok THEN Releer([v EXCEPT !.borrar = Nadie], "") ELSE Queda(v)
          [] m.q.op = "reactivar" -> IF m.ok THEN Releer(v, "") ELSE Queda(v)

----------------------------------------------------------------------------
Init ==
    /\ PeticionesInit(VistaInicial, Listar)
    /\ \E n \in Nombres : srv = <<[nombre |-> n, activo |-> TRUE]>>

Responde(i) == Atiende(i, Servidor)
Recibe(i) == Llega(i, Recibir)

Next ==
    \/ AbrirAlta \/ AbrirEdicion \/ Guardar \/ CerrarModal
    \/ PedirBaja \/ CancelarBaja \/ ConfirmarBaja
    \/ Desplegar \/ Reactivar
    \/ Montar(VistaInicial, Listar)
    \/ \E i \in DOMAIN ida : Responde(i)
    \/ \E i \in DOMAIN vuelta : Recibe(i)

Mostrado == vista.filas = srv
Guardados == {{"crear", "actualizar"}}
Ocupada == vista.cargando \/ vista.guardando
=============================================================================
