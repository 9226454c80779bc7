--------------------------- MODULE PromocionesAdmin ---------------------------
(***************************************************************************)
(* The page of the promotions (pages/admin/PromocionesTab.tsx) and what    *)
(* the backend makes of it (service/promocion_service.go and its           *)
(* repository).  A promotion has a list of products, or at least two       *)
(* groups.  Names, values and dates are left out; the options of products  *)
(* and categories that are loaded with the table are constants.            *)
(***************************************************************************)
EXTENDS Peticiones

CONSTANTS
    Articulos,      \* the products on offer
    Elegidos,       \* what a group can ask for: products, or a category
    MaxGrupos       \* bound: groups of a form

Cargar == <<Pedido("cargar", Nadie, Nada)>>

VistaInicial ==
    [filas |-> <<>>, cargando |-> TRUE, modal |-> FALSE, editando |-> Nadie,
     borrar |-> Nadie, guardando |-> FALSE, borrando |-> FALSE]

----------------------------------------------------------------------------
(* The form: the mode can be changed back and forth, and what was chosen   *)
(* in the other mode stays.                                                *)

\* Groups are added with nothing chosen, and removed at will.
Grupos == UNION {[1..n -> Elegidos \cup {Nada}] : n \in 0..MaxGrupos}

Formularios(editando) ==
    [modo : {"clasico", "grupos"}, productos : SUBSET Articulos, grupos : Grupos,
     activa : IF editando = Nadie THEN {TRUE} ELSE BOOLEAN]

Valida(f) ==
    IF f.modo = "clasico" THEN f.productos # {}
    ELSE \A i \in DOMAIN f.grupos : f.grupos[i] # Nada

\* What is sent has only what the mode calls for.
Envio(f) ==
    [f EXCEPT !.productos = IF f.modo = "clasico" THEN @ ELSE {},
              !.grupos = IF f.modo = "grupos" THEN @ ELSE <<>>]

----------------------------------------------------------------------------
(* The backend                                                             *)

Suficientes(p) == p.modo = "grupos" => Len(p.grupos) >= 2

Servidor(s, q) ==
    IF q.op \notin {"cargar", "crear"} /\ q.id \notin DOMAIN s THEN Rechaza(s)
    ELSE
    CASE q.op = "cargar" -> Acepta(s, s)
      [] q.op = "crear" ->
           IF Suficientes(q.datos) THEN Acepta(Poner(s, Nuevo(s), [q.datos EXCEPT !.activa = TRUE]), Nada)
           ELSE Rechaza(s)
      [] q.op = "actualizar" ->
           IF Suficientes(q.datos) THEN Acepta(Poner(s, q.id, q.datos), Nada) ELSE Rechaza(s)
      [] q.op = "eliminar" -> Acepta([i \in DOMAIN s \ {q.id} |-> s[i]], Nada)

----------------------------------------------------------------------------
(* The user                                                                *)

\* The two dialogues: what the form that is open can hold, and the question before a row
\* goes.
Formulario == IF vista.modal THEN Formularios(vista.editando) ELSE {}
Confirmacion == vista.borrar # Nadie
SinDialogo == ~vista.modal /\ ~Confirmacion
Filas == IF vista.cargando THEN {} ELSE DOMAIN vista.filas

AbrirAlta == SinDialogo /\ Toque([vista EXCEPT !.modal = TRUE, !.editando = Nadie], <<>>)

AbrirEdicion ==
    /\ SinDialogo
    /\ \E i \in Filas : Toque([vista EXCEPT !.modal = TRUE, !.editando = i], <<>>)

\* A form with fewer than two groups is valid, and is not sent.
Guardar ==
    /\ ~vista.guardando
    /\ \E f \in Formulario :
          /\ Valida(f)
          /\ Suficientes(f)
          /\ Toque([vista EXCEPT !.guardando = TRUE],
                   <<Pedido(IF vista.editando = Nadie THEN "crear" ELSE "actualizar",
                            vista.editando, Envio(f))>>)

CerrarModal == vista.modal /\ Toque([vista EXCEPT !.modal = FALSE], <<>>)

PedirBaja ==
    /\ SinDialogo
    /\ \E i \in Filas : Toque([vista EXCEPT !.borrar = i], <<>>)

CancelarBaja == Confirmacion /\ Toque([vista EXCEPT !.borrar = Nadie], <<>>)

ConfirmarBaja ==
    /\ Confirmacion /\ ~vista.borrando
    /\ Toque([vista EXCEPT !.borrando = TRUE], <<Pedido("eliminar", vista.borrar, Nada)>>)

----------------------------------------------------------------------------
(* The answers                                                             *)

Releer(v, tras) == Pide([v EXCEPT !.cargando = TRUE], <<Tras(Pedido("cargar", Nadie, Nada), tras)>>)

Recibir(m) ==
    LET v == vista
    IN  CASE m.q.op = "cargar" ->
               Queda([v EXCEPT !.cargando = FALSE,
                               !.filas = IF m.ok THEN m.datos ELSE @,
                               !.guardando = @ /\ m.q.tras # "guardar",
                               !.borrando = @ /\ m.q.tras # "eliminar"])
          [] m.q.op \in {"crear", "actualizar"} ->
               IF m.ok THEN Releer([v EXCEPT !.modal = FALSE], "guardar")
               ELSE Queda([v EXCEPT !.guardando = FALSE])
          [] m.q.op = "eliminar" ->
               IF m.ok THEN Releer([v EXCEPT !.borrar = Nadie], "eliminar")
               ELSE Queda([v EXCEPT !.borrando = FALSE])

Init ==
    /\ PeticionesInit(VistaInicial, Cargar)
    /\ srv = <<>>

Responde(i) == Atiende(i, Servidor)
Recibe(i) == Llega(i, Recibir)

Next ==
    \/ AbrirAlta \/ AbrirEdicion \/ Guardar \/ CerrarModal
    \/ PedirBaja \/ CancelarBaja \/ ConfirmarBaja
    \/ Montar(VistaInicial, Cargar)
    \/ \E i \in DOMAIN ida : Responde(i)
    \/ \E i \in DOMAIN vuelta : Recibe(i)

Mostrado == vista.filas = srv
Guardados == {{"crear", "actualizar"}, {"eliminar"}}
Ocupada == vista.cargando \/ vista.guardando \/ vista.borrando
=============================================================================
