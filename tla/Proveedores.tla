---------------------------- MODULE Proveedores ----------------------------
(***************************************************************************)
(* The page of the suppliers (pages/admin/ProveedoresPage.tsx): its table, *)
(* and the import of prices from a CSV file, which the browser reads first *)
(* to show it.  The reading is asynchronous as a request is: op "leer",    *)
(* which the backend knows nothing of.                                     *)
(***************************************************************************)
EXTENDS Peticiones

CONSTANTS
    Cuits,          \* CUITs and names that pass the validation of the form
    Archivos,       \* files the user may choose
    Vacios          \* those of them without a row of data

Listar == <<Pedido("listar", Nadie, Nada)>>

VistaInicial ==
    [filas |-> <<>>, cargando |-> TRUE, modal |-> FALSE, editando |-> Nadie,
     expandido |-> Nadie, csv |-> FALSE, archivo |-> Nada, preview |-> Nada,
     proveedor |-> Nadie, importando |-> FALSE, resultado |-> FALSE]

\* The backend: one supplier per CUIT.  `precios' is the last file imported.
Servidor(s, q) ==
    LET repetido(id) == \E i \in DOMAIN s.filas \ {id} : s.filas[i] = q.datos
    IN  CASE q.op = "listar" -> Acepta(s, s.filas)
          [] q.op = "crear" ->
               IF repetido(Nadie) THEN Rechaza(s)
               ELSE Acepta([s EXCEPT !.filas = Poner(@, Nuevo(@), q.datos)], Nada)
          [] q.op = "actualizar" ->
               IF repetido(q.id) THEN Rechaza(s)
               ELSE Acepta([s EXCEPT !.filas[q.id] = q.datos], Nada)
          [] q.op = "importar" -> Acepta([s EXCEPT !.precios = q.datos], Nada)
          [] q.op = "leer" -> Acepta(s, q.datos)

----------------------------------------------------------------------------
(* The list                                                                *)

\* What the form that is open can hold; nothing else is reached while it is.
Formulario == IF vista.modal THEN Cuits ELSE {}
\* The rows of the tab of the list.
Filas == IF vista.modal \/ vista.csv \/ vista.cargando THEN {} ELSE DOMAIN vista.filas

AbrirAlta == ~vista.modal /\ Toque([vista EXCEPT !.modal = TRUE, !.editando = Nadie], <<>>)

AbrirEdicion ==
    \E i \in Filas : Toque([vista EXCEPT !.modal = TRUE, !.editando = i], <<>>)

Expandir ==
    \E i \in Filas : Toque([vista EXCEPT !.expandido = IF @ = i THEN Nadie ELSE i], <<>>)

Guardar ==
    \E cuit \in Formulario :
        Toque(vista, <<Pedido(IF vista.editando = Nadie THEN "crear" ELSE "actualizar",
                              vista.editando, cuit)>>)

CerrarModal == vista.modal /\ Toque([vista EXCEPT !.modal = FALSE], <<>>)

----------------------------------------------------------------------------
(* The import                                                              *)

CambiarPestana == ~vista.modal /\ Toque([vista EXCEPT !.csv = ~@], <<>>)

EnCSV == ~vista.modal /\ vista.csv
\* The zone to drop a file on and what was read of it, or else what came of the import.
Cargando == EnCSV /\ ~vista.resultado
Importado == EnCSV /\ vista.resultado

ElegirProveedor ==
    /\ EnCSV
    /\ \E i \in DOMAIN vista.filas \ {vista.proveedor} :
          Toque([vista EXCEPT !.proveedor = i], <<>>)

\* A file dropped while another is being read may be shown with the rows of the other.
SoltarArchivo ==
    /\ Cargando /\ ~vista.importando
    /\ \E a \in Archivos :
          LET v == [vista EXCEPT !.archivo = a, !.resultado = FALSE, !.preview = Nada]
              pedido == <<Pedido("leer", Nadie, a)>>
          IN  \/ EnVuelo({"leer"}) = 0 /\ Toque(v, pedido)
              \/ EnVuelo({"leer"}) > 0 /\ Tropiezo(v, pedido)

QuitarArchivo ==
    /\ Cargando /\ vista.archivo # Nada
    /\ Toque([vista EXCEPT !.archivo = Nada, !.preview = Nada], <<>>)

\* The button waits for a preview, and its handler for a supplier.
AplicarCSV ==
    /\ Cargando /\ ~vista.importando
    /\ vista.archivo # Nada /\ vista.preview # Nada /\ vista.proveedor # Nadie
    /\ Toque([vista EXCEPT !.importando = TRUE],
             <<Pedido("importar", vista.proveedor, vista.archivo)>>)

ImportarOtro ==
    /\ Importado
    /\ Toque([vista EXCEPT !.resultado = FALSE, !.archivo = Nada, !.proveedor = Nadie,
                           !.preview = Nada], <<>>)

----------------------------------------------------------------------------
Recibir(m) ==
    LET v == vista
    IN  CASE m.q.op = "listar" ->
               Queda([v EXCEPT !.cargando = FALSE, !.filas = IF m.ok THEN m.datos ELSE @])
          [] m.q.op \in {"crear", "actualizar"} ->
               IF m.ok THEN Pide([v EXCEPT !.modal = FALSE, !.cargando = TRUE], Listar)
               ELSE Queda(v)
          [] m.q.op = "leer" ->
               Queda(IF m.ok /\ m.datos \notin Vacios THEN [v EXCEPT !.preview = m.datos] ELSE v)
          [] m.q.op = "importar" ->
               Queda(IF m.ok THEN [v EXCEPT !.importando = FALSE, !.resultado = TRUE,
                                            !.archivo = Nada]
                     ELSE [v EXCEPT !.importando = FALSE])

Init ==
    /\ PeticionesInit(VistaInicial, Listar)
    /\ \E c \in Cuits : srv = [filas |-> <<c>>, precios |-> Nada]

Responde(i) == Atiende(i, Servidor)
Recibe(i) == Llega(i, Recibir)

Next ==
    \/ AbrirAlta \/ AbrirEdicion \/ Expandir \/ Guardar \/ CerrarModal
    \/ CambiarPestana \/ ElegirProveedor \/ SoltarArchivo \/ QuitarArchivo
    \/ AplicarCSV \/ ImportarOtro
    \/ Montar(VistaInicial, Listar)
    \/ \E i \in DOMAIN ida : Responde(i)
    \/ \E i \in DOMAIN vuelta : Recibe(i)

\* The table is the backend's, and the preview is that of the file to be imported.
Mostrado ==
    /\ vista.filas = srv.filas
    /\ vista.archivo # Nada => vista.preview \in {vista.archivo, Nada}
Guardados == {{"importar"}}
Ocupada == vista.cargando \/ vista.importando
=============================================================================
