------------------------------ MODULE Historial ------------------------------
(***************************************************************************)
(* The page of the sales made (pages/admin/FacturacionPage.tsx): the table *)
(* of a period, the annulment of a sale and the documents of its           *)
(* comprobante.  The texts that are searched, the order of the rows and    *)
(* the windows the documents are shown in are left out.                    *)
(***************************************************************************)
EXTENDS Peticiones

CONSTANTS
    DeHoy,              \* the sales of today
    DeAntes,            \* those of other days
    Documentadas        \* those with a comprobante

Todas == "todas"
Hoy == "hoy"
EnPeriodo(i, periodo) == periodo = Todas \/ i \in DeHoy
DelPeriodo(s, periodo) == [i \in {j \in DOMAIN s : EnPeriodo(j, periodo)} |-> s[i]]

Listar(periodo) == <<Tras(Pedido("listar", Nadie, Nada), periodo)>>

VistaInicial ==
    [ventas |-> <<>>, periodo |-> Todas, estado |-> "todos", cargando |-> TRUE,
     abierta |-> Nadie, anular |-> Nadie, anuladas |-> {}]

\* The comprobante tells whether there is a document, which is asked for by its own name.
Servidor(s, q) ==
    CASE q.op = "listar" -> Acepta(s, DelPeriodo(s, q.tras))
      [] q.op = "anular" ->
           IF s[q.id] = "anulada" THEN Rechaza(s) ELSE Acepta([s EXCEPT ![q.id] = "anulada"], Nada)
      [] q.op = "comprobante" -> IF q.id \in Documentadas THEN Acepta(s, Nada) ELSE Rechaza(s)
      [] q.op = "documento" -> Acepta(s, Nada)

----------------------------------------------------------------------------
(* The user                                                                *)

\* A sale annulled here is shown so before the backend lists it again.
Anulada(i) == vista.ventas[i] = "anulada" \/ i \in vista.anuladas

Filas ==
    {i \in DOMAIN vista.ventas :
        /\ EnPeriodo(i, vista.periodo)
        /\ CASE vista.estado = "todos" -> TRUE
             [] vista.estado = "anulada" -> Anulada(i)
             [] vista.estado = "completada" -> ~Anulada(i)}

Confirmacion == vista.anular # Nadie
SinDialogo == ~Confirmacion

\* Another period lists again.  If an annulment is on its way, the list that follows it
\* is that of the period before.
CambiarPeriodo ==
    /\ SinDialogo
    /\ \E periodo \in {Todas, Hoy} \ {vista.periodo} :
          LET v == [vista EXCEPT !.periodo = periodo, !.cargando = TRUE]
          IN  IF EnVuelo({"anular"}) = 0 THEN Recarga(v, Listar(periodo)) ELSE Tropiezo(v, Listar(periodo))

FiltrarEstado ==
    /\ SinDialogo
    /\ \E estado \in {"todos", "anulada", "completada"} \ {vista.estado} :
          Toque([vista EXCEPT !.estado = estado], <<>>)

Actualizar ==
    /\ SinDialogo /\ ~vista.cargando
    /\ Recarga([vista EXCEPT !.cargando = TRUE], Listar(vista.periodo))

Desplegar ==
    /\ SinDialogo
    /\ \E i \in Filas : Toque([vista EXCEPT !.abierta = IF @ = i THEN Nadie ELSE i], <<>>)

\* To see, to print or to download: only what is valid is printed.
PedirDocumento ==
    /\ SinDialogo
    /\ \E i \in Filas, para \in {"ver", "imprimir", "pdf"} :
          /\ para = "imprimir" => ~Anulada(i)
          /\ Toque(vista, <<Tras(Pedido("comprobante", i, Nada), para)>>)

PedirAnulacion ==
    /\ SinDialogo
    /\ \E i \in Filas : ~Anulada(i) /\ Toque([vista EXCEPT !.anular = i], <<>>)

CancelarAnulacion == Confirmacion /\ Toque([vista EXCEPT !.anular = Nadie], <<>>)

\* Nothing tells that the annulment is on its way: it can be asked for again.
Anular ==
    /\ Confirmacion
    /\ Toque(vista, <<Tras(Pedido("anular", vista.anular, Nada), vista.periodo)>>)

----------------------------------------------------------------------------
(* The answers                                                             *)

Releer(v, m) ==
    Pide([v EXCEPT !.anuladas = @ \cup {m.q.id}, !.cargando = TRUE, !.anular = Nadie],
         Listar(m.q.tras))

\* An annulment that is shown whatever the backend said.
AlAnularConfiado(m) == Releer(vista, m)

AlAnular(m) == IF m.ok THEN Releer(vista, m) ELSE Queda([vista EXCEPT !.anular = Nadie])

Recibir(m) ==
    LET v == vista
    IN  CASE m.q.op = "listar" ->
               Queda([v EXCEPT !.cargando = FALSE, !.ventas = IF m.ok THEN m.datos ELSE @])
          [] m.q.op = "anular" -> AlAnular(m)
          [] m.q.op = "comprobante" ->
               IF m.ok THEN Pide(v, <<Tras(Pedido("documento", m.q.id, Nada), m.q.tras)>>)
               ELSE Queda(v)
          [] m.q.op = "documento" -> Queda(v)

Init ==
    /\ PeticionesInit(VistaInicial, Listar(Todas))
    /\ srv = [i \in DeHoy \cup DeAntes |-> "completada"]

Responde(i) == Atiende(i, Servidor)
Recibe(i) == Llega(i, Recibir)

Next ==
    \/ CambiarPeriodo \/ FiltrarEstado \/ Actualizar \/ Desplegar \/ PedirDocumento
    \/ PedirAnulacion \/ CancelarAnulacion \/ Anular
    \/ Montar(VistaInicial, Listar(Todas))
    \/ \E i \in DOMAIN ida : Responde(i)
    \/ \E i \in DOMAIN vuelta : Recibe(i)

Mostrado == vista.ventas = DelPeriodo(srv, vista.periodo)
\* What is shown as annulled is annulled, at every moment.
NoMiente == \A i \in Filas : Anulada(i) => srv[i] = "anulada"
Guardados == {}
Ocupada == vista.cargando
=============================================================================
