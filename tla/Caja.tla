-------------------------------- MODULE Caja --------------------------------
(***************************************************************************)
(* The till of a terminal: what the browser remembers of its session       *)
(* (store/useCajaStore.ts), the opening at the point of sale (pages/       *)
(* PosTerminal.tsx, components/pos/AbrirCajaModal.tsx), the blind count    *)
(* that closes it (pages/admin/CierreCajaPage.tsx), and                    *)
(* service/caja_service.go.  Amounts are units of cash and of everything   *)
(* else that is paid with.  Other points of sale are left out.             *)
(***************************************************************************)
EXTENDS Peticiones, Integers

CONSTANTS
    Fondos,         \* cash a session can start with
    Conteos         \* cash that can be counted

Abiertas(s) == {i \in DOMAIN s : s[i].estado = "abierta"}
Propias(s) == {i \in Abiertas(s) : s[i].propia}

\* What the report of session i says; movs is the number of sales in it.
Reporte(s, i) == [id |-> i, estado |-> s[i].estado, efectivo |-> s[i].efectivo,
                  digital |-> s[i].digital, movs |-> s[i].movs]

Tienda(sesion) == [sesion |-> sesion, cargando |-> FALSE]

\* The point of sale asks first whether its session is still good.
Consultar(sesion) ==
    IF sesion # Nadie THEN <<Tras(Pedido("reporte", sesion, Nada), "restaurar")>>
    ELSE <<Pedido("activa", Nadie, Nada)>>

EnPos(tienda) ==
    [ruta |-> "pos", tienda |-> tienda, iniciando |-> TRUE, modal |-> FALSE,
     informe |-> Nada, leyendo |-> FALSE, resultado |-> Nada, critico |-> FALSE,
     pestana |-> "arqueo", historial |-> <<>>, listando |-> FALSE]

\* The page of the closing reads the report of the session, if there is one.
Leyendo(v) ==
    IF v.tienda.sesion = Nadie THEN v ELSE [v EXCEPT !.leyendo = TRUE, !.tienda.cargando = TRUE]
Leer(sesion) == IF sesion = Nadie THEN <<>> ELSE <<Tras(Pedido("reporte", sesion, Nada), "cierre")>>

EnCierre(tienda) == Leyendo([EnPos(tienda) EXCEPT !.ruta = "cierre", !.iniciando = FALSE])

----------------------------------------------------------------------------
(* The backend: one open session at the point of sale, opened again by     *)
(* whoever asks; a count that is off by more than 5% needs a reason.       *)

Critico(desvio, esperado) == esperado # 0 /\ 20 * (IF desvio < 0 THEN -desvio ELSE desvio) > esperado

Cerrar(s, q) ==
    LET a == s[q.id]
        esperado == a.efectivo + a.digital
        desvio == q.datos.efectivo + q.datos.digital - esperado
        cierre == [desvio |-> desvio, contado |-> q.datos.efectivo, sobre |-> q.datos.sobre]
        t == [s EXCEPT ![q.id].estado = "cerrada", ![q.id].cierre = cierre]
    IN  IF a.estado # "abierta" THEN Rechaza(s)
        ELSE IF Critico(desvio, esperado) /\ ~q.datos.motivo
             THEN [Rechaza(s) EXCEPT !.datos = [critico |-> TRUE]]
        ELSE Acepta(t, [desvio |-> desvio, contado |-> q.datos.efectivo])

Servidor(s, q) ==
    CASE q.op = "reporte" -> Acepta(s, Reporte(s, q.id))
      [] q.op = "activa" ->
           IF Propias(s) = {} THEN Rechaza(s)
           ELSE Acepta(s, Reporte(s, CHOOSE i \in Propias(s) : TRUE))
      [] q.op = "abrir" ->
           IF Abiertas(s) # {} THEN Acepta(s, Reporte(s, CHOOSE i \in Abiertas(s) : TRUE))
           ELSE LET t == Append(s, [estado |-> "abierta", propia |-> TRUE, efectivo |-> q.datos.fondo,
                                    digital |-> 0, movs |-> 0, cierre |-> Nada])
                IN  Acepta(t, Reporte(t, Len(t)))
      [] q.op = "venta" ->
           IF s[q.id].estado # "abierta" THEN Rechaza(s)
           ELSE Acepta([s EXCEPT ![q.id].efectivo = @ + q.datos.efectivo,
                                 ![q.id].digital = @ + q.datos.digital,
                                 ![q.id].movs = @ + 1], Nada)
      [] q.op = "arqueo" -> Cerrar(s, q)
      [] q.op = "historial" -> Acepta(s, [sesiones |-> [i \in DOMAIN s |-> Reporte(s, i)]])

----------------------------------------------------------------------------
(* The point of sale                                                       *)

Operando == vista.ruta = "pos" /\ ~vista.iniciando /\ ~vista.modal

\* The opening is asked for a moment after the session is known to be missing.
MostrarApertura ==
    /\ vista.ruta = "pos" /\ ~vista.iniciando
    /\ vista.modal # (vista.tienda.sesion = Nadie)
    /\ vista' = [vista EXCEPT !.modal = vista.tienda.sesion = Nadie]
    /\ UNCHANGED <<srv, ida, vuelta, dudosa, toques>>

Apertura == vista.modal

AbrirCaja ==
    /\ Apertura /\ ~vista.tienda.cargando
    /\ \E fondo \in Fondos :
          Toque([vista EXCEPT !.tienda.cargando = TRUE], <<Pedido("abrir", Nadie, [fondo |-> fondo])>>)

\* A sale reaches the backend on its own, whatever page is shown.
Vender ==
    /\ Operando /\ vista.tienda.sesion # Nadie
    /\ \E e \in {0, 1} :
          Toque(vista, <<Pedido("venta", vista.tienda.sesion, [efectivo |-> e, digital |-> 1 - e])>>)

IrACierre == Operando /\ Montar(EnCierre(vista.tienda), Leer(vista.tienda.sesion))
IrAPos == vista.ruta = "cierre" /\ Montar(EnPos(vista.tienda), Consultar(vista.tienda.sesion))

\* The user leaves, which forgets the session, and comes back.
Salir ==
    /\ Operando
    /\ LET tienda == [vista.tienda EXCEPT !.sesion = Nadie]
       IN  Montar(EnPos(tienda), Consultar(tienda.sesion))

\* The browser is reloaded: only the session is remembered, and nobody waits any more for
\* what was asked.
Reabrir ==
    LET tienda == Tienda(vista.tienda.sesion)
        olvidadas == [i \in DOMAIN ida |-> [ida[i] EXCEPT !.viva = FALSE, !.tras = "olvidada"]]
    IN  /\ Gasta
        /\ HayLugar(Consultar(tienda.sesion))
        /\ vista' = EnPos(tienda)
        /\ ida' = olvidadas \o Consultar(tienda.sesion)
        /\ vuelta' = <<>>
        /\ dudosa' = (ida # <<>>)
        /\ UNCHANGED srv

----------------------------------------------------------------------------
(* The closing                                                             *)

\* The form of the count, what came of it, and the table of the sessions.
EnArqueo == vista.ruta = "cierre" /\ vista.pestana = "arqueo"
Formulario == EnArqueo /\ vista.resultado = Nada
Resultado == EnArqueo /\ vista.resultado # Nada
EnHistorial == vista.ruta = "cierre" /\ vista.pestana = "historial"

Actualizar ==
    /\ Formulario /\ ~vista.leyendo /\ vista.tienda.sesion # Nadie
    /\ Toque(Leyendo(vista), Leer(vista.tienda.sesion))

\* What was not paid in cash is not counted: it is declared as the report has it, or as
\* nothing without one.  sobre is history: the session and the sales that were declared.
Declaracion(contado, motivo, digital) ==
    [efectivo |-> contado, motivo |-> motivo, digital |-> digital,
     sobre |-> IF vista.informe = Nada THEN [id |-> vista.tienda.sesion, movs |-> 0]
               ELSE [id |-> vista.informe.id, movs |-> vista.informe.movs]]

\* A declaration of the cash alone.
DeclararEfectivo(contado, motivo) == Declaracion(contado, motivo, 0)

Declarar(contado, motivo) ==
    Declaracion(contado, motivo, IF vista.informe = Nada THEN 0 ELSE vista.informe.digital)

\* The form can be sent again before the answer.
EnviarArqueo ==
    /\ Formulario /\ vista.tienda.sesion # Nadie
    /\ \E contado \in Conteos, motivo \in BOOLEAN :
          Toque([vista EXCEPT !.tienda.cargando = TRUE],
                <<Pedido("arqueo", vista.tienda.sesion, Declarar(contado, motivo))>>)

NuevoArqueo == Resultado /\ Toque([vista EXCEPT !.resultado = Nada], <<>>)

CambiarPestana ==
    \/ EnArqueo /\ Toque([vista EXCEPT !.pestana = "historial", !.listando = TRUE],
                         <<Pedido("historial", Nadie, Nada)>>)
    \/ EnHistorial /\ Toque([vista EXCEPT !.pestana = "arqueo"], <<>>)

----------------------------------------------------------------------------
(* The answers                                                             *)

Adoptar(v, id) == [v EXCEPT !.tienda.sesion = id]

\* A failure is taken for an answer: there is no open session.
Activa(m) == [vista EXCEPT !.tienda.sesion = IF m.ok THEN m.datos.id ELSE Nadie, !.iniciando = FALSE]

Recibir(m) ==
    LET v == vista
        q == m.q
        libre == [v EXCEPT !.tienda.cargando = FALSE]
    IN  IF q.tras = "olvidada" THEN Queda(v)
        ELSE
        CASE q.op = "reporte" /\ q.tras = "restaurar" ->
               IF ~m.ok THEN Queda([v EXCEPT !.iniciando = FALSE])
               ELSE IF m.datos.estado = "abierta"
                    THEN Queda(Adoptar([v EXCEPT !.iniciando = FALSE], m.datos.id))
               ELSE Pide(v, <<Pedido("activa", Nadie, Nada)>>)
          [] q.op = "activa" -> Queda(Activa(m))
          [] q.op = "reporte" /\ q.tras = "cierre" ->
               Queda([libre EXCEPT !.leyendo = FALSE, !.informe = IF m.ok THEN m.datos ELSE Nada])
          [] q.op = "abrir" ->
               Queda(IF m.ok THEN Adoptar([libre EXCEPT !.modal = FALSE], m.datos.id) ELSE libre)
          [] q.op = "venta" -> Queda(v)
          [] q.op = "arqueo" ->
               Queda(IF m.ok THEN Adoptar([libre EXCEPT !.resultado = m.datos], Nadie)
                     ELSE [libre EXCEPT !.critico = @ \/ m.datos # Nada])
          [] q.op = "historial" ->
               Queda([v EXCEPT !.listando = FALSE,
                               !.historial = IF m.ok THEN m.datos.sesiones ELSE @])

Init ==
    /\ PeticionesInit(EnPos(Tienda(Nadie)), Consultar(Nadie))
    /\ srv \in {<<>>, <<[estado |-> "abierta", propia |-> FALSE, efectivo |-> 0, digital |-> 0,
                         movs |-> 0, cierre |-> Nada]>>}

Responde(i) == Atiende(i, Servidor)

\* The report is read again when the session is another one: until it comes the form goes on
\* with that of the session before.
CambiaDeSesion(v) == v.ruta = "cierre" /\ v.tienda.sesion # vista.tienda.sesion

\* What is remembered of the session outlives the page that asked for it.
Recibe(i) ==
    /\ i \in DOMAIN vuelta
    /\ LET viva == vuelta[i].q.viva
           r == Recibir(vuelta[i])
           v == IF viva THEN r.vista ELSE [vista EXCEPT !.tienda = r.vista.tienda]
           pide == ida \o (IF viva THEN r.pide ELSE Huerfanos(r.pide))
       IN  /\ vista' = IF CambiaDeSesion(v) THEN Leyendo(v) ELSE v
           /\ ida' = IF CambiaDeSesion(v) THEN pide \o Leer(v.tienda.sesion) ELSE pide
    /\ vuelta' = Sin(vuelta, i)
    /\ dudosa' = (dudosa \/ i # 1)
    /\ UNCHANGED <<srv, toques>>

Next ==
    \/ MostrarApertura \/ AbrirCaja \/ Vender \/ IrACierre \/ IrAPos \/ Salir \/ Reabrir
    \/ Actualizar \/ EnviarArqueo \/ NuevoArqueo \/ CambiarPestana
    \/ \E i \in DOMAIN ida : Responde(i)
    \/ \E i \in DOMAIN vuelta : Recibe(i)

\* The point of sale sells in the session that is open, if one is, and the report is that
\* of the backend.
Mostrado ==
    /\ vista.ruta = "pos" =>
          IF vista.tienda.sesion = Nadie THEN Propias(srv) = {}
          ELSE vista.tienda.sesion \in Abiertas(srv)
    /\ vista.informe # Nada => \/ vista.informe = Reporte(srv, vista.informe.id)
                               \/ vista.informe.id # vista.tienda.sesion

\* A session that was closed with its cash well counted, on its report with all its sales,
\* is not off.
CajaCuadra ==
    \A i \in DOMAIN srv :
        /\ srv[i].cierre # Nada
        /\ srv[i].cierre.sobre = [id |-> i, movs |-> srv[i].movs]
        /\ srv[i].cierre.contado = srv[i].efectivo
        => srv[i].cierre.desvio = 0

\* The flag that guards the opening is the store's, and the answer to the closing that was
\* left behind lowers it: nothing of this page is asked for once at a time.
Guardados == {}
Ocupada == vista.leyendo \/ vista.listando \/ vista.iniciando
=============================================================================
