---------------------------- MODULE Facturacion ----------------------------
(***************************************************************************)
(* Invoicing: the Redis queue, the workers that consume it                 *)
(* (worker/facturacion_worker.go), the cron that retries                   *)
(* (worker/retry_cron.go), the requests on comprobantes                    *)
(* (service/facturacion_service.go, handler/inventario.go) and the         *)
(* dispatch at the end of a sale (service/venta_service.go).               *)
(*                                                                         *)
(* Every one of them reads a comprobante row, works on a copy and writes   *)
(* the WHOLE row back (gorm Save), with no transaction around the two.     *)
(* AFIP is external: a call may authorise the sale and still report an     *)
(* error, because the answer is lost (the HTTP client gives up at 30 s).   *)
(*                                                                         *)
(* A time is seen as the code sees it: next_retry_at is NULL ("nunca"),    *)
(* later than now ("futuro") or due ("vencido").  The circuit breaker is   *)
(* CircuitBreaker.tla; here it may refuse any call, which is one more      *)
(* error, and may make the cron abandon its batch.                         *)
(***************************************************************************)
EXTENDS Naturals, FiniteSets

CONSTANTS
    Ventas,             \* committed sales still to be dispatched
    Internas,           \* those whose tipo is ticket_interno
    Trabajadores,       \* goroutines of the pool on jobs:facturacion
    Cron,               \* the goroutine of the retry cron
    Peticiones,         \* HTTP requests on comprobantes
    Operacion,          \* what each of them asks
    SinFila,            \* a sale without a comprobante
    MaxReintentos,      \* MaxComprobanteRetries
    CopiasTrabajo,      \* how many times one LPUSH may reach its list
    RedisResponde,      \* does an LPUSH that fails always store nothing?
    FallaBD,            \* may an access to PostgreSQL fail?
    PDFDentroDelPlazo,  \* is a PDF always written before a retry falls due?
    RespuestasAFIP,     \* the outcomes of a call that a run considers
    MaxCortes,          \* bound: shutdowns
    CorteForzado        \* may a shutdown not wait for the jobs in flight?

Procesos == Trabajadores \cup {Cron} \cup Peticiones

Respuestas == {"aprobada", "perdida", "fallo", "invalida", "rechazada"}

Estados == {"pendiente", "emitido", "rechazado", "error"}

\* A comprobante row.  CAEs are numbered per sale, in the order in which AFIP
\* granted them; 0 is NULL and 2 stands for every number from 2 on.
Fila == [estado : Estados, cae : 0..2, intentos : Nat,
         prox : {"nunca", "futuro", "vencido"}]

Operaciones ==
    [tipo : {"reintentar", "cancelar", "anular", "pdf"}, venta : Ventas]

ASSUME FacturacionConstantes ==
    /\ Ventas # {} /\ Internas \subseteq Ventas
    /\ Cron \notin Trabajadores \cup Peticiones
    /\ Trabajadores \cap Peticiones = {}
    /\ Operacion \in [Peticiones -> Operaciones]
    /\ SinFila \notin Fila
    /\ MaxReintentos \in Nat \ {0}
    /\ CopiasTrabajo \subseteq Nat
    /\ RespuestasAFIP \subseteq Respuestas
    /\ MaxCortes \in Nat
    /\ RedisResponde \in BOOLEAN
    /\ FallaBD \in BOOLEAN /\ PDFDentroDelPlazo \in BOOLEAN /\ CorteForzado \in BOOLEAN

VARIABLES
    despacho,    \* per sale: step 6 of RegistrarVenta
    cola,        \* per sale: its jobs in the Redis list
    comp,        \* per sale: its row of comprobantes, or SinFila
    dlq,         \* sales with an entry in the dead letter queue
    pc, venta, copia, respuesta,  \* per process: where it is, and its locals
    lote,        \* the cron's batch: the rows it read and has not tried yet
    ctx,         \* the context main.go gives to workers and cron
    cortes,      \* shutdowns so far
    autorizados  \* AFIP: CAEs granted per sale, up to 2

bd == <<comp, dlq>>
proceso == <<pc, venta, copia, respuesta>>
vars == <<despacho, cola, comp, dlq, pc, venta, copia, respuesta, lote, ctx,
          cortes, autorizados>>

Nueva == [estado |-> "pendiente", cae |-> 0, intentos |-> 0, prox |-> "nunca"]

SinRespuesta == [tipo |-> "fallo", cae |-> 0]

Reposo(p) ==
    IF p \in Trabajadores THEN "libre" ELSE IF p = Cron THEN "espera" ELSE "inicio"

IrA(p, lugar) == pc' = [pc EXCEPT ![p] = lugar]

\* Save: every column of the row, or nothing when the database fails, the
\* context is cancelled, or the CHECK on estado refuses the value.
AccesosBD(p) ==
    IF p \notin Peticiones /\ ctx = "cancelado" THEN {FALSE}
    ELSE IF FallaBD THEN BOOLEAN ELSE {TRUE}

\* Faulty variant: the column accepts any estado.
GuardableSinCheck(fila) == TRUE

Guardable(fila) == fila.estado \in Estados

Guardar(v, fila, llega) ==
    comp' = IF llega /\ Guardable(fila) THEN [comp EXCEPT ![v] = fila] ELSE comp

\* The locals of p die with the call.
Olvidar(p) ==
    /\ copia' = [copia EXCEPT ![p] = Nueva]
    /\ respuesta' = [respuesta EXCEPT ![p] = SinRespuesta]

Init ==
    /\ despacho = [v \in Ventas |-> "pendiente"]
    /\ cola = [v \in Ventas |-> 0]
    /\ comp = [v \in Ventas |-> SinFila]
    /\ dlq = {}
    /\ pc = [p \in Procesos |-> Reposo(p)]
    /\ venta = [p \in Procesos |-> CHOOSE v \in Ventas : TRUE]
    /\ copia = [p \in Procesos |-> Nueva]
    /\ respuesta = [p \in Procesos |-> SinRespuesta]
    /\ lote = <<>>
    /\ ctx = "activo"
    /\ cortes = 0
    /\ autorizados = [v \in Ventas |-> 0]

-----------------------------------------------------------------------------
(* Dispatch, after the commit of the sale. *)

\* LPUSH: the go-redis client retries a command whose reply it lost, so the list may
\* hold several copies, and an error does not mean that there is none.
Encolar(v) ==
    /\ despacho[v] = "pendiente"
    /\ \E n \in CopiasTrabajo, error \in BOOLEAN :
           /\ n = 0 => error
           /\ RedisResponde /\ error => n = 0
           /\ cola' = [cola EXCEPT ![v] = n]
           /\ despacho' = [despacho EXCEPT ![v] = IF error THEN "respaldo" ELSE "hecho"]
    /\ UNCHANGED <<bd, proceso, lote, ctx, cortes, autorizados>>

\* When LPUSH failed: a pending row for the cron; venta_id is UNIQUE.
Respaldo(v) ==
    /\ despacho[v] = "respaldo"
    /\ \E llega \in IF FallaBD THEN BOOLEAN ELSE {TRUE} :
           IF comp[v] = SinFila
           THEN Guardar(v, [Nueva EXCEPT !.prox = "futuro"], llega)
           ELSE UNCHANGED comp
    /\ despacho' = [despacho EXCEPT ![v] = "hecho"]
    /\ UNCHANGED <<cola, dlq, proceso, lote, ctx, cortes, autorizados>>

-----------------------------------------------------------------------------
(* AFIP, through the circuit breaker. *)

\* One call, and the answer p gets: authorised, authorised but the answer is
\* lost, a transient error or an open breaker, a 4xx, or refused.
LlamarAFIP(p, v) ==
    \E tipo \in RespuestasAFIP :
        LET otorga == tipo \in {"aprobada", "perdida"}
            n == IF otorga /\ autorizados[v] < 2 THEN autorizados[v] + 1 ELSE autorizados[v]
        IN
        /\ autorizados' = [autorizados EXCEPT ![v] = n]
        /\ respuesta' = [respuesta EXCEPT ![p] = [tipo |-> tipo, cae |-> IF otorga THEN n ELSE 0]]

Aprobada(fila, cae) == [fila EXCEPT !.estado = "emitido", !.cae = cae, !.prox = "nunca"]

-----------------------------------------------------------------------------
(* A worker: FacturacionWorker.Process on one job. *)

\* BRPOP removes the job before it is processed.
Tomar(w, v) ==
    /\ ctx = "activo" /\ pc[w] = "libre" /\ cola[v] > 0
    /\ cola' = [cola EXCEPT ![v] = @ - 1]
    /\ venta' = [venta EXCEPT ![w] = v]
    /\ IrA(w, "buscar")
    /\ UNCHANGED <<despacho, bd, copia, respuesta, lote, ctx, cortes, autorizados>>

Siguiente(w) == IF venta[w] \in Internas THEN "ticket" ELSE "llamar"

\* FindByVentaID: with a CAE there is nothing to do, without one the row is
\* reused whatever its estado.
Buscar(w) ==
    LET fila == comp[venta[w]] IN
    /\ pc[w] = "buscar" /\ TRUE \in AccesosBD(w)
    /\ IF fila = SinFila THEN IrA(w, "crear") /\ UNCHANGED copia
       ELSE IF fila.cae # 0 THEN IrA(w, "libre") /\ UNCHANGED copia
       ELSE IrA(w, Siguiente(w)) /\ copia' = [copia EXCEPT ![w] = fila]
    /\ UNCHANGED <<despacho, cola, bd, venta, respuesta, lote, ctx, cortes, autorizados>>

\* The sale cannot be read, or the row cannot be created: the job is dropped.
Descartar(w) ==
    /\ pc[w] \in {"buscar", "crear"} /\ FALSE \in AccesosBD(w)
    /\ IrA(w, "libre")
    /\ UNCHANGED <<despacho, cola, bd, venta, copia, respuesta, lote, ctx,
                   cortes, autorizados>>

\* Faulty variant: the new row is at once due for a retry.
CrearVencida(w) ==
    LET fila == [Nueva EXCEPT !.prox = "vencido"] IN
    /\ pc[w] = "crear" /\ TRUE \in AccesosBD(w)
    /\ IF comp[venta[w]] # SinFila
       THEN IrA(w, "libre") /\ UNCHANGED <<comp, copia>>
       ELSE /\ comp' = [comp EXCEPT ![venta[w]] = fila]
            /\ copia' = [copia EXCEPT ![w] = fila]
            /\ IrA(w, Siguiente(w))
    /\ UNCHANGED <<despacho, cola, dlq, venta, respuesta, lote, ctx, cortes, autorizados>>

\* INSERT; a second row for the sale violates uq_comprobante_venta.
Crear(w) ==
    /\ pc[w] = "crear" /\ TRUE \in AccesosBD(w)
    /\ IF comp[venta[w]] # SinFila
       THEN IrA(w, "libre") /\ UNCHANGED <<comp, copia>>
       ELSE /\ comp' = [comp EXCEPT ![venta[w]] = Nueva]
            /\ copia' = [copia EXCEPT ![w] = Nueva]
            /\ IrA(w, Siguiente(w))
    /\ UNCHANGED <<despacho, cola, dlq, venta, respuesta, lote, ctx, cortes, autorizados>>

Llamar(w) ==
    /\ pc[w] = "llamar"
    /\ LlamarAFIP(w, venta[w])
    /\ IrA(w, "guardar")
    /\ UNCHANGED <<despacho, cola, bd, venta, copia, lote, ctx, cortes>>

\* handleAFIPResult: every error is retried, also a 4xx.
TrasTrabajador(fila, r) ==
    IF r.tipo = "aprobada" THEN [Aprobada(fila, r.cae) EXCEPT !.intentos = 0]
    ELSE IF r.tipo = "rechazada" THEN [fila EXCEPT !.estado = "rechazado"]
    ELSE [fila EXCEPT !.intentos = @ + 1, !.prox = "futuro",
                      !.estado = IF fila.intentos + 1 >= MaxReintentos THEN "error" ELSE @]

\* A failed write is only logged.
Resultado(w) ==
    LET fila == IF pc[w] = "ticket" THEN [copia[w] EXCEPT !.estado = "emitido"]
                ELSE TrasTrabajador(copia[w], respuesta[w])
    IN
    /\ pc[w] \in {"ticket", "guardar"} /\ w \in Trabajadores
    /\ \E llega \in AccesosBD(w) : Guardar(venta[w], fila, llega)
    /\ copia' = [copia EXCEPT ![w] = fila]
    /\ respuesta' = [respuesta EXCEPT ![w] = SinRespuesta]
    /\ IrA(w, "pdf")
    /\ UNCHANGED <<despacho, cola, dlq, venta, lote, ctx, cortes, autorizados>>

\* Faulty variant: the PDF path is saved on the row as it was before AFIP.
PDFConFilaAnterior(w) ==
    /\ pc[w] = "pdf"
    /\ \/ \E llega \in AccesosBD(w) : Guardar(venta[w], Nueva, llega)
       \/ UNCHANGED comp
    /\ IrA(w, "libre") /\ Olvidar(w)
    /\ UNCHANGED <<despacho, cola, dlq, venta, lote, ctx, cortes, autorizados>>

\* generatePDF: when the file is written, the copy is saved once more.
PDF(w) ==
    /\ pc[w] = "pdf"
    /\ \/ \E llega \in AccesosBD(w) : Guardar(venta[w], copia[w], llega)
       \/ UNCHANGED comp
    /\ IrA(w, "libre") /\ Olvidar(w)
    /\ UNCHANGED <<despacho, cola, dlq, venta, lote, ctx, cortes, autorizados>>

-----------------------------------------------------------------------------
(* The retry cron. *)

Vencida(v) ==
    /\ comp[v] # SinFila
    /\ comp[v].estado = "pendiente" /\ comp[v].prox = "vencido"

\* ListPendingRetries; the limit of the query exceeds the sales of a run.
CronLeer ==
    /\ ctx = "activo" /\ pc[Cron] = "espera"
    /\ \E v \in Ventas : Vencida(v)
    /\ lote' = [v \in {u \in Ventas : Vencida(u)} |-> comp[v]]
    /\ IrA(Cron, "lote")
    /\ UNCHANGED <<despacho, cola, bd, venta, copia, respuesta, ctx, cortes, autorizados>>

\* The breaker opened in the middle of the batch.
CronAbandonar ==
    /\ pc[Cron] = "lote"
    /\ lote' = <<>>
    /\ IrA(Cron, "espera")
    /\ UNCHANGED <<despacho, cola, bd, venta, copia, respuesta, ctx, cortes, autorizados>>

\* AFIP is called on the row as read at the start of the batch.
CronLlamar(v) ==
    /\ pc[Cron] = "lote" /\ v \in DOMAIN lote
    /\ LlamarAFIP(Cron, v)
    /\ venta' = [venta EXCEPT ![Cron] = v]
    /\ copia' = [copia EXCEPT ![Cron] = lote[v]]
    /\ lote' = [u \in DOMAIN lote \ {v} |-> lote[u]]
    /\ IrA(Cron, "guardar")
    /\ UNCHANGED <<despacho, cola, bd, ctx, cortes>>

\* Faulty variant: one attempt too many.
AgotadaTarde(fila, r) ==
    r.tipo \in {"perdida", "fallo"} /\ fila.intentos >= MaxReintentos

Agotada(fila, r) ==
    r.tipo \in {"perdida", "fallo"} /\ fila.intentos + 1 >= MaxReintentos

\* Faulty variant: a transient error clears next_retry_at.
TrasCronSinFecha(fila, r) ==
    IF r.tipo = "aprobada" THEN Aprobada(fila, r.cae)
    ELSE IF r.tipo = "rechazada" THEN [fila EXCEPT !.estado = "rechazado", !.prox = "nunca"]
    ELSE IF r.tipo = "invalida" THEN [fila EXCEPT !.estado = "error", !.prox = "nunca"]
    ELSE [fila EXCEPT !.intentos = @ + 1, !.prox = "nunca",
                      !.estado = IF Agotada(fila, r) THEN "error" ELSE @]

TrasCron(fila, r) ==
    IF r.tipo = "aprobada" THEN Aprobada(fila, r.cae)
    ELSE IF r.tipo = "rechazada" THEN [fila EXCEPT !.estado = "rechazado", !.prox = "nunca"]
    ELSE IF r.tipo = "invalida" THEN [fila EXCEPT !.estado = "error", !.prox = "nunca"]
    ELSE IF Agotada(fila, r)
         THEN [fila EXCEPT !.intentos = @ + 1, !.estado = "error", !.prox = "nunca"]
    ELSE [fila EXCEPT !.intentos = @ + 1, !.prox = "futuro"]

\* SendToDLQ: an LPUSH like that of a job, whose failure is only logged.
Avisar(v) ==
    \E n \in IF ctx = "activo" THEN CopiasTrabajo ELSE {0} :
        dlq' = IF n > 0 /\ Agotada(copia[Cron], respuesta[Cron]) THEN dlq \cup {v} ELSE dlq

\* The dead letter goes out before the row is saved; neither needs the other.
CronGuardar ==
    LET v == venta[Cron] IN
    /\ pc[Cron] = "guardar"
    /\ \E llega \in AccesosBD(Cron) :
           Guardar(v, TrasCron(copia[Cron], respuesta[Cron]), llega)
    /\ Avisar(v)
    /\ IrA(Cron, IF DOMAIN lote = {} THEN "espera" ELSE "lote")
    /\ Olvidar(Cron)
    /\ UNCHANGED <<despacho, cola, venta, lote, ctx, cortes, autorizados>>

-----------------------------------------------------------------------------
(* Requests on one comprobante: FindByID, a check, Save. *)

Tipo(r) == Operacion[r].tipo

\* Faulty variant: any comprobante can be retried.
AdmiteSinEstado(r, fila) == Tipo(r) = "anular" => fila.estado = "emitido"

Admite(r, fila) ==
    /\ Tipo(r) = "reintentar" => fila.estado \in {"error", "rechazado"}
    /\ Tipo(r) = "anular" => fila.estado = "emitido"

Leer(r) ==
    LET fila == comp[Operacion[r].venta] IN
    /\ pc[r] = "inicio" /\ Tipo(r) # "cancelar" /\ fila # SinFila
    /\ copia' = [copia EXCEPT ![r] = fila]
    /\ IrA(r, IF Admite(r, fila) THEN "escribir" ELSE "rechazada")
    /\ UNCHANGED <<despacho, cola, bd, venta, respuesta, lote, ctx, cortes, autorizados>>

\* What the request writes; the handlers of PDF and e-mail change pdf_path only.
Pedida(r) ==
    IF Tipo(r) = "reintentar"
    THEN [copia[r] EXCEPT !.estado = "pendiente", !.intentos = 0, !.prox = "vencido"]
    ELSE IF Tipo(r) = "anular" THEN [copia[r] EXCEPT !.estado = "anulado"]
    ELSE copia[r]

Escribir(r) ==
    LET v == Operacion[r].venta IN
    /\ pc[r] = "escribir"
    /\ \E llega \in AccesosBD(r) :
           /\ Guardar(v, Pedida(r), llega)
           /\ IrA(r, IF llega /\ Guardable(Pedida(r)) THEN "ok" ELSE "error")
    /\ Olvidar(r)
    /\ UNCHANGED <<despacho, cola, dlq, venta, lote, ctx, cortes, autorizados>>

Programada(v) ==
    /\ comp[v] # SinFila
    /\ comp[v].estado = "pendiente" /\ comp[v].prox # "nunca"

\* CancelarPendientes: one UPDATE over the table.
Cancelar(r) ==
    /\ pc[r] = "inicio" /\ Tipo(r) = "cancelar"
    /\ comp' = [v \in Ventas |->
                   IF Programada(v) THEN [comp[v] EXCEPT !.estado = "error", !.prox = "nunca"]
                   ELSE comp[v]]
    /\ IrA(r, "ok")
    /\ UNCHANGED <<despacho, cola, dlq, venta, copia, respuesta, lote, ctx,
                   cortes, autorizados>>

-----------------------------------------------------------------------------
(* Time, and shutdown. *)

Vencer(v) ==
    /\ comp[v] # SinFila /\ comp[v].prox = "futuro"
    /\ PDFDentroDelPlazo =>
           ~\E w \in Trabajadores : pc[w] = "pdf" /\ venta[w] = v
    /\ comp' = [comp EXCEPT ![v].prox = "vencido"]
    /\ UNCHANGED <<despacho, cola, dlq, proceso, lote, ctx, cortes, autorizados>>

\* SIGTERM cancels the context that workers and cron run with.
Apagar ==
    /\ ctx = "activo" /\ cortes < MaxCortes
    /\ ctx' = "cancelado"
    /\ cortes' = cortes + 1
    /\ UNCHANGED <<despacho, cola, bd, proceso, lote, autorizados>>

\* The process ends once the jobs in flight have, or after 30 s, or at once
\* when it is killed; the cron is not waited for.  Then it starts again.
Reiniciar ==
    /\ ctx = "cancelado"
    /\ CorteForzado \/ \A w \in Trabajadores : pc[w] = "libre"
    /\ ctx' = "activo"
    /\ pc' = [p \in Procesos |->
                 IF p \in Peticiones /\ pc[p] = "escribir" THEN "error"
                 ELSE IF p \in Peticiones THEN pc[p] ELSE Reposo(p)]
    /\ copia' = [p \in Procesos |-> Nueva]
    /\ respuesta' = [p \in Procesos |-> SinRespuesta]
    /\ lote' = <<>>
    /\ despacho' = [v \in Ventas |->
                       IF despacho[v] = "respaldo" THEN "hecho" ELSE despacho[v]]
    /\ UNCHANGED <<cola, bd, venta, cortes, autorizados>>

-----------------------------------------------------------------------------

PasoDe(w) ==
    \/ Buscar(w) \/ Descartar(w) \/ Crear(w) \/ Llamar(w) \/ Resultado(w) \/ PDF(w)

Pedido(r) == Leer(r) \/ Escribir(r) \/ Cancelar(r)

Next ==
    \/ \E v \in Ventas : Encolar(v) \/ Respaldo(v) \/ Vencer(v) \/ CronLlamar(v)
    \/ \E w \in Trabajadores : PasoDe(w) \/ \E v \in Ventas : Tomar(w, v)
    \/ CronLeer \/ CronAbandonar \/ CronGuardar
    \/ \E r \in Peticiones : Pedido(r)
    \/ Apagar \/ Reiniciar

Spec == Init /\ [][Next]_vars

\* Goroutines are scheduled, calls return within their timeouts and time
\* passes.  The breaker never stays open for ever (CircuitBreaker.tla), so a
\* batch is not abandoned before a given row every time.
Fairness ==
    /\ \A v \in Ventas :
           /\ WF_vars(Encolar(v)) /\ WF_vars(Respaldo(v)) /\ WF_vars(Vencer(v))
           /\ SF_vars(CronLlamar(v))
           /\ WF_vars(\E w \in Trabajadores : Tomar(w, v))
    /\ \A w \in Trabajadores : WF_vars(PasoDe(w))
    /\ WF_vars(CronLeer) /\ WF_vars(CronGuardar)
    /\ \A r \in Peticiones : WF_vars(Pedido(r))
    /\ WF_vars(Reiniciar)

FairSpec == Spec /\ Fairness

-----------------------------------------------------------------------------

TypeOK ==
    /\ despacho \in [Ventas -> {"pendiente", "respaldo", "hecho"}]
    /\ cola \in [Ventas -> Nat]
    /\ comp \in [Ventas -> Fila \cup {SinFila}]
    /\ dlq \subseteq Ventas
    /\ pc \in [Procesos -> {"libre", "buscar", "crear", "ticket", "llamar", "guardar",
                            "pdf", "espera", "lote", "inicio", "escribir", "ok",
                            "rechazada", "error"}]
    /\ venta \in [Procesos -> Ventas]
    /\ copia \in [Procesos -> Fila]
    /\ respuesta \in [Procesos -> [tipo : Respuestas, cae : 0..2]]
    /\ DOMAIN lote \subseteq Ventas /\ \A v \in DOMAIN lote : lote[v] \in Fila
    /\ ctx \in {"activo", "cancelado"}
    /\ cortes \in 0..MaxCortes
    /\ autorizados \in [Ventas -> 0..2]

Existe(v) == comp[v] # SinFila

\* Worker p is between the start of its AFIP call and the write of its result,
\* or the cron has the sale in the batch it is working through.
ConAFIP(p, v) ==
    \/ pc[p] \in {"llamar", "guardar"} /\ venta[p] = v
    \/ p = Cron /\ v \in DOMAIN lote

\* Nobody asks AFIP for a sale while somebody else does: the worker that
\* creates the row, the fallback of the sale and the cron hand it over to each
\* other through next_retry_at alone (facturacion_worker.go:139, venta_service.go:341).
UnaLlamadaPorVenta ==
    \A v \in Ventas, p, q \in Trabajadores \cup {Cron} :
        ConAFIP(p, v) /\ ConAFIP(q, v) => p = q

\* A recorded CAE is never lost or replaced, in spite of all the copies that
\* are saved over the row (Save in comprobante_repo.go).
CaeEsPermanente ==
    [][\A v \in Ventas :
           Existe(v) /\ comp[v].cae # 0 => Existe(v)' /\ comp'[v].cae = comp[v].cae]_vars

\* An invoice is issued exactly when it carries a CAE, whoever wrote it last.
EmitidoSiTieneCae ==
    \A v \in Ventas \ Internas :
        Existe(v) => (comp[v].estado = "emitido" <=> comp[v].cae # 0)

\* A row that will still be retried has attempts left, whichever of worker,
\* cron and manual retry set its counter.
PendienteTieneIntentos ==
    \A v \in Ventas :
        Existe(v) /\ comp[v].estado = "pendiente" => comp[v].intentos < MaxReintentos

\* While the process lives and its writes succeed, every sale ends issued,
\* refused or in error: through the queue, or the fallback row, or the retries.
TodaVentaSeResuelve ==
    \A v \in Ventas :
        []<>(Existe(v) /\ comp[v].estado \in {"emitido", "rechazado", "error"})

-----------------------------------------------------------------------------
(* What a comment of the router says. *)

\* Downloading the PDF of a comprobante only reads it (router.go:166): its CAE
\* stays where it is.
DescargaConservaCae == CaeEsPermanente
=============================================================================
