# A verification of BlendPos

BlendPos is a point of sale: a React PWA at the till that goes on selling
without a network, a Go/Gin backend over PostgreSQL and Redis that registers the
sales, and a Python sidecar that asks AFIP (the tax authority) to authorise the
invoices. This directory models the parts of it in which several actors meet:
the sale transaction, the invoicing queue and its retries, the circuit breaker
in front of AFIP, the till with its local cart and its offline queue, the
session of the user, and the pages of the back office over a network that
answers late, out of order or not at all. TLC checks the models on small
instances; TLAPS proves all of their invariants, the action properties, and that the offline queue implements store and forward, for every value of the
constants.

Paths below are relative to the repository; `service/`, `worker/`, `infra/`,
`handler/`, `repository/` and `middleware/` are under `backend/internal/`,
`pages/`, `components/`, `store/`, `offline/` and `api/` under `frontend/src/`.

- [The system](#the-system)
- [Modules and plan](#modules-and-plan)
- [CircuitBreaker](#circuitbreaker), [Ventas](#ventas),
  [Facturacion](#facturacion), [OfflineSync and Entrega](#offlinesync-and-entrega),
  [Promociones and Terminal](#promociones-and-terminal),
  [Peticiones and Administracion](#peticiones-and-administracion)
- [Proofs](#proofs)
- [Where the code and its comments disagree](#where-the-code-and-its-comments-disagree)
- [What is not modelled](#what-is-not-modelled)

## The system

| component | state it keeps | operations | what it meets | what must hold |
|---|---|---|---|---|
| **Ventas y stock** (`service/venta_service.go`, `inventario_service.go`, `producto_service.go` and repositories) | `ventas`, `productos.stock_actual`, `movimientos_stock`, parent/child links | `RegistrarVenta`, `SyncBatch`, `AnularVenta`, `AjustarStock`, `Actualizar`, `Desactivar`/`Reactivar`, `DesarmeManual` and the automatic desarme | the other requests through row locks, the till, the invoicing queue after the commit | stock is conserved; no on-line oversale; an offline sale counts once; movements tell the truth |
| **Facturación** (`worker/`, `service/facturacion_service.go`, `handler/inventario.go`) | the Redis list `jobs:facturacion`, `comprobantes`, the dead letter list | `Process`, `processRetries`, manual retry, cancellation, annulment, PDF and e-mail handlers | sale commit, AFIP, shutdown | every sale is resolved; a CAE is never lost; one call per sale; a pending row has attempts left |
| **Circuit breaker** (`infra/circuit_breaker.go`) | state, two counters, time of the last failure | `Execute`, `State` | workers, cron, health endpoint | it trips and closes only when earned; it recovers |
| **Cola offline** (`offline/sync.ts`, `db.ts`, `store/useSaleStore.ts`, `main.tsx`, `sw.ts`) | IndexedDB `sales`, `sync_queue` | `enqueueSale`, `trySyncQueue`, `recoverLostSales` | `SyncBatch`, other calls of its own, page reloads | no sale disappears unless refused; attempts count answers |
| **Terminal de venta** (`pages/PosTerminal.tsx`, `components/pos/`, `store/useCartStore.ts`, `useSaleStore.ts`, `usePOSUIStore.ts`) | cart, selection, open dialogues, payment form, ticket counter, last sale | scan, search, quantities, removals, discounts, payment, `confirmSale`, `clearCart` | the local catalogue (asynchronous reads), the first answers of the backend | what is handed over, given back and recorded agree; no more units than stock; one number per ticket |
| **Promociones y carrito** (`store/usePromocionesStore.ts`, `components/pos/SalesTable.tsx`, `pages/admin/PromocionesTab.tsx`) | active promotions | `calculatePromoDiscounts`, `buildDisplayRows`, CRUD | the cart, at every render | the discount is that of the sets completed; table and total agree |
| **Caja** (`service/caja_service.go`, `store/useCajaStore.ts`, `components/pos/AbrirCajaModal.tsx`, `pages/admin/CierreCajaPage.tsx`) | the till session and `movimientos_caja`; its copy in the page and in sessionStorage | `Abrir`, `RegistrarMovimiento`, `Arqueo`, `restaurar` | sales and voids insert its movements; a page that reloads | one open session per point of sale; the till holds the sales that stand; a right count closes without a difference |
| **Autenticación** (`service/auth_service.go`, `middleware/auth.go`, `api/client.ts`, `store/useAuthStore.ts`) | users; refresh tokens revoked in Redis; tokens in memory and sessionStorage | login, refresh (proactive and after a 401), logout, change of password | every request | one refresh at a time; every waiting request ends |
| **Pages of the back office** (`pages/admin/`): categorías, usuarios, proveedores and CSV, productos, inventario, listas de precios, promociones, historial de ventas, compras | lists, filters, an open form or detail, flags | load, create, edit, (de)activate, assign, annul, pay | the backend's rows, through requests that overlap | a page at rest shows what is stored; a form is sent once; nothing loads for ever |
| **Catálogo local** (`offline/catalog.ts`) | IndexedDB `products`, `sync_meta` | full seed, delta, local deduction | product rows by `updated_at`, sales at the till | the local stock follows the server's, minus the sales not sent |
| **Rate limiter** (`middleware/rate_limiter.go`) | window counters, in Redis or in memory | one check per request | Redis failures | the limit of a window |
| **AFIP sidecar** (`afip-sidecar/`) | WSAA token cache, last invoice number at AFIP | `/facturar` | the breaker's calls | one CAE per number |
| Mass price change, price check, configuración fiscal, auditoría, e-mail, PDF/HTML, remaining middleware | rows and files that decide little or nothing | CRUD, fire-and-forget | product rows | |

The hard behaviours, each listed at its line in `PROJECT.json` ("hazards"):

- **Interleaving of transactions.** A sale checks stock before its transaction
  and again under `FOR UPDATE`; a void, an adjustment and a product edit decide
  on what they read earlier. Row locks are taken in item order, so two sales can
  deadlock.
- **Whole-row saves.** `comprobanteRepo.Update` is gorm's `Save`: worker, cron,
  PDF handler and requests each write back every column of a row read earlier.
- **At-least-once and at-most-once together.** `LPUSH` may be repeated by the
  client, `BRPOP` removes a job before it is processed, the fallback row exists
  next to a job that may have been stored after all, AFIP may authorise and the
  answer be lost.
- **Shutdown.** `main.go` cancels the context that jobs in flight write with,
  and only then waits for them.
- **Overlapping asynchronous calls in the browser**, which write back stale
  copies of queue items, and a page that may reload between any two awaits.
- **Handlers that outlive what they read.** A handler of the till waits for the
  local stock while others change the cart; the key handler of the payment form
  keeps the amounts of the render that made it; a page sets state for what its
  list was before the request, or after the user has left.
- **Answers out of order, and forms sent twice.** Two loads of one list, a load
  and a change, a dialogue closed and opened again while its request is on its
  way.
- **Single-use refresh tokens.** Several requests are refused at once and must
  share one refresh, which may fail, be lost, or end after a logout or a login.

## Modules and plan

| module | models | checked by | proved in |
|---|---|---|---|
| `CircuitBreaker` | `infra/circuit_breaker.go` | `MCCircuitBreaker` | `CircuitBreakerProofs` |
| `Ventas` | sales, stock and product requests over PostgreSQL | `MCVentas` | `VentasProofs` |
| `Facturacion` | queue, workers, cron, comprobantes | `MCFacturacion` | `FacturacionProofs` |
| `Entrega` | abstract: store and forward | as a property of `OfflineSync` | `OfflineSyncProofs` |
| `OfflineSync` | the till's queue and `SyncBatch`; implements `Entrega` | `MCOfflineSync` | `OfflineSyncProofs` |
| `Promociones` | discounts of a cart and rows of its table, as functions | `MCTerminal` | `TerminalProofs` |
| `Terminal` | the POS page: cart, dialogues, payment, sale | `MCTerminal` | `TerminalProofs` |
| `Peticiones` | what pages share: requests, answers, failures, leaving a page | through the next | |
| `Categorias`, `Usuarios`, `Proveedores`, `Productos`, `Inventario`, `Listas`, `PromocionesAdmin`, `Historial`, `Compras`, `Caja`, `Sesion` | one page each, with the part of the service it works on | through the next | |
| `Administracion` | the pages under one router, and what they all promise | `MCAdministracion` | `AdministracionProofs`, `AdministracionAlDia` |
| `Sumas` | lemmas about sums over finite sets, for `VentasProofs` and `TerminalProofs` | | itself |

`Administracion` instantiates its eleven pages and `Terminal` extends
`Promociones`; `OfflineSync` instantiates `Entrega` with its refinement mapping.
Otherwise no module contains another: they meet in a step of one that the other
takes as given. `Terminal` ends a sale with the call of `enqueueSale` at which
`OfflineSync` begins; `OfflineSync` sees a registration as "insert or refuse",
whose inside is `Ventas`; `Ventas` ends a sale with the dispatch (`Despachar`) at
which `Facturacion` begins (`Encolar`, `Respaldo`); `Facturacion` calls AFIP
through the breaker, which appears there as one more possible failure; and what
one page asks of the backend is one atomic step of its service, whose inside,
where it has one, is `Ventas` or `Facturacion`.

A definition named `...Sin...`, `...DeMas`, `...Tarde`, `...Keeping...` and so on,
commented "Faulty variant", is what a plausible bug would make of the definition
after it. It is not part of the specification: replacing the definition by its
variant must make a stated property fail.

The plan, most important first:

1. Done: breaker, sales, invoicing, offline queue, the till and its promotions,
   the session of the user, the till session and the pages of the back office,
   with the proofs of their safety properties; the abstract `Entrega` and its
   refinement.
2. The separate steps of `Arqueo` (read, sum, classify, save the whole row) and
   of `Abrir` against `uq_caja_abierta_por_punto`, with the sales and voids that
   post meanwhile, inside `Ventas`.
3. Two more abstract specifications: a ledger (sell, void, adjust: each one
   atomic) that `Ventas` implements; an invoice that is resolved once and keeps
   its CAE, which `Facturacion` implements where its runs hold.
4. The seed and delta of the local catalogue against product changes and local
   deductions, and with it a `Terminal` whose stock is refreshed.
5. The sidecar: token cache and numbering, and with it a composition of
   `Facturacion` with `CircuitBreaker` in place of the abstract failure.
6. The rate limiter with its in-memory fallback, back-off of the cron and of the
   till, the mass price update and the rows of a CSV.
7. The proofs of 2 to 6, with the refinements of 3.

Runs share a module through sets of workloads (`Cargas` in `Ventas`, the pages in
`Administracion`), so that a new question does not need a new run.

## CircuitBreaker

The four fields of the breaker, where each caller is (`calls`), and two history
variables that count the results of one kind in a row. `Begin` is `Execute` up to
the call of `fn`, including what `State()` changes; `EndFailure` and `EndSuccess`
are its end under the mutex; between them the mutex is free and anything may
happen. Time is the number of ticks since the last failure, saturating at
`OpenTimeout`, since the code only compares. `Query` is the health endpoint and
the cron's look at the state.

Run **circuit_breaker** (three callers, thresholds 3 and 2, timeout 2): the
counters mean what the comments say although results arrive in a state other
than the one their call was admitted in (`ClosedCountsConsecutiveFailures`,
`HalfOpenCountsConsecutiveSuccesses`, `FailureCountBounded`); transitions are
earned; an open breaker admits nobody; and if AFIP fails only finitely often the
breaker ends closed. Three callers are enough for one to be inside `fn` from the
closed state, one from the half-open state and one to be starting; the thresholds
are above one so that runs of results can be interrupted.

Fairness: callers keep calling (worker loop, cron ticker), a call ends (the HTTP
client has a 30 s timeout), time passes. Which way a call ends is not assumed.

## Ventas

Each request of a workload is a process with a program counter. The committed
state is `stock`, `activo`, `sesion`, `ventas`, `caja` (how often the payments
of a sale are in the till), `movs` and `facturacion`; a transaction keeps its
writes in `delta` and `movsTx` until `Confirmar`, and holds rows in `candado`.

| action | code |
|---|---|
| `Iniciar`, `ValidarLinea`, `RechazarSolicitud` | session, `offline_id` and item checks before the transaction (`venta_service.go:92-207`) |
| `BloquearLinea` | the re-check under `FOR UPDATE` (:211-231), on-line sales only |
| `Insertar` | the INSERT against the unique `offline_id` |
| `Leer`, `Decidir`, `DesarmarPadre`, `DescontarHijo` | `DescontarStockTx`: read, decide on the split, update parent, update child, movement |
| `ConfirmarVenta`, `Despachar` | commit with the till movements; the job or its fallback row (:319-363) |
| `LeerVenta`, `RestaurarLinea`, `ConfirmarAnulacion` | `AnularVenta` |
| `LeerPadre`, `ConfirmarDesarme` | `DesarmeManual` |
| `LeerProducto`, `AplicarAjuste`, `GuardarProducto`, `CambiarActivo` | `AjustarStock`, `Actualizar`, `Desactivar`, `Reactivar` |
| `Abortar`, `CaerTrasConfirmar`, `RomperAbrazo` | a failed statement or deadline; a crash between commit and dispatch; the database aborting a member of a cycle of waits |

PostgreSQL is modelled from how the code uses it, at its default level READ
COMMITTED: a statement sees committed rows and its own writes, a written or
`FOR UPDATE` row is held until the end, an insert of a key that another open
transaction has inserted waits.

Run **ventas** takes one of five workloads, of up to five requests over two
products (a bottle, and a pack of two that splits into bottles), one unit of each
in stock:

- a sale and its void against an offline sale that needs a split and is sent twice;
- two sales with their lines in opposite orders, a manual split and an adjustment;
- two on-line sales of the last pack while its product is edited, switched off
  and on;
- the till closing while the last bottles are sold, one sale wanting a split;
- a sale that lists its bottle twice, its void, and a manual split.

It checks conservation of units (`UnidadesConservadas`: what is on the shelf is
the initial stock minus the sales that stand plus the adjustments, whatever was
split, rolled back or voided), agreement of till and sales (`CajaSigueAVentas`),
deduplication (`OfflineUnaVez`), truthful movements
(`MovimientosConCandadoExactos`), no oversale of an on-line sale with distinct
products (`EnLineaNuncaSobrevende`), and that every request is answered
(`TodasTerminan`). `UnidadesConservadas` sees that a split gives the child what it
takes from the parent, not whether it opened the right number of packs.
One unit per product makes every pair of requests compete for it; two products
are what a lock cycle and a split need; a sale, its duplicate, its void and a
competitor are the largest group of requests that the properties relate.

Fairness: each request whose next step is enabled takes it, and the database
breaks a cycle of waits (both per request, weak). A failure is never assumed.

Conditions in the properties are where the code does less, and each has an entry
below: editing a product while it is sold (`SinEdiciones`), a sale with a product
listed twice (`LineasDistintas`), two voids of one sale (`UnaAnulacionPorVenta`).
Run **ventas_doble_anulacion** shows the last.

Run **ventas_desarme** (violation) is one on-line sale, alone, of two bottles where
one is loose and a pack is in stock. The code says that the pack will be opened, in
the preflight (`venta_service.go:132`), at the deduction (:272) and in the test
`TestRegistrarVenta_ConDesarme` (`backend/tests/ventas_test.go:322`); the re-check
under the lock (:224) counts loose bottles only and refuses the sale
(`DesarmeEvitaRechazo`). The test passes because its repository has no transaction,
and `tx == nil` skips the re-check (:213).

## Facturacion

`cola` counts the jobs of a sale in the Redis list, `comp` is its row of
`comprobantes`, `dlq` the dead letter list; each worker, the cron and each
request is a process with the copy of the row it read. `next_retry_at` is what
the code sees of it: NULL, later, or due. CAEs are numbered per sale in the order
in which AFIP granted them. AFIP may approve, approve with the answer lost, fail
(an open breaker is such a failure), answer 4xx, or reject.

| action | code |
|---|---|
| `Encolar`, `Respaldo` | `Dispatcher.enqueue` and the fallback row (`venta_service.go:335-363`) |
| `Tomar` | `BRPOP` in `runQueueWorker` |
| `Buscar`, `Descartar`, `Crear`, `Llamar`, `Resultado`, `PDF` | `FacturacionWorker.Process`, `handleAFIPResult`, `generatePDF` |
| `CronLeer`, `CronAbandonar`, `CronLlamar`, `CronGuardar` | `processRetries` |
| `Leer`, `Escribir`, `Cancelar` | `ReintentarComprobante`, `AnularComprobante`, `DescargarPDF`, `EnviarEmailComprobante`, `CancelarPendientes` |
| `Apagar`, `Reiniciar` | `main.go:191-229`: the context is cancelled; the process ends when its jobs have, after 30 s, or at once |

Parameters say what a run allows: how often one push is stored, whether the
database may fail, how many shutdowns, whether a PDF is written before the retry
falls due, which answers AFIP gives. Each run and what it needs:

- **facturacion_cortes**: a fiscal sale and a `ticket_interno`, two workers, an
  annulment, any database access may fail, one shutdown that may kill the process
  at any step. `UnaLlamadaPorVenta` and `CaeEsPermanente` hold when a push is stored
  at most once, a push that failed stored nothing, the PDF is ready before the retry
  is due and nobody downloads meanwhile; the divergences below are what happens
  otherwise. `TypeOK` says that no row takes an estado its CHECK refuses, which an
  annulment tries.
- **facturacion_vida**: one sale, two workers, a job stored never, once or twice
  whether or not the push reported an error (and so queue and fallback row at once),
  a cancellation and a manual retry. An invoice is issued exactly when it has a CAE
  (`EmitidoSiTieneCae`), a pending row has attempts left (`PendienteTieneIntentos`),
  and every sale is resolved again and again (`TodaVentaSeResuelve`). It has no
  database failure and no crash: with them the code does lose sales (below). AFIP
  approves, fails or answers 4xx; its other two answers are in *cortes*.
- **facturacion_descarga** (violation): see below.

One sale is enough wherever the processes only meet in its row; the second sale
of *cortes* lets the cron hold a batch of several rows. `MaxReintentos` is 2 in
place of 10 (`MaxComprobanteRetries`): the first attempt, a repeated one, and none
left. Two workers are
the least that can hold two copies of one job. A run may stop (all sales
resolved, queue empty), so deadlock is not checked.

The dead letter list is written by `Avisar`, an LPUSH like that of a job: it may be
stored, lost or stored twice, independently of the database, and its failure is only
logged. No property promises that what ran out of attempts is in it, since the code
does not (below).

Fairness: the dispatch step, each worker's next step, the cron's read and save,
time and restart are weakly fair. `CronLlamar` is strongly fair: the breaker may
empty a batch before its turn, but not for ever, since the breaker ends closed
when AFIP recovers (`RecoversWhenHealthy`), and the query orders rows by their
due time.

## OfflineSync and Entrega

`ventas` is a sale's flag in `db.sales`, `cola` the items of `db.sync_queue` by
key; each overlapping call has the copies it read (`lote`), the ids the server
has not answered (`resto`), the answer so far and, while it recovers, the sales
it found lost. An await is a step boundary: `Enviar` reads and posts;
`Comprobar` and `Insertar` are the server's work on one sale of the batch;
`Responder`, `ErrorHttp` and `Caer` are the three ways the call ends (results, an
HTTP error, no network); `LeerErrores`, `Purgar`, `Releer` and `Reencolar` are
the awaits of `recoverLostSales`. `Recargar` kills every call and keeps IndexedDB.
`nextAttemptAt` is left out: an attempt may come at any later time.

`Entrega` is what all of this is for, in three actions: a sale waits from the
moment it is made (`Vender`), it is recorded at most once (`Registrar`), and the
till may reorder what waits, and drop a sale only when the server has it or has
refused it `MaxIntentos` times (`Ordenar`). Under the mapping *made* = the sale is
in `db.sales`, *waiting* = it has an item in the queue, in error or
not, *recorded* = it has a row, *refusals* = answers that did not accept it, every step of
`OfflineSync` is a step of `Entrega` or a stutter: that is `EntregaSpec`.

- **offline**: two overlapping calls, one of which also recovers, a new sale and
  one an earlier version lost, one failure, two attempts. Stale copies written
  back lose no sale (`SoloSePierdeTrasRechazos`: an unsynchronised sale is
  registered, queued, or was refused to the limit), charge a sale that the server
  does not have with no more attempts than answers that did not accept it
  (`IntentosJustificados`), and make no step that store and forward would not
  (`EntregaSpec`). The till itself cannot tell: an acceptance that comes without the
  `offline_id` is a failed attempt to it (`Fallida`), and `fallos` does not count it
  (`Admitida`), so a sale the server has may run out of attempts; see below.
- **offline_vida**: one call at a time, the real limit of three, two failures:
  every sale arrives or is refused three times, while its session is open.
- **offline_perdida** (violation): a sale does get lost, see below.

Two sales are the least for a batch with a mixed answer, two calls the least that
overlap; the batch of two holds both sales. The page may stay off line or have
nothing left to do, so deadlock is not checked.

Fairness: the timer calls again and a call that started goes on; the page that
starts recovers; the network returns. `Enviar` is strongly fair because the
network may go and come: an item is due at most five minutes after its last
attempt, so a timer tick meets it on line.

## Promociones and Terminal

`Promociones` has no state: the discount of each item (`calculatePromoDiscounts`),
the subtotals and the total of the cart, and the rows into which
`buildDisplayRows` splits it, as recursive functions over the sequences the code
loops over. Percentages are counted in parts of `Escala`, so that the prices and
amounts of a run divide exactly; the rounding of the screen is left out.

`Terminal` is the POS page. JavaScript runs a handler to its first await and the
rest of it later: `esperas` holds those rests, oldest first, and any of them may
go on next. The local catalogue answers reads in the order of its transactions,
so a read has its value when it is asked for, and the handler acts on it later.
React renders, and runs the effects of the render, before the next event: the
recalculation of promotions (`EfectoPromos`) and the re-registration of the
payment form's key handler (`EfectoTeclas`) are conjuncts of every step, and
`captura` is what that handler closed over when it was last made.

| action | code |
|---|---|
| `Respuesta` | `syncTicketCounter` and the active promotions, asked for when the page opens |
| `Escanear`, `Encontrar`, `Elegir` | the scanner field, `handleAddProduct`, `selectProduct` |
| `PedirAlta`, `Alta`; `PedirCantidad`, `Fijar` | `addItem` and `updateQuantity` before and after `getLocalStock` |
| `Sumar`, `EditarFila`, `QuitarCombo`, `Suprimir`, `Mover`, `Cancelar` | keys of the page, buttons of a row of the table, `handleDeleteCombo`, `removeSelectedItem`, `clearCart` |
| `Abrir`, `Cerrar`, `AbrirDescuento`, `AplicarDescuento` | `usePOSUIStore`, `DiscountModal` |
| `AbrirPago`, `Rellenar`, `RellenarComprobante`, `Confirmar`, `ConfirmarTecla` | `PaymentModal`: reset, fields, button, and Enter through the key handler |
| `Vender` | `confirmSale`, `deductLocalStock`, `clearCart`, the dialogue of the finished sale |

Run **terminal**: two products (two units of one, one of the other), three sets
of promotions (an amount off a pair; the pair at a fixed price; a percentage off
the pair next to an amount off any two units of a group), six keys, clicks or
scans, two handlers waiting at once, two sales. It checks:

- `TicketsDistintos`: no two sales of a session have one number, though the
  backend's counter arrives at any time;
- `NuncaMasQueElStock`: however additions and typed quantities wait for their
  reads, no item asks for more than there was, unless a read failed (which the
  code lets through on purpose);
- `VueltoCorrecto`: cash less change is the cash of the payments recorded, also when
  Enter finds the handler of an older render or an item arrives while the form is
  open. That the payments of a mixed sale add up to its total then is not so (below);
- `AhorroJusto`: however a discount is spread over items and loose units, it is
  that of the sets the cart completes, against a definition that counts sets
  without spreading anything;
- `TablaYTotal`: table and total, computed apart, agree where the cashier gives no
  discount and the promotions are apart (`Separadas`): by products, each in one of
  them and once, an amount or a percentage.

Two sales are the least for numbers to repeat; two waiting handlers the least to
interfere; six events reach a sale with two scanned items and an edited payment.
The conditions in the last group of properties are where the code does less, and
each has an entry below. The cashier's events are bounded and then the page has
nothing to do, so deadlock is not checked.

## Peticiones and Administracion

`Peticiones` is what every page of the back office has in common, written once:
`vista` is the state of the page, `srv` what the backend keeps of its subject,
`ida` and `vuelta` the requests and answers on their way. A handler runs to its
first await, which is a request (`Toque`, `Recarga`, `Montar`); the backend takes
requests in any order, each atomically (`Atiende`); answers arrive in any order
and the rest of the handler runs then (`Llega`). Either way may fail: a request
may be lost before the backend acted on it or after. A page that is left is
unmounted; its handlers go on, may ask for more, and set nothing.

Each page module is the state of its component, one action per handler, the
operator `Servidor` for the part of the service that answers it, and `Recibir`
for what comes after the await.

| module | code | where it is delicate |
|---|---|---|
| `Categorias` | `CategoriasPage.tsx`, `categoria_service.go` | dialogue closed and opened during a save |
| `Usuarios` | `UsuariosPage.tsx`, `auth_service.go` | filter of inactive ones while a list is on its way |
| `Proveedores` | `ProveedoresPage.tsx`, supplier and CSV services | a file read asynchronously while another is chosen |
| `Productos` | `GestionProductosPage.tsx`, `producto_service.go` | bulk deletion, one request after another |
| `Inventario` | `InventarioPage.tsx`, `inventario_service.go` | stock set before the answer; alerts computed twice |
| `Listas` | `ListasPreciosPage.tsx`, `lista_precios_service.go` | list and detail refreshed by different handlers |
| `PromocionesAdmin` | `PromocionesTab.tsx`, `promocion_service.go` | a form of two modes |
| `Historial` | `FacturacionPage.tsx` | annulments remembered beside the list |
| `Compras` | `ComprasPage.tsx`, `NuevaCompraPage.tsx`, `DetalleCompraPage.tsx`, `compra_service.go` | totals with and without tax; a save that navigates after the user left |
| `Caja` | `useCajaStore.ts`, `AbrirCajaModal.tsx`, `CierreCajaPage.tsx`, `caja_service.go` | the remembered session, reloads, the blind count on an old report |
| `Sesion` | `useAuthStore.ts`, `tokenStore.ts`, `api/client.ts`, `auth_service.go` | one refresh for all who wait; logout, reload and loss meanwhile |

`Administracion` chooses a page (`pagina`) and states once what they all promise:

- `AlDia`: with nothing on its way and no reason for doubt, the page shows what
  the backend keeps. `dudosa` says that there is a reason: a request failed or
  answers were not given in the order of the requests, since everything was last
  loaded with nothing else in flight; or the page itself did one of the things
  listed below, each marked in its module where it happens (`Tropiezo`,
  `Inventa`). What is left for the property is every handler's duty to reload
  what its change touches or to make the same change itself.
- `UnaALaVez`: a form whose button shows that it is being sent is not sent again,
  whatever is closed and opened meanwhile. `Guardados` lists the forms that have
  such a flag; those without one are below.
- `NuncaMiente`: at every moment, with anything on its way, a sale shown as
  annulled is annulled.
- `CajaCuadra`: a session counted rightly, on a report of that session with all of
  its sales, closes without a difference, though the page declares the digital part
  itself and the backend adds up its own. Each half of the condition is needed: a
  report goes stale with the next sale, and when another session is adopted while
  the page is open the form keeps the report of the one before until that of the new
  one arrives.
- `NadaCargaParaSiempre`: a spinner, the flag of a form, the requests that wait
  for new tokens all end, whatever fails.

Run **administracion** lets each page have five clicks and failures (four for
inventory, history and purchases, whose forms have more values), two requests in
flight, two names, products, files, sales. Two requests are the least that can
overlap or be answered out of order; five events open a form, send it, open it
again, send or leave it, and fail once. One behaviour is that of one page, since
the router shows one at a time and what one leaves on its way when it is left is in
its own module. The user may stop at any point, so deadlock is not checked.

Fairness: the oldest request is taken and the oldest answer arrives, both weakly:
`fetch` settles, with an answer or with an error. Nothing is assumed of the user.

## Proofs

`tlapm` checks every theorem to its last leaf. None restricts the size of any
set; the assumptions are those the modules state about their constants
(`ThresholdsPositive`, `CallersFinite`; `CargasValidas`, `VinculosValidos`,
`StockInicialValido`; `FacturacionConstantes`; `OfflineConstantes`;
`PromocionesConstantes`, `TerminalConstantes`; `PeticionesConstantes`,
`AdministracionConstantes`), which TLC evaluates in the runs, and the hypotheses
that three theorems name in their statements: about failures, two on invoicing;
about the catalogue, `StockConservado`.

**CircuitBreakerProofs.** The invariant ties each counter to the history of
results: closed, the counter is the run of failures; half-open, it is bounded by
the run of successes; and the counter is below the threshold plus the callers
that are not inside `fn`, which is what makes `FailureCountBounded` inductive:
in the open state each late failure uses up one caller. `EarnedTransitions`,
`HalfOpenCountsSuccesses` and `OpenIsClosedToCallers` follow step by step, on
`TypeCorrect`.

**VentasProofs.** `TiposCorrectos` needs `Forma`: where a request stands says
which operation it runs and that its line exists. On top of it: `Candados`
(whoever has uncommitted changes in a row holds it) and `Reserva` (what an on-line
sale with distinct products has secured: its lines up to the current one are
locked with stock for them, those already deducted are locked at zero or more,
and so it splits no parent) give `NuncaSobrevende` and, with `Exactos` on committed and uncommitted movements, `MovimientosExactos`;
`UnicaFila` (of the requests with one `offline_id`, at most one has a row,
committed or not) gives `SincronizadaUnaVez`; `Pagos` (the till against estado,
and the estado a void under way relies on) gives `CajaCuadra`.

`StockConservado` is about sums over all products and all requests. `Balance` is the
property, with the committed stock; it moves only when a transaction commits, and
then by what the transaction has written. So `Cuentas` says of every open one
what its uncommitted writes come to, weighted in units of the child product: minus
the lines it has deducted, plus those it has restored, nothing for a split, and
between the two updates of a split exactly the pack that is open. `SoloVentas` and
`Pagos` are what a void needs to give back just what its sale took. The theorem
supposes finitely many products and requests, and `VinculosSimples`: no pack of
packs, and packs with the same content for all the children of one parent. Without
it there is no measure that a split leaves alone.

**Sumas** has the lemmas: `SumFunctionOnSet` of the community modules is a fold that
takes its terms in an order of its own, so the first is that any term may be taken
first; then what one term more, one changed, or a sum of two functions makes of
the sum. The library's induction theorems take an operator as parameter and cannot
be instantiated here; an induction is written instead as the choice of a smallest
counterexample (`Minimo`, from `WFMin` on the natural numbers), and that a recursive
function has the equation that defines it as the choice of its restrictions to
initial segments (`TerminalProofs`, `RecursionExiste`).

**FacturacionProofs.** `FactInv` is `TypeOK` with three parts that are about
*copies* as much as about rows: `FilasBien` (a row has a CAE iff it is issued, and
attempts if it is pending), `LotesBien` (so has each row of the cron's batch,
which carries no CAE), `ProcesosBien` (so has what each process would save next);
internal tickets are issued without a CAE and only keep the second part.
Without the last two the first is not inductive: a save is only as good as the
copy it writes. From it: `TiposCorrectos`, `EmitidoConCae`, `PendienteConIntentos`,
for every setting of the failure parameters.

Its second part proves `UnaLlamadaSiempre` and `CaePermanente` for any sales,
workers, answers of AFIP, limit of attempts, database failures and shutdowns,
under `SinPeticiones`: no request touches the rows, a push is stored at most once
and only if it reported success, and the PDF is written before the retry is due.
There is no lock between worker, fallback row and cron; the invariant `TurnoInv`
is the order that stands in for one. Until its job is taken a sale has neither a
row nor anyone working on it (`ColasBien`); a row with a CAE has no date
(`FilasSeguras`); what the cron has carries no CAE and no worker has it
(`CronsSeguros`, `CronEnSuSitio`); a worker starts from a row of its own making, which is
not due before its PDF is written (`TrabajadoresSeguros`); and no two workers have one sale
(`CadaUnoLaSuya`).

**OfflineSyncProofs.** `ColaInv` says of every item *and every stale copy* that
its tries are at most the answers that did not accept its sale, unless the server
has that sale, and that it is in error exactly when they are used up; that all copies
of one key are of one sale (keys are never reused); and that a sale answered
`completada` has a row, which is what an acceptance without its `offline_id` needs.
`IntentosSiempreJustificados` is part of it, and with it `SoloSePierdeTrasRechazos`
is inductive (`NoPierdeSinRechazos`): what `Purgar` deletes had used up its
attempts, and its sale was refused as often or is registered; what `Responder`
deletes was answered `completada`, so it has a row. The delicate step is `Reencolar`, whose
fresh keys the proof shows to be one per sale.

`ImplementaEntrega` is the refinement: the initial states map to
an initial state, and each step, by cases over the actions, to `Vender`,
`Registrar`, `Ordenar` for some set of refused sales, or a stutter. It uses
`ColaInv` and `NoPierdeSinRechazos` in both states, and one more invariant,
`SoloHechas`: items, copies of items and recovered sales in the hands of a call are
of sales that were made, so that nothing is written back or recorded that the till
never sold.

**TerminalProofs** has five invariants; the second to the fourth rest on the first.

- `CarritoInv` gives `NoSePideDeMas`. What bounds an item is not in its handler but
  in what it read: `Esperan` says of every addition that waits that the stock it read
  is no more than there was, unless a read failed; `Caben` that every item fits in
  that. `EnRango` keeps the selection inside a cart whose rows come and go.
  `SeAhorraLoJusto` follows from it too: what comes off an item, times the value V of the sets, is the
  discount D times the item's share of V; summed over the items, what comes off the
  cart is D (`QuitaEs`, `AhorroSumado`, `SumaPor`). A discount larger than V meets the
  cap of 100 % instead. That the sets are the largest number the groups can serve is
  `ServidosSon`.
- `DineroInv` is that amounts are natural numbers, in the form and in what its key
  handler closed over: a discount is between nothing and the whole of its item, for
  any promotions, and the total is the sum of what is left.
- `VueltoCorrecto` itself is about the record of the last sale, and inductive given
  `DineroInv` (`VueltoExacto`); only `Confirmar` and `ConfirmarTecla` disturb it, the
  second with amounts of an earlier render.
- `UnicosInv` is that no product is in the cart twice and that `total` is that of cart
  and promotions; with `CarritoInv` it gives `LaTablaSumaElTotal`. A row takes units at
  full price out of the loose ones and shows what is left of it: `Resto` is the loose
  part after the first K rows, `RestoSigue` what row K changes of it, and `TablaHasta`,
  by the least K that fails, that rows and loose part always add up to the total. Since
  promotions are apart, the rows above leave the products of row K alone
  (`QuedaEntero`), so its sets are those of the total (`SetsDeFila`); its products, in
  the order of the promotion, are items, in that of the cart (`SumaReindexa`).
- `TicketsInv` gives `TicketsDistintosSiempre`: the history is strictly decreasing and
  bounded by the counter, which the late answer of the backend only raises.

`SeAhorraLoJusto` and `LaTablaSumaElTotal` are about carts and promotions whose shares
divide exactly (`DivideExacto`): the program divides in floating point, the model in
whole numbers.

`TerminalConstantes` assumes of a promotion what the code enforces before the cart
sees it: its quantities are positive (`Math.max(1, ...)`,
`usePromocionesStore.ts:137` and :222; `promocion_service.go:166`).

**AdministracionProofs.** One invariant, that of the page that is shown; three
promises follow from it.

- `NoSeEnviaDosVeces`. That at most one request of a form is in flight is not
  inductive: it has to be said who holds the flag. For each flag of each page the
  invariant counts the requests and answers that hold it (the submission, and what
  the handler asks for after it before its `finally`): at most one, and none while
  the flag is down. The bulk deletion of products hands the flag from one request
  to the next; the session counts those that wait for new tokens as well; what a page
  that was left still has on its way holds nothing, which is why a form may be sent
  again from a page that is opened again. The first part of the module counts members
  of a sequence with a property when one goes or others are appended; with it
  each handler is a click that asks (`PasoPide`) or an answer that may ask for more
  (`PasoLlega`).
- `LoAnuladoEsAnulado` and `CajaBienContada`. What waits, is remembered or is
  shown was so once (`HistorialInv`: what a list or an answer says is annulled;
  `CajaInv`: the report of a session and what is declared from it), and the backend
  only goes forward: no sale is un-annulled; no session loses a sale, and without one
  more its digital part is the same. So a report with as many sales as its session is
  its report now, however old it is.

**AdministracionAlDia.** `PaginaAlDia` is `AlDia`, on each of the eleven pages; what
it takes of the six that show a table (categories, promotions, suppliers, users,
products, inventory) is at the end of `AdministracionProofs`, on which this module
builds. At rest the property is plain; the invariant has to say, with anything on its
way and in the order in which it will come, why it will hold in the end.

- A *channel* is a piece of data that a page shows: the rows of its list, an open
  detail, one field of one row, a token. While there is no reason for doubt, one of
  three things is so of every channel (`Fresca`): a request that brings the data is
  still to be taken; an answer on its way accepts a change after which the page will
  ask for it; or the last answer on its way that tells of it (the page itself, if none
  does) already has what the backend keeps. The last part of `AdministracionProofs`
  proves once that clicks, the backend and answers keep this, from what a page
  declares of a channel: which requests bring it, which changes are followed by a new
  load, which answers tell it.
- Every page then names its channels, proves its clicks and its answers one by one,
  and adds what its handlers depend on. Of users and products, that a row differs from
  what the backend keeps only while the answer to its switch is on its way, and that a
  switch still asks for what its row calls for. Of the history, purchases and price
  lists, that the last list to be taken was asked for with the filter that is chosen.
  Of the till, what can be on its way in each of its stages (restoring the session,
  selling in it, closing it), and that a report is good until a count is accepted.
- The session has one channel, the pair of tokens, moved by login, renewal and
  restoration. The invariant says which of these can be on their way together, that a
  renewal is never asked for after a request to leave, and who holds tokens
  meanwhile (`SOrden`, `SQuien`).

Two steps that earn no trust were missing from `dudosa` when the proof began, and made
the invariant fail on behaviours longer than those of the run: a product switched while
a list is on its way, and a password accepted after the tokens were thrown away. Both
are marked now (`AlternarActivo` in `Productos`, `SinNada` in `Sesion`) and are among
the disagreements below.

Only model-checked is everything under fairness (`RecoversWhenHealthy`,
`TodasTerminan`, `TodaVentaSeResuelve`, `TodaVentaLlega`, `NadaCargaParaSiempre`),
which is out of this prover's reach.

## Where the code and its comments disagree

Four are runs that TLC finds violated:

- `AnularVenta` reads estado before its transaction and updates without a
  condition: two voids of one sale both restore its stock and both take its
  payments out of the till (`venta_service.go:382`). Run *ventas_doble_anulacion*.
- The re-check under the lock refuses every on-line sale that automatic desarme was
  to supply (`venta_service.go:224`, against :132, :272 and
  `TestRegistrarVenta_ConDesarme`). Run *ventas_desarme*.
- `DescargarPDF` and `EnviarEmailComprobante` save the whole row they read before
  generating the PDF, and can erase a CAE that arrived meanwhile
  (`handler/inventario.go:228`, against `router.go:166`). Run
  *facturacion_descarga*.
- `recoverLostSales` deletes the items that ran out of attempts instead of giving
  them another chance (`sync.ts:228`, against :215). Since the access token lives
  in memory and `main.tsx:25` synchronises before the login, three 401 answers
  are enough. Run *offline_perdida*.

The others are in the models, as behaviour that the stated properties leave
room for, and not runs. In the backend:

- Breaker: half-open admits every caller, not the one probe of
  `circuit_breaker.go:16` (:106-108).
- `RegistrarVenta`: a sale that lists a product twice
  passes both checks line by line, may oversell or split, and its movements are
  inexact (:214, :84); an oversale by `SyncBatch` can go without the flag
  `ConflictoStock` promised at :444, which is set from an old read (:145).
- `AjustarStock` and `DesarmeManual` check outside their write, so two of them can
  leave stock negative (`producto_service.go:278`, `inventario_service.go:133`);
  `Actualizar` writes back the stock it read (`producto_service.go:242`).
- A crash between commit and dispatch leaves a completed sale with no comprobante
  (`venta_service.go:319`).
- Invoicing: after a lost answer a retry asks for a second CAE (`retry_cron.go:151`,
  against `Go/produccion_ejecucion.md:474`); a job cut off by a shutdown leaves a
  pending row without a date, which the cron never reads (`main.go:197`,
  `comprobante_repo.go:63`); `AnularComprobante` writes an estado that the CHECK of
  migration 000001 refuses (`facturacion_service.go:85`); the worker retries the
  4xx that the cron treats as final (`facturacion_worker.go:297`,
  `infra/afip.go:50`); the fallback row of a `ticket_interno` is sent to AFIP
  (`retry_cron.go:109`, `facturacion_worker.go:155`); `generatePDF` of a worker can
  undo a cancellation (`facturacion_worker.go:385`, `handler/inventario.go:327`);
  what ran out of attempts may be missing from the dead letter queue, since a push
  that fails is only logged (`worker/dlq.go:46`) and the worker that reaches the limit
  pushes nothing (`facturacion_worker.go:305-307`, against :24-25).
- Offline: `ventaToResponse` never fills `offline_id` (`venta_service.go:570`,
  `dto/venta_dto.go:104`), so the till matches no accepted sale (`sync.ts:110`),
  counts a failure (against :110-112, by which results are matched safely) until the
  attempts run out, and never marks it synchronised; the session is checked before
  the deduplication (`venta_service.go:92`), so a registered sale sent again after
  the till closed is answered with an error.
- `Arqueo` reads, sums and saves without a transaction (`caja_service.go:190`), and
  judges a deviation on the total, digital payments included, where the page
  speaks of cash.

At the till:

- A promotion by groups at a fixed price takes off too much when the cart completes
  two sets or more (`usePromocionesStore.ts:198-199`).
- A sale discounted by 100 % is charged in full: `totalConDescuento || total`
  (`useSaleStore.ts:113`).
- The key handler of the payment form keeps the mixed amounts of an older render,
  so that the payments of a sale may not add up to the total of its cart, and does
  not ask whether the e-mail is valid, as the button does
  (`PaymentModal.tsx:222-235`); what the form fills in for the chosen kind of
  invoice is undone by the effect that resets it.
- An amount larger than its sets cost is spread over the units of its items, so that
  loose ones pay the difference; an item in two groups of a promotion has its units
  counted in both (`usePromocionesStore.ts:155-196`). `AhorroJusto` leaves both out.
- The table shows another amount than the total for promotions at a fixed price,
  which it takes for an amount off, and for those by groups, which it ignores
  (`SalesTable.tsx:49-133`). So it does for promotions that share products, whose rows
  share units out while the total gives each item its best discount; and for a
  percentage above 100, which the form does not take (`PromocionesTab.tsx:471`) and
  the backend does (`dto/promocion_dto.go:9`): the total caps it, a row does not
  (`SalesTable.tsx:83-85`). `Separadas` is the rest.
- A scan whose lookup ends while the payment form is open, or after the sale,
  lands in that cart or the next; a typed quantity is absolute, whatever happened
  since it was typed. `anyModalOpen` leaves out the dialogues of the finished sale,
  the opening of the till and the search, so that keys go through them.
- The dialogue of the finished sale sets the comprobante of a request it has
  cancelled, and keeps that of the sale before (`PostSaleModal.tsx:66-96`).
- The seed of the local catalogue clears and refills in two transactions, stamps
  `lastSync` with the time after the answer, and overwrites the deductions of
  sales not sent yet (`catalog.ts:34`).

In the session of the user and of the till:

- A refresh that is on its way when the user logs out leaves tokens of nobody; one
  that fails late clears the tokens of the next login; a `restaurar` that succeeds
  late brings back a user who left. The 401 path clears the tokens but not
  `isAuthenticated`.
- A reload during a refresh sends the single-use refresh token twice, a lost answer
  loses it, and a reload off line ends the session, although the till is meant to
  work off line. Requests sent before `initAuth` has ended go without a token;
  tokens that expire under the form that changes the password leave it stuck until
  the page is reloaded; a change of password that is accepted after another request
  threw the tokens away lets the user in without any (`client.ts:159`,
  `LoginPage.tsx:74-75`).
- `getCajaActiva` takes any failure for "no session", upon which the stored one is
  forgotten; a late `restaurar` brings back a session that was closed; a lost answer
  to the arqueo leaves the closing page with a session that is closed.
- The one `loading` flag of the store is lowered by whichever operation ends first,
  so an opening can be sent twice; the button of the arqueo has no flag; an old or
  missing report makes the digital part that the page declares wrong, and so does the
  report of the session before, which stays in the form when another session is
  adopted meanwhile (`CierreCajaPage.tsx:37-48`, :83-86).

In the back office (each where its module says `Tropiezo` or `Inventa`, or where a
form is not in `Guardados`):

- No flag while it is sent: users, products and their stock, the two ways of
  switching a row on and off (twice is back again), the annulment of a sale.
- Lists answered out of order after a filter, a period or a search changed show
  those of the old one; a change applied locally under a filter leaves a row that
  no longer matches, and a list in flight overwrites it; a user deactivated stays
  among the active ones.
- CSV import: an empty file dropped while another is read leaves the preview of the
  other, which can be imported.
- Products: the edit form accepts stock, state and bar code and sends none of them;
  a bulk deletion goes on after the page is left; marked rows stay marked when
  they are filtered out; a row switched while a list is on its way may be switched
  again by its own answer (`GestionProductosPage.tsx:267`).
- Inventory: the adjusted stock is shown also when the backend refuses it.
- Price lists: the number of products of a list is not refreshed; going back while a
  detail is on its way opens it again.
- History: a change of period during an annulment leaves the table of the old
  period; closing one dialogue resets that of another sale.
- Purchases: the page's total has tax and the backend's has none, so that paying
  the net marks "pagada" what the page says still owes; the due date is optional in
  the form and required by the backend; a save that succeeds after "Cancelar"
  navigates back.
- Promotions: a group switched to a category still sends the products it had.

## What is not modelled

Wording, layout, logging and formats; in `Ventas` also amounts of money: a sale's
payments are one token in the till, a discount or payment check is "may be
refused". Paging, reports and listings, which change no state. Of the parts of the
table above, with the reason for each in `PROJECT.json` ("components"):

- *The local catalogue's seed and delta*, and with them a `Terminal` whose stock is
  refreshed under it: what the code does there is among the divergences, and no
  line of it says what stock the till should then show.
- *The inside of `Arqueo`*: `Ventas` and `Caja` answer it in one step. Manual
  movements and the kinds of deviation are left out of `Caja`.
- *The sidecar*: `Facturacion` has what its client can observe; its token cache and
  AFIP's numbering are another process's state.
- *The rate limiter*: a counter per window; its refusals are failures of a request
  in `OfflineSync` and `Peticiones`. *Other middleware*: no state of its own.
- *The price check and its cache*: read-only, stale by design for a fixed time.
- *Mass price change and the rows of a CSV*: the effect on a row is `Actualizar` of
  `Ventas`.
- *Signatures and expiry of tokens, roles of routes*: a token of `Sesion` is a
  number that is good or not.
- *Configuración fiscal, auditoría, e-mail, PDF and HTML, printing and reading
  screens*: they decide nothing that a modelled part depends on.
