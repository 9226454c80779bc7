------------------------------- MODULE Ventas -------------------------------
(***************************************************************************)
(* Concurrent HTTP requests on sales and stock                             *)
(* (backend/internal/service/venta_service.go, inventario_service.go,      *)
(* producto_service.go and their repositories): registering a sale on line *)
(* or from the offline queue, voiding it, adjusting stock, editing or      *)
(* deactivating a product, and splitting a parent product by hand.         *)
(*                                                                         *)
(* Each request runs one operation as a process.  PostgreSQL is external   *)
(* and runs at READ COMMITTED: a statement sees the committed rows and its *)
(* own transaction's writes, an UPDATE or a SELECT ... FOR UPDATE holds    *)
(* the row until the transaction ends, a transaction that would insert a   *)
(* key another open transaction has inserted waits for it, and a cycle of  *)
(* waits is broken by aborting one of its members.                         *)
(***************************************************************************)
EXTENDS Integers, Sequences, FiniteSets, Functions

CONSTANTS
    Productos,
    Peticiones,     \* the requests
    Cargas,         \* the workloads: for each request, the operation it asks for
    OfflineIds,
    Vinculo,        \* child product -> its parent, units per parent, desarme_auto
    StockInicial,
    Nada

Operaciones ==
    LET Linea == [p : Productos, n : Nat \ {0}]
    IN  [tipo : {"venta"}, items : Seq(Linea) \ {<<>>}, sync : BOOLEAN,
             offlineId : OfflineIds \cup {Nada}]
        \cup [tipo : {"anular"}, venta : Peticiones]
        \cup [tipo : {"ajuste"}, p : Productos, delta : Int]
        \cup [tipo : {"editar", "desactivar", "reactivar"}, p : Productos]
        \cup [tipo : {"desarme"}, hijo : DOMAIN Vinculo, padres : Nat \ {0}]
        \cup [tipo : {"cerrar", "ninguna"}]

ASSUME CargasValidas ==
    \A carga \in Cargas :
        /\ carga \in [Peticiones -> Operaciones]
        /\ \A r \in Peticiones : carga[r].tipo = "anular" =>
               carga[carga[r].venta].tipo = "venta"

\* CrearVinculo refuses a product that is its own parent.
ASSUME VinculosValidos ==
    /\ DOMAIN Vinculo \subseteq Productos
    /\ \A h \in DOMAIN Vinculo :
           /\ Vinculo[h] \in [padre : Productos, upp : Nat \ {0}, auto : BOOLEAN]
           /\ Vinculo[h].padre # h

ASSUME StockInicialValido ==
    /\ StockInicial \in [Productos -> Int]
    /\ Nada \notin Peticiones \cup OfflineIds
    /\ Nada \notin {"completada", "anulada"}

VARIABLES
    operacion,   \* the workload of this behaviour; it never changes
    stock,       \* productos.stock_actual, committed
    activo,      \* productos.activo
    sesion,      \* sesion_caja.estado of the session the sales name
    ventas,      \* per sale request: the estado of its committed row, or Nada
    caja,        \* per sale request: net number of times its payments are in the till
    movs,        \* committed movimientos_stock, each with the stock it really met
    facturacion, \* per sale request: what was dispatched for invoicing
    candado,     \* per product row: the transaction that holds it
    delta,       \* per request: uncommitted stock changes
    movsTx,      \* per request: uncommitted movimientos_stock
    pc, linea,   \* per request: where it is, and at which item
    leido,       \* per request: the last product row it read
    padres,      \* per request: parents to split for the current item
    conflicto    \* per request: venta.ConflictoStock

base == <<stock, activo, sesion, ventas, caja, movs, facturacion>>
tx == <<candado, delta, movsTx>>
local == <<pc, linea, leido, padres, conflicto>>
vars == <<operacion, stock, activo, sesion, ventas, caja, movs, facturacion,
          candado, delta, movsTx, pc, linea, leido, padres, conflicto>>

Tipo(r) == operacion[r].tipo
EsVenta(r) == Tipo(r) = "venta"
EnLinea(r) == EsVenta(r) /\ ~operacion[r].sync

\* The lines a request works through.  A void works on those of the sale it
\* voids; a manual split is one line that takes no units of the child.
Items(r) ==
    IF EsVenta(r) THEN operacion[r].items
    ELSE IF Tipo(r) = "anular" THEN operacion[operacion[r].venta].items
    ELSE <<[p |-> operacion[r].hijo, n |-> 0]>>

Prod(r) == Items(r)[linea[r]].p
Cant(r) == Items(r)[linea[r]].n
UltimaLinea(r) == linea[r] = Len(Items(r))

EnTx(r) ==
    pc[r] \in {"bloqueo", "insertar", "leer", "decidir", "padre", "hijo",
               "restaurar", "confirmar"}

Final == {"ok", "existente", "rechazada", "error"}

\* What a statement of r reads, and whether it may write the row.
Visible(r, p) == stock[p] + delta[r][p]
Libre(r, p) == candado[p] \in {Nada, r}

MismaClave(r, q) ==
    /\ EsVenta(r) /\ EsVenta(q) /\ r # q
    /\ operacion[r].offlineId # Nada
    /\ operacion[r].offlineId = operacion[q].offlineId

\* The sale row of q is inserted and its transaction is still open.
Insertada(q) == EsVenta(q) /\ pc[q] \in {"leer", "decidir", "padre", "hijo", "confirmar"}

IrA(r, estado) == pc' = [pc EXCEPT ![r] = estado]
Linea(r, i) == linea' = [linea EXCEPT ![r] = i]

\* Faulty variant: a rolled back transaction keeps its row locks.
SoltarSinLiberar(r) ==
    /\ delta' = [delta EXCEPT ![r] = [p \in Productos |-> 0]]
    /\ movsTx' = [movsTx EXCEPT ![r] = {}]
    /\ UNCHANGED candado

\* End of a transaction: its row locks and private writes are gone.
Soltar(r) ==
    /\ candado' = [p \in Productos |-> IF candado[p] = r THEN Nada ELSE candado[p]]
    /\ delta' = [delta EXCEPT ![r] = [p \in Productos |-> 0]]
    /\ movsTx' = [movsTx EXCEPT ![r] = {}]

-----------------------------------------------------------------------------

Init ==
    /\ operacion \in Cargas
    /\ stock = StockInicial
    /\ activo = [p \in Productos |-> TRUE]
    /\ sesion = "abierta"
    /\ ventas = [r \in Peticiones |-> Nada]
    /\ caja = [r \in Peticiones |-> 0]
    /\ movs = {}
    /\ facturacion = [r \in Peticiones |-> Nada]
    /\ candado = [p \in Productos |-> Nada]
    /\ delta = [r \in Peticiones |-> [p \in Productos |-> 0]]
    /\ movsTx = [r \in Peticiones |-> {}]
    /\ pc = [r \in Peticiones |-> IF Tipo(r) = "ninguna" THEN "ok" ELSE "inicio"]
    /\ linea = [r \in Peticiones |-> 1]
    /\ leido = [r \in Peticiones |-> [stock |-> 0, activo |-> TRUE]]
    /\ padres = [r \in Peticiones |-> 0]
    /\ conflicto = [r \in Peticiones |-> FALSE]

-----------------------------------------------------------------------------
(* Registering a sale: checks outside the transaction. *)

\* Session open? offline_id already registered?
Iniciar(r) ==
    /\ pc[r] = "inicio" /\ EsVenta(r)
    /\ IF sesion = "cerrada" THEN IrA(r, "rechazada")
       ELSE IF \E q \in Peticiones : MismaClave(r, q) /\ ventas[q] # Nada
            THEN IrA(r, "existente")
       ELSE IrA(r, "validar")
    /\ UNCHANGED <<base, tx, linea, leido, padres, conflicto>>

\* Ceiling division: parents that cover a deficit.
PadresPara(deficit, upp) == (deficit + upp - 1) \div upp

\* Preflight of the deficit of an on-line sale: could auto-desarme supply it?
PuedeDesarmar(p, n) ==
    /\ p \in DOMAIN Vinculo /\ Vinculo[p].auto
    /\ stock[Vinculo[p].padre] >= PadresPara(n - stock[p], Vinculo[p].upp)

LineaVendible(r) ==
    /\ activo[Prod(r)]
    /\ stock[Prod(r)] < Cant(r) /\ EnLinea(r) => PuedeDesarmar(Prod(r), Cant(r))

ValidarLinea(r) ==
    /\ pc[r] = "validar" /\ LineaVendible(r)
    /\ conflicto' = [conflicto EXCEPT ![r] = @ \/ stock[Prod(r)] < Cant(r)]
    /\ IF ~UltimaLinea(r)
       THEN Linea(r, linea[r] + 1) /\ UNCHANGED pc
       ELSE Linea(r, 1) /\ IrA(r, IF EnLinea(r) THEN "bloqueo" ELSE "insertar")
    /\ UNCHANGED <<base, tx, leido, padres>>

\* A product that is inactive or short of stock; or, at any line, a discount
\* above the cap or payments short of the total.
RechazarSolicitud(r) ==
    /\ pc[r] = "validar"
    /\ IrA(r, "rechazada")
    /\ UNCHANGED <<base, tx, linea, leido, padres, conflicto>>

-----------------------------------------------------------------------------
(* Registering a sale: the transaction. *)

\* Faulty variant: a plain SELECT, which checks without holding the row.
BloquearLineaSinCandado(r) ==
    /\ pc[r] = "bloqueo"
    /\ IF Visible(r, Prod(r)) < Cant(r)
       THEN Soltar(r) /\ IrA(r, "rechazada") /\ UNCHANGED linea
       ELSE /\ IF ~UltimaLinea(r)
               THEN Linea(r, linea[r] + 1) /\ UNCHANGED pc
               ELSE Linea(r, 1) /\ IrA(r, "insertar")
            /\ UNCHANGED tx
    /\ UNCHANGED <<base, leido, padres, conflicto>>

\* SELECT stock_actual ... FOR UPDATE on each line of an on-line sale.
BloquearLinea(r) ==
    /\ pc[r] = "bloqueo" /\ Libre(r, Prod(r))
    /\ IF Visible(r, Prod(r)) < Cant(r)
       THEN Soltar(r) /\ IrA(r, "rechazada") /\ UNCHANGED linea
       ELSE /\ candado' = [candado EXCEPT ![Prod(r)] = r]
            /\ IF ~UltimaLinea(r)
               THEN Linea(r, linea[r] + 1) /\ UNCHANGED pc
               ELSE Linea(r, 1) /\ IrA(r, "insertar")
            /\ UNCHANGED <<delta, movsTx>>
    /\ UNCHANGED <<base, leido, padres, conflicto>>

\* Faulty variant: offline_id without a unique index.
InsertarSinIndice(r) ==
    /\ pc[r] = "insertar"
    /\ IrA(r, "leer")
    /\ UNCHANGED <<base, tx, linea, leido, padres, conflicto>>

\* INSERT of the sale; ventas.offline_id is UNIQUE.
Insertar(r) ==
    /\ pc[r] = "insertar"
    /\ ~\E q \in Peticiones : MismaClave(r, q) /\ Insertada(q)
    /\ IF \E q \in Peticiones : MismaClave(r, q) /\ ventas[q] # Nada
       THEN Soltar(r) /\ IrA(r, "error")
       ELSE IrA(r, "leer") /\ UNCHANGED tx
    /\ UNCHANGED <<base, linea, leido, padres, conflicto>>

\* stockAntes, for the movement; then DescontarStockTx reads again and
\* decides how many parents to split.
Leer(r) ==
    /\ pc[r] = "leer"
    /\ leido' = [leido EXCEPT ![r] = [stock |-> Visible(r, Prod(r)), activo |-> activo[Prod(r)]]]
    /\ IrA(r, "decidir")
    /\ UNCHANGED <<base, tx, linea, padres, conflicto>>

\* Faulty variant: the deficit is used without testing that there is one.
PadresSinComparar(r) ==
    IF Prod(r) \in DOMAIN Vinculo
    THEN PadresPara(Cant(r) - Visible(r, Prod(r)), Vinculo[Prod(r)].upp) - 1
    ELSE 0

PadresADesarmar(r) ==
    LET p == Prod(r)
        v == Vinculo[p]
        necesarios == PadresPara(Cant(r) - Visible(r, p), v.upp)
    IN  IF /\ Visible(r, p) < Cant(r)
           /\ p \in DOMAIN Vinculo /\ v.auto
           /\ Visible(r, v.padre) >= necesarios
        THEN necesarios ELSE 0

Decidir(r) ==
    /\ pc[r] = "decidir"
    /\ padres' = [padres EXCEPT ![r] = PadresADesarmar(r)]
    /\ IrA(r, IF PadresADesarmar(r) > 0 THEN "padre" ELSE "hijo")
    /\ UNCHANGED <<base, tx, linea, leido, conflicto>>

\* UPDATE of the parent row.
DesarmarPadre(r) ==
    LET p == Vinculo[Prod(r)].padre IN
    /\ pc[r] = "padre" /\ Libre(r, p)
    /\ candado' = [candado EXCEPT ![p] = r]
    /\ delta' = [delta EXCEPT ![r][p] = @ - padres[r]]
    /\ IrA(r, "hijo")
    /\ UNCHANGED <<base, movsTx, linea, leido, padres, conflicto>>

\* Faulty variant: a parent counts as one unit of the child.
UnidadesSinMultiplicar(r) == padres[r]

UnidadesGeneradas(r) ==
    IF padres[r] > 0 THEN padres[r] * Vinculo[Prod(r)].upp ELSE 0

\* A stock movement: the row it writes claims stock went from "antes" to
\* antes + cantidad; "tras" is where the stock really went.
Movimiento(r, tipo, cantidad, antes, tras) ==
    [ref |-> r, linea |-> linea[r], tipo |-> tipo, p |-> Prod(r),
     cantidad |-> cantidad, antes |-> antes, tras |-> tras]

\* UPDATE of the child row (units generated, then units sold) and, for a
\* sale, the movement of the line.
DescontarHijo(r) ==
    LET p == Prod(r)
        cambio == UnidadesGeneradas(r) - Cant(r)
    IN
    /\ pc[r] = "hijo" /\ Libre(r, p)
    /\ candado' = [candado EXCEPT ![p] = r]
    /\ delta' = [delta EXCEPT ![r][p] = @ + cambio]
    /\ movsTx' = IF EsVenta(r)
                 THEN [movsTx EXCEPT ![r] = @ \cup
                        {Movimiento(r, "venta", -Cant(r), leido[r].stock, Visible(r, p) + cambio)}]
                 ELSE movsTx
    /\ IF UltimaLinea(r) THEN IrA(r, "confirmar") /\ UNCHANGED linea
       ELSE IrA(r, "leer") /\ Linea(r, linea[r] + 1)
    /\ UNCHANGED <<base, leido, padres, conflicto>>

\* COMMIT makes the private writes visible and frees the rows.
Confirmar(r) ==
    /\ pc[r] = "confirmar"
    /\ stock' = [p \in Productos |-> stock[p] + delta[r][p]]
    /\ movs' = movs \cup movsTx[r]
    /\ Soltar(r)
    /\ UNCHANGED <<activo, sesion, facturacion, linea, leido, padres, conflicto>>

ConfirmarVenta(r) ==
    /\ EsVenta(r) /\ Confirmar(r)
    /\ ventas' = [ventas EXCEPT ![r] = "completada"]
    /\ caja' = [caja EXCEPT ![r] = @ + 1]
    /\ IrA(r, "despachar")

\* After the commit: the job goes to Redis; if that fails, a pending
\* comprobante is created, and if that fails too only a log line remains.
Despachar(r) ==
    /\ pc[r] = "despachar"
    /\ \E destino \in {"encolada", "pendiente", Nada} :
           facturacion' = [facturacion EXCEPT ![r] = destino]
    /\ IrA(r, "ok")
    /\ UNCHANGED <<stock, activo, sesion, ventas, caja, movs, tx,
                   linea, leido, padres, conflicto>>

-----------------------------------------------------------------------------
(* Voiding a sale. *)

\* The sale and its estado are read before the transaction begins.
LeerVenta(r) ==
    /\ pc[r] = "inicio" /\ Tipo(r) = "anular"
    /\ IrA(r, IF ventas[operacion[r].venta] = "completada" THEN "restaurar" ELSE "rechazada")
    /\ UNCHANGED <<base, tx, linea, leido, padres, conflicto>>

\* SELECT ... FOR UPDATE, UPDATE and movement of one line.
RestaurarLinea(r) ==
    LET p == Prod(r) IN
    /\ pc[r] = "restaurar" /\ Libre(r, p)
    /\ candado' = [candado EXCEPT ![p] = r]
    /\ delta' = [delta EXCEPT ![r][p] = @ + Cant(r)]
    /\ movsTx' = [movsTx EXCEPT ![r] = @ \cup
         {Movimiento(r, "restore_anulacion", Cant(r), Visible(r, p), Visible(r, p) + Cant(r))}]
    /\ IF UltimaLinea(r) THEN IrA(r, "confirmar") /\ UNCHANGED linea
       ELSE Linea(r, linea[r] + 1) /\ UNCHANGED pc
    /\ UNCHANGED <<base, leido, padres, conflicto>>

\* Faulty variant: the payments stay in the till.
ConfirmarAnulacionSinCaja(r) ==
    /\ Tipo(r) = "anular" /\ Confirmar(r)
    /\ ventas' = [ventas EXCEPT ![operacion[r].venta] = "anulada"]
    /\ IrA(r, "ok")
    /\ UNCHANGED caja

\* Inverse till movements, and estado = 'anulada' whatever it was.
ConfirmarAnulacion(r) ==
    LET v == operacion[r].venta IN
    /\ Tipo(r) = "anular" /\ Confirmar(r)
    /\ ventas' = [ventas EXCEPT ![v] = "anulada"]
    /\ caja' = [caja EXCEPT ![v] = @ - 1]
    /\ IrA(r, "ok")

-----------------------------------------------------------------------------
(* Stock and product operations. *)

\* DesarmeManual checks the parent's stock before its transaction.
LeerPadre(r) ==
    LET v == Vinculo[operacion[r].hijo] IN
    /\ pc[r] = "inicio" /\ Tipo(r) = "desarme"
    /\ padres' = [padres EXCEPT ![r] = operacion[r].padres]
    /\ IrA(r, IF stock[v.padre] < operacion[r].padres THEN "rechazada" ELSE "padre")
    /\ UNCHANGED <<base, tx, linea, leido, conflicto>>

ConfirmarDesarme(r) ==
    /\ Tipo(r) = "desarme" /\ Confirmar(r)
    /\ IrA(r, "ok")
    /\ UNCHANGED <<ventas, caja>>

\* AjustarStock and Actualizar read the row first.
LeerProducto(r) ==
    LET p == operacion[r].p IN
    /\ pc[r] = "inicio" /\ Tipo(r) \in {"ajuste", "editar"}
    /\ leido' = [leido EXCEPT ![r] = [stock |-> stock[p], activo |-> activo[p]]]
    /\ IrA(r, IF Tipo(r) = "ajuste" /\ (~activo[p] \/ stock[p] + operacion[r].delta < 0)
              THEN "rechazada" ELSE "aplicar")
    /\ UNCHANGED <<base, tx, linea, padres, conflicto>>

\* UPDATE ... SET stock_actual = stock_actual + delta WHERE activo, and a
\* movement whose loss is tolerated.
AplicarAjuste(r) ==
    LET p == operacion[r].p
        d == operacion[r].delta
        mov == [ref |-> r, linea |-> 1, tipo |-> "ajuste_manual", p |-> p,
                cantidad |-> d, antes |-> leido[r].stock, tras |-> stock[p] + d]
    IN
    /\ pc[r] = "aplicar" /\ Tipo(r) = "ajuste" /\ Libre(r, p)
    /\ IF activo[p]
       THEN /\ stock' = [stock EXCEPT ![p] = @ + d]
            /\ movs' \in {movs, movs \cup {mov}}
            /\ IrA(r, "ok")
       ELSE IrA(r, "rechazada") /\ UNCHANGED <<stock, movs>>
    /\ UNCHANGED <<activo, sesion, ventas, caja, facturacion, tx,
                   linea, leido, padres, conflicto>>

\* Save writes every column of the row that was read.
GuardarProducto(r) ==
    LET p == operacion[r].p IN
    /\ pc[r] = "aplicar" /\ Tipo(r) = "editar" /\ Libre(r, p)
    /\ stock' = [stock EXCEPT ![p] = leido[r].stock]
    /\ activo' = [activo EXCEPT ![p] = leido[r].activo]
    /\ IrA(r, "ok")
    /\ UNCHANGED <<sesion, ventas, caja, movs, facturacion, tx,
                   linea, leido, padres, conflicto>>

\* SoftDelete and Reactivar.
CambiarActivo(r) ==
    LET p == operacion[r].p IN
    /\ pc[r] = "inicio" /\ Tipo(r) \in {"desactivar", "reactivar"} /\ Libre(r, p)
    /\ activo' = [activo EXCEPT ![p] = Tipo(r) = "reactivar"]
    /\ IrA(r, "ok")
    /\ UNCHANGED <<stock, sesion, ventas, caja, movs, facturacion, tx,
                   linea, leido, padres, conflicto>>

\* Arqueo closes the till session.
CerrarSesion(r) ==
    /\ pc[r] = "inicio" /\ Tipo(r) = "cerrar"
    /\ sesion' = "cerrada"
    /\ IrA(r, "ok")
    /\ UNCHANGED <<stock, activo, ventas, caja, movs, facturacion, tx,
                   linea, leido, padres, conflicto>>

-----------------------------------------------------------------------------
(* Failures. *)

\* A statement fails, the request times out or the server stops: rollback.
Abortar(r) ==
    /\ EnTx(r)
    /\ Soltar(r)
    /\ IrA(r, "error")
    /\ UNCHANGED <<base, linea, leido, padres, conflicto>>

\* The server stops between the commit and the dispatch of the job.
CaerTrasConfirmar(r) ==
    /\ pc[r] = "despachar"
    /\ IrA(r, "error")
    /\ UNCHANGED <<base, tx, linea, leido, padres, conflicto>>

\* r waits for q: for a row q holds, or for the fate of the key q inserted.
Espera(r, q) ==
    /\ r # q
    /\ \/ pc[r] \in {"bloqueo", "hijo", "restaurar"} /\ candado[Prod(r)] = q
       \/ pc[r] = "padre" /\ candado[Vinculo[Prod(r)].padre] = q
       \/ pc[r] = "insertar" /\ MismaClave(r, q) /\ Insertada(q)

\* A cycle of waits, which PostgreSQL breaks by aborting a member.
EnAbrazo(r) ==
    \E S \in SUBSET Peticiones :
        /\ r \in S
        /\ \A q \in S : \E t \in S : Espera(q, t)
        /\ \A q \in S : \E t \in S : Espera(t, q)

RomperAbrazo(r) == EnAbrazo(r) /\ Abortar(r) /\ UNCHANGED operacion

-----------------------------------------------------------------------------

Paso(r) ==
    /\ UNCHANGED operacion
    /\ \/ Iniciar(r) \/ ValidarLinea(r) \/ RechazarSolicitud(r)
       \/ BloquearLinea(r) \/ Insertar(r) \/ Leer(r) \/ Decidir(r)
       \/ DesarmarPadre(r) \/ DescontarHijo(r)
       \/ ConfirmarVenta(r) \/ Despachar(r)
       \/ LeerVenta(r) \/ RestaurarLinea(r) \/ ConfirmarAnulacion(r)
       \/ LeerPadre(r) \/ ConfirmarDesarme(r)
       \/ LeerProducto(r) \/ AplicarAjuste(r) \/ GuardarProducto(r)
       \/ CambiarActivo(r) \/ CerrarSesion(r)

Fallo(r) == (Abortar(r) \/ CaerTrasConfirmar(r)) /\ UNCHANGED operacion

Terminado ==
    /\ \A r \in Peticiones : pc[r] \in Final
    /\ UNCHANGED vars

Next == Terminado \/ \E r \in Peticiones : Paso(r) \/ Fallo(r)

Spec == Init /\ [][Next]_vars

\* Every handler that can take a step does, and the database breaks every
\* cycle of waits.
FairSpec ==
    /\ Spec
    /\ \A r \in Peticiones : WF_vars(Paso(r)) /\ WF_vars(RomperAbrazo(r))

-----------------------------------------------------------------------------

Mov == [ref : Peticiones, linea : Nat, p : Productos, cantidad : Int,
        antes : Int, tras : Int,
        tipo : {"venta", "restore_anulacion", "ajuste_manual"}]

TypeOK ==
    /\ operacion \in Cargas
    /\ stock \in [Productos -> Int]
    /\ activo \in [Productos -> BOOLEAN]
    /\ sesion \in {"abierta", "cerrada"}
    /\ ventas \in [Peticiones -> {Nada, "completada", "anulada"}]
    /\ caja \in [Peticiones -> Int]
    /\ movs \subseteq Mov
    /\ facturacion \in [Peticiones -> {Nada, "encolada", "pendiente"}]
    /\ candado \in [Productos -> Peticiones \cup {Nada}]
    /\ delta \in [Peticiones -> [Productos -> Int]]
    /\ movsTx \in [Peticiones -> SUBSET Mov]
    /\ pc \in [Peticiones -> Final \cup
             {"inicio", "validar", "bloqueo", "insertar", "leer", "decidir", "padre",
              "hijo", "restaurar", "confirmar", "despachar", "aplicar"}]
    /\ linea \in [Peticiones -> Nat]
    /\ leido \in [Peticiones -> [stock : Int, activo : BOOLEAN]]
    /\ padres \in [Peticiones -> Nat]
    /\ conflicto \in [Peticiones -> BOOLEAN]

\* Units of a product, counted in units of the child it splits into.
Peso(p) ==
    LET hijos == {h \in DOMAIN Vinculo : Vinculo[h].padre = p}
    IN  IF hijos = {} THEN 1 ELSE Vinculo[CHOOSE h \in hijos : TRUE].upp

\* No chains of links, and the children of a parent are worth the same: then
\* stock has a measure that a split does not change.
VinculosSimples ==
    \A h, k \in DOMAIN Vinculo :
        /\ Vinculo[h].padre # k
        /\ Vinculo[h].padre = Vinculo[k].padre => Vinculo[h].upp = Vinculo[k].upp

Unidades(existencias) == SumFunction([p \in Productos |-> Peso(p) * existencias[p]])

UnidadesVendidas(r) ==
    LET items == operacion[r].items
    IN  SumFunction([i \in DOMAIN items |-> Peso(items[i].p) * items[i].n])

UnidadesAjustadas(r) == Peso(operacion[r].p) * operacion[r].delta

EnPie == {r \in Peticiones : ventas[r] = "completada"}
Ajustados == {r \in Peticiones : Tipo(r) = "ajuste" /\ pc[r] = "ok"}

\* Actualizar writes back a stock it read earlier (GuardarProducto), and two
\* voids of one sale give its units back twice (AnulacionUnaVez below).
SinEdiciones == \A r \in Peticiones : Tipo(r) # "editar"

UnaAnulacionPorVenta ==
    \A r, q \in Peticiones :
        Tipo(r) = "anular" /\ Tipo(q) = "anular" /\ operacion[r].venta = operacion[q].venta
            => r = q

\* Unless a product is edited or a sale voided by two requests, stock is
\* conserved: counted in units, what is on the shelves is the initial stock,
\* minus every sale that stands, plus the adjustments made; splitting parents,
\* failing half way and voiding change nothing else, whatever the interleaving
\* (DescontarStockTx, AnularVenta, AjustarStock).
UnidadesConservadas ==
    SinEdiciones /\ UnaAnulacionPorVenta =>
        Unidades(stock) =
            Unidades(StockInicial)
            - SumFunction([r \in EnPie |-> UnidadesVendidas(r)])
            + SumFunction([r \in Ajustados |-> UnidadesAjustadas(r)])

\* The till holds the payments of exactly the sales that stand, unless the
\* same sale is voided by two requests (AnulacionUnaVez below).
CajaSigueAVentas ==
    UnaAnulacionPorVenta => \A r \in Peticiones : caja[r] = IF ventas[r] = "completada" THEN 1 ELSE 0

LineasDistintas(r) ==
    \A i, j \in DOMAIN Items(r) : Items(r)[i].p = Items(r)[j].p => i = j

\* An on-line sale with distinct products that commits leaves each of them at
\* zero or more, although its first look at the stock was outside the
\* transaction ("Re-validate stock INSIDE the transaction", venta_service.go).
EnLineaNuncaSobrevende ==
    [][\A r \in Peticiones : EnLinea(r) /\ LineasDistintas(r) /\ ConfirmarVenta(r) =>
           \A i \in DOMAIN Items(r) : stock'[Items(r)[i].p] >= 0]_vars

\* The movements of voids and of on-line sales with distinct products tell the
\* truth: they are written under the row lock, so the stock they claim to leave
\* is the stock their statement left.
MovimientosConCandadoExactos ==
    \A m \in movs :
        m.tipo = "restore_anulacion"
        \/ (m.tipo = "venta" /\ EnLinea(m.ref) /\ LineasDistintas(m.ref))
            => m.antes + m.cantidad = m.tras

\* However often and however concurrently an offline sale is sent, it is
\* registered at most once (offline_id: pre-check plus UNIQUE).
OfflineUnaVez ==
    \A r, q \in Peticiones :
        MismaClave(r, q) => ventas[r] = Nada \/ ventas[q] = Nada

\* Every request is answered: row locks taken in item order may meet in a
\* cycle, but the database breaks it and rollback frees the rows.
TodasTerminan == <>(\A r \in Peticiones : pc[r] \in Final)

-----------------------------------------------------------------------------
(* Statements of the source that the code does not keep. *)

\* venta_service.go: "la venta ya está anulada" is an error, so the payments
\* of a sale leave the till at most once.
AnulacionUnaVez == \A r \in Peticiones : caja[r] >= 0

\* Packs can be opened for an on-line sale that is short of loose units, so it
\* is refused under the lock only when they cannot cover the deficit either
\* ("check if auto-desarme can supply the deficit before rejecting",
\* venta_service.go:132, and TestRegistrarVenta_ConDesarme).
DesarmeEvitaRechazo ==
    [][\A r \in Peticiones :
           EnLinea(r) /\ pc[r] = "bloqueo" /\ pc'[r] = "rechazada" =>
               ~PuedeDesarmar(Prod(r), Cant(r))]_vars
=============================================================================
