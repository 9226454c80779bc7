---------------------------- MODULE OfflineSync ----------------------------
(***************************************************************************)
(* The offline queue of the till: offline/sync.ts over the IndexedDB       *)
(* tables sales and sync_queue (offline/db.ts), and the server's SyncBatch *)
(* (service/venta_service.go), one sale after the other.                   *)
(*                                                                         *)
(* trySyncQueue and recoverLostSales take no lock and are started by the   *)
(* sale itself, a timer, the service worker, the dashboard and the start   *)
(* of the page: several calls run at once, each on the copies of the queue *)
(* items it read before its awaits, which it later writes back whole.      *)
(*                                                                         *)
(* What the server does inside one registration is Ventas.tla; here it     *)
(* checks the till session and offline_id, and then inserts or refuses.    *)
(***************************************************************************)
EXTENDS Naturals, FiniteSets

CONSTANTS
    Ventas,         \* sales of the till; their order is that of db.sales
    Antiguas,       \* those an earlier version marked synced without a queue item
    Llamadas,       \* calls of trySyncQueue and recoverLostSales that may overlap
    Recuperan,      \* those that run recoverLostSales first: page start, dashboard
    Arranque,       \* the one main.tsx makes when the page starts
    TamLote,        \* SYNC_BATCH_SIZE
    MaxIntentos,    \* MAX_TRIES_BEFORE_ERROR
    MaxPercances    \* bound: failures of the network and reloads of the page

ASSUME OfflineConstantes ==
    /\ Ventas \subseteq Nat /\ IsFiniteSet(Ventas)
    /\ Antiguas \subseteq Ventas
    /\ Arranque \in Recuperan /\ Recuperan \subseteq Llamadas
    /\ TamLote \in Nat \ {0}
    /\ MaxIntentos \in Nat \ {0}
    /\ MaxPercances \in Nat

VARIABLES
    ventas,       \* db.sales: "no" made yet, or its synced flag, "sin" or "si"
    cola,         \* db.sync_queue: item by autoincremented id
    siguiente,    \* the next id
    enLinea,      \* navigator.onLine
    pc, lote,     \* per call: where it is, and the items it read
    resto,        \* per call: ids whose sales the server has not answered yet
    resultados,   \* per call: the answer so far
    perdidas,     \* per call: synced sales without an item, as it read them
    sesion,       \* server: is the till session of the sales open?
    registradas,  \* server: sales with a row
    fallos,       \* history: answers per sale that did not accept it, up to MaxIntentos
    percances     \* failures and reloads so far

local == <<ventas, cola, siguiente>>
llamada == <<pc, lote, resto, resultados, perdidas>>
servidor == <<sesion, registradas>>
vars == <<ventas, cola, siguiente, enLinea, pc, lote, resto, resultados,
          perdidas, sesion, registradas, fallos, percances>>

\* A queue item.  nextAttemptAt is left out: it only says that the next attempt
\* comes later, and here it may come at any later time.
Item == [venta : Ventas, status : {"pending", "error"}, tries : Nat]

\* Faulty variant: an item that waits has the third status of db.ts.
NuevoSincronizado(v) == [venta |-> v, status |-> "synced", tries |-> 0]

Nuevo(v) == [venta |-> v, status |-> "pending", tries |-> 0]

Estados == {"arrancar", "libre", "purgar", "releer", "reencolar", "sincronizar",
            "servidor", "insertar"}

Init ==
    /\ ventas = [v \in Ventas |-> IF v \in Antiguas THEN "si" ELSE "no"]
    /\ cola = <<>>
    /\ siguiente = 1
    /\ enLinea \in BOOLEAN
    /\ pc = [c \in Llamadas |-> IF c = Arranque THEN "arrancar" ELSE "libre"]
    /\ lote = [c \in Llamadas |-> <<>>]
    /\ resto = [c \in Llamadas |-> {}]
    /\ resultados = [c \in Llamadas |-> {}]
    /\ perdidas = [c \in Llamadas |-> {}]
    /\ sesion = TRUE
    /\ registradas = {}
    /\ fallos = [v \in Ventas |-> 0]
    /\ percances = 0

IrA(c, lugar) == pc' = [pc EXCEPT ![c] = lugar]

\* The locals of c die with the call.
Terminar(c) ==
    /\ IrA(c, "libre")
    /\ lote' = [lote EXCEPT ![c] = <<>>]
    /\ resto' = [resto EXCEPT ![c] = {}]
    /\ resultados' = [resultados EXCEPT ![c] = {}]

-----------------------------------------------------------------------------
(* The sale. *)

\* enqueueSale: the sale and its queue item in one IndexedDB transaction.
Vender(v) ==
    /\ ventas[v] = "no" /\ sesion
    /\ ventas' = [ventas EXCEPT ![v] = "sin"]
    /\ cola' = [i \in DOMAIN cola \cup {siguiente} |->
                   IF i = siguiente THEN Nuevo(v) ELSE cola[i]]
    /\ siguiente' = siguiente + 1
    /\ UNCHANGED <<enLinea, llamada, servidor, fallos, percances>>

-----------------------------------------------------------------------------
(* trySyncQueue. *)

Pendientes == {i \in DOMAIN cola : cola[i].status = "pending"}

\* The oldest TamLote of the pending items that are due: which are due is open.
Lotes == {l \in SUBSET Pendientes : l # {} /\ Cardinality(l) <= TamLote}

\* The Map from sale to item keeps the last item of a sale.
Elegidos(l) ==
    {i \in DOMAIN l : \A j \in DOMAIN l : l[j].venta = l[i].venta => j <= i}

\* The batch is read and posted.
Enviar(c) ==
    /\ pc[c] \in {"libre", "sincronizar"} /\ enLinea
    /\ \E ids \in Lotes :
           LET l == [i \in ids |-> cola[i]] IN
           /\ lote' = [lote EXCEPT ![c] = l]
           /\ resto' = [resto EXCEPT ![c] = Elegidos(l)]
    /\ resultados' = [resultados EXCEPT ![c] = {}]
    /\ IrA(c, "servidor")
    /\ UNCHANGED <<local, enLinea, perdidas, servidor, fallos, percances>>

\* No network, or nothing is due.
NadaQueEnviar(c) ==
    /\ pc[c] = "sincronizar"
    /\ IrA(c, "libre")
    /\ UNCHANGED <<local, enLinea, lote, resto, resultados, perdidas, servidor,
                   fallos, percances>>

Fallida(q) ==
    [q EXCEPT !.tries = @ + 1,
              !.status = IF q.tries + 1 >= MaxIntentos THEN "error" ELSE "pending"]

\* Faulty variant: without a network the attempt is counted all the same.
AplazadaContando(q) == Fallida(q)

\* Without a network no attempt is counted.
Aplazada(q) == q

Contar(ids, l) ==
    fallos' = [v \in Ventas |->
                  IF fallos[v] < MaxIntentos /\ \E i \in ids : l[i].venta = v
                  THEN fallos[v] + 1 ELSE fallos[v]]

\* Faulty variant: the 200 of the batch accepts all of its sales.
AceptadaSiempre(c, v) == \E r \in resultados[c] : r.venta = v

\* Results are matched by the offline_id they echo.
Aceptada(c, v) ==
    \E r \in resultados[c] : r.eco /\ r.venta = v /\ r.estado = "completada"

\* The answer accepts the sale, whether or not it says which sale that is.
Admitida(c, v) == \E r \in resultados[c] : r.venta = v /\ r.estado = "completada"

\* The answer: accepted items are deleted, the others are written back.  An
\* acceptance without the offline_id is taken for a failure; fallos knows better.
Responder(c) ==
    LET l == lote[c]
        ok == {i \in Elegidos(l) : Aceptada(c, l[i].venta)}
        mal == Elegidos(l) \ ok
    IN
    /\ pc[c] = "servidor" /\ resto[c] = {} /\ enLinea
    /\ ventas' = [v \in Ventas |-> IF \E i \in ok : l[i].venta = v THEN "si" ELSE ventas[v]]
    /\ cola' = [i \in (DOMAIN cola \ ok) \cup mal |->
                   IF i \in mal THEN Fallida(l[i]) ELSE cola[i]]
    /\ Contar({i \in mal : ~Admitida(c, l[i].venta)}, l)
    /\ Terminar(c)
    /\ UNCHANGED <<siguiente, enLinea, perdidas, servidor, percances>>

\* An HTTP error (no session, rate limit, gateway), whatever the server did.
ErrorHttp(c) ==
    LET l == lote[c] IN
    /\ pc[c] \in {"servidor", "insertar"} /\ enLinea
    /\ cola' = [i \in DOMAIN cola \cup DOMAIN l |->
                   IF i \in DOMAIN l THEN Fallida(l[i]) ELSE cola[i]]
    /\ Contar(DOMAIN l, l)
    /\ Terminar(c)
    /\ UNCHANGED <<ventas, siguiente, enLinea, perdidas, servidor, percances>>

\* The network fails: before the request arrives, while it is processed (its
\* context is cancelled) or before the answer arrives.
Caer(c) ==
    LET l == lote[c] IN
    /\ pc[c] \in {"servidor", "insertar"}
    /\ enLinea => percances < MaxPercances
    /\ percances' = IF enLinea THEN percances + 1 ELSE percances
    /\ cola' = [i \in DOMAIN cola \cup DOMAIN l |->
                   IF i \in DOMAIN l THEN Aplazada(l[i]) ELSE cola[i]]
    /\ Terminar(c)
    /\ UNCHANGED <<ventas, siguiente, enLinea, perdidas, servidor, fallos>>

-----------------------------------------------------------------------------
(* SyncBatch on the server. *)

Primero(c) == CHOOSE i \in resto[c] : \A j \in resto[c] : i <= j

\* ventaToResponse leaves OfflineID out; only the error result carries it.
Resultado(v, estado) == [venta |-> v, estado |-> estado, eco |-> estado = "error"]

Contestar(c, estado) ==
    /\ resultados' = [resultados EXCEPT ![c] = @ \cup {Resultado(lote[c][Primero(c)].venta, estado)}]
    /\ resto' = [resto EXCEPT ![c] = @ \ {Primero(c)}]

\* First the till session, then offline_id.
Comprobar(c) ==
    LET v == lote[c][Primero(c)].venta IN
    /\ pc[c] = "servidor" /\ resto[c] # {}
    /\ IF sesion /\ v \notin registradas
       THEN IrA(c, "insertar") /\ UNCHANGED <<resto, resultados>>
       ELSE Contestar(c, IF sesion THEN "completada" ELSE "error") /\ UNCHANGED pc
    /\ UNCHANGED <<local, enLinea, lote, perdidas, servidor, fallos, percances>>

\* The transaction commits, or not: the unique index, an inactive product, a
\* price that has risen above the payment.
Insertar(c) ==
    LET v == lote[c][Primero(c)].venta IN
    /\ pc[c] = "insertar"
    /\ \/ /\ v \notin registradas
          /\ registradas' = registradas \cup {v}
          /\ Contestar(c, "completada")
       \/ /\ Contestar(c, "error")
          /\ UNCHANGED registradas
    /\ IrA(c, "servidor")
    /\ UNCHANGED <<local, enLinea, lote, perdidas, sesion, fallos, percances>>

\* Arqueo closes the session.
CerrarSesion ==
    /\ sesion
    /\ sesion' = FALSE
    /\ UNCHANGED <<local, enLinea, llamada, registradas, fallos, percances>>

-----------------------------------------------------------------------------
(* recoverLostSales, which is always followed by trySyncQueue. *)

LeerErrores(c) ==
    /\ c \in Recuperan /\ pc[c] \in {"libre", "arrancar"}
    /\ lote' = [lote EXCEPT ![c] =
                   [i \in {j \in DOMAIN cola : cola[j].status = "error"} |-> cola[i]]]
    /\ IrA(c, "purgar")
    /\ UNCHANGED <<local, enLinea, resto, resultados, perdidas, servidor, fallos, percances>>

\* Items with attempts left start again; the others are deleted.
Purgar(c) ==
    LET l == lote[c]
        reinicia == {i \in DOMAIN l : l[i].tries < MaxIntentos}
        purga == DOMAIN l \ reinicia
    IN
    /\ pc[c] = "purgar"
    /\ cola' = [i \in (DOMAIN cola \ purga) \cup reinicia |->
                   IF i \in reinicia THEN Nuevo(l[i].venta) ELSE cola[i]]
    /\ lote' = [lote EXCEPT ![c] = <<>>]
    /\ IrA(c, "releer")
    /\ UNCHANGED <<ventas, siguiente, enLinea, resto, resultados, perdidas,
                   servidor, fallos, percances>>

EnCola(v) == \E i \in DOMAIN cola : cola[i].venta = v

\* Sales marked synced without a queue item, read before the transaction.
Releer(c) ==
    /\ pc[c] = "releer"
    /\ perdidas' = [perdidas EXCEPT ![c] =
                       {v \in Ventas : ventas[v] = "si" /\ ~EnCola(v)}]
    /\ IrA(c, "reencolar")
    /\ UNCHANGED <<local, enLinea, lote, resto, resultados, servidor, fallos, percances>>

\* Faulty variant: the sales are reset and nothing is queued.
ReencolarSinItem(c) ==
    /\ pc[c] = "reencolar"
    /\ ventas' = [v \in Ventas |-> IF v \in perdidas[c] THEN "sin" ELSE ventas[v]]
    /\ perdidas' = [perdidas EXCEPT ![c] = {}]
    /\ IrA(c, "sincronizar")
    /\ UNCHANGED <<cola, siguiente, enLinea, lote, resto, resultados, servidor, fallos, percances>>

\* The key db.sync_queue gives to the item of v, after those of the earlier sales.
Id(lista, v) == siguiente + Cardinality({u \in lista : u < v})

Reencolar(c) ==
    LET lista == perdidas[c] IN
    /\ pc[c] = "reencolar"
    /\ ventas' = [v \in Ventas |-> IF v \in lista THEN "sin" ELSE ventas[v]]
    /\ cola' = [i \in DOMAIN cola \cup {Id(lista, v) : v \in lista} |->
                   IF i \in DOMAIN cola THEN cola[i]
                   ELSE Nuevo(CHOOSE v \in lista : Id(lista, v) = i)]
    /\ siguiente' = siguiente + Cardinality(lista)
    /\ perdidas' = [perdidas EXCEPT ![c] = {}]
    /\ IrA(c, "sincronizar")
    /\ UNCHANGED <<enLinea, lote, resto, resultados, servidor, fallos, percances>>

-----------------------------------------------------------------------------
(* The browser. *)

Desconectar ==
    /\ enLinea /\ percances < MaxPercances
    /\ enLinea' = FALSE /\ percances' = percances + 1
    /\ UNCHANGED <<local, llamada, servidor, fallos>>

Reconectar ==
    /\ ~enLinea
    /\ enLinea' = TRUE
    /\ UNCHANGED <<local, llamada, servidor, fallos, percances>>

\* Calls die with the page; IndexedDB stays.
Recargar ==
    /\ percances < MaxPercances
    /\ percances' = percances + 1
    /\ pc' = [c \in Llamadas |-> IF c = Arranque THEN "arrancar" ELSE "libre"]
    /\ lote' = [c \in Llamadas |-> <<>>]
    /\ resto' = [c \in Llamadas |-> {}]
    /\ resultados' = [c \in Llamadas |-> {}]
    /\ perdidas' = [c \in Llamadas |-> {}]
    /\ UNCHANGED <<local, enLinea, servidor, fallos>>

-----------------------------------------------------------------------------

Sigue(c) ==
    \/ Enviar(c) \/ NadaQueEnviar(c) \/ Responder(c) \/ ErrorHttp(c) \/ Caer(c)
    \/ Comprobar(c) \/ Insertar(c)
    \/ Purgar(c) \/ Releer(c) \/ Reencolar(c)

Next ==
    \/ \E v \in Ventas : Vender(v)
    \/ \E c \in Llamadas : Sigue(c) \/ LeerErrores(c)
    \/ CerrarSesion \/ Desconectar \/ Reconectar \/ Recargar

Spec == Init /\ [][Next]_vars

\* The timer keeps calling trySyncQueue, a call that started goes on, the page
\* that starts recovers, and the network comes back.  An item becomes due at
\* most five minutes after its last attempt, so a call finds it in the end.
Fairness ==
    /\ \A c \in Llamadas :
           /\ WF_vars(Sigue(c)) /\ SF_vars(Enviar(c))
           /\ WF_vars(pc[c] = "arrancar" /\ LeerErrores(c))
    /\ WF_vars(Reconectar)

FairSpec == Spec /\ Fairness

-----------------------------------------------------------------------------

EsCola(f) == DOMAIN f \subseteq 1..(siguiente - 1) /\ \A i \in DOMAIN f : f[i] \in Item

TypeOK ==
    /\ ventas \in [Ventas -> {"no", "sin", "si"}]
    /\ siguiente \in Nat \ {0}
    /\ EsCola(cola)
    /\ enLinea \in BOOLEAN
    /\ pc \in [Llamadas -> Estados]
    /\ DOMAIN lote = Llamadas /\ \A c \in Llamadas : EsCola(lote[c])
    /\ resto \in [Llamadas -> SUBSET (1..(siguiente - 1))]
    /\ resultados \in [Llamadas -> SUBSET [venta : Ventas, estado : {"completada", "error"},
                                            eco : BOOLEAN]]
    /\ perdidas \in [Llamadas -> SUBSET Ventas]
    /\ sesion \in BOOLEAN
    /\ registradas \subseteq Ventas
    /\ fallos \in [Ventas -> 0..MaxIntentos]
    /\ percances \in 0..MaxPercances

\* A sale the till still counts as unsynchronised is on the server or in the
\* queue, unless an answer refused it MaxIntentos times (sync.ts:162, :228).
SoloSePierdeTrasRechazos ==
    \A v \in Ventas :
        ventas[v] = "sin" => v \in registradas \/ EnCola(v) \/ fallos[v] = MaxIntentos

\* Whichever stale copies overlapping calls write back, an item has no more tries
\* than answers that did not accept its sale: none is given up for want of a
\* network (sync.ts:172).  Only a sale the server already has can have more, since
\* its acceptance comes without the offline_id by which the till finds it
\* (sync.ts:110, :125, venta_service.go:570).
IntentosJustificados ==
    \A i \in DOMAIN cola :
        cola[i].tries <= fallos[cola[i].venta] \/ cola[i].venta \in registradas

\* While its session is open, every sale that is made reaches the server or is
\* refused MaxIntentos times, also those that an earlier version lost.
TodaVentaLlega ==
    \A v \in Ventas :
        ventas[v] # "no" ~> v \in registradas \/ ~sesion \/ fallos[v] = MaxIntentos

-----------------------------------------------------------------------------
(* What the till promises. *)

E == INSTANCE Entrega WITH
         hechas <- {v \in Ventas : ventas[v] # "no"},
         pendientes <- {v \in Ventas : EnCola(v)},
         entregadas <- registradas,
         rechazos <- fallos

\* The queue, its stale copies and its overlapping calls implement store and
\* forward: whatever a step writes back, only sales that were made are sent and
\* recorded, each once, and the queue drops none the server has neither recorded
\* nor refused MaxIntentos times (sync.ts:123, :139, :228, venta_service.go:449).
EntregaSpec == E!Spec

-----------------------------------------------------------------------------
(* What the comments say. *)

\* No sale made at the till is ever lost: what ran out of attempts gets another
\* chance (sync.ts:214), and the server never rejects it (venta_service.go:444).
NadaSePierde == \A v \in Ventas : ventas[v] = "sin" => v \in registradas \/ EnCola(v)
=============================================================================
