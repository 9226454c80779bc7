-------------------------- MODULE FacturacionProofs --------------------------
(***************************************************************************)
(* Proofs about Facturacion, for any sales, workers and requests, any      *)
(* answers of AFIP, any limit of retries, repeated or lost jobs, database  *)
(* failures and shutdowns.  The first part is about the rows, their copies *)
(* and the queue; the second about who works on a sale, and whose turn it  *)
(* is, when no request interferes.                                         *)
(***************************************************************************)
EXTENDS Facturacion, TLAPS

Respuesta == [tipo : Respuestas, cae : 0..2]

-----------------------------------------------------------------------------
(* Rows. *)

\* A row that will be retried has attempts left.
Sana(f) == f.estado = "pendiente" => f.intentos < MaxReintentos

\* A row is issued exactly when it carries a CAE.
ConCae(f) == f.estado = "emitido" <=> f.cae # 0

LEMMA NuevaFila ==
    /\ Nueva \in Fila /\ Sana(Nueva) /\ ConCae(Nueva)
    /\ \A x \in {"nunca", "futuro", "vencido"} :
           LET f == [Nueva EXCEPT !.prox = x]
           IN  f \in Fila /\ Sana(f) /\ ConCae(f)
BY FacturacionConstantes DEF Nueva, Fila, Estados, Sana, ConCae

\* What a worker makes of its copy.
LEMMA FilaTrasTrabajador ==
    ASSUME NEW f \in Fila, NEW r \in Respuesta
    PROVE  LET g == TrasTrabajador(f, r) IN
           /\ g \in Fila
           /\ Sana(f) => Sana(g)
           /\ f.cae = 0 /\ f.estado # "emitido" /\ (r.tipo = "aprobada" => r.cae # 0) => ConCae(g)
<1> DEFINE g == TrasTrabajador(f, r)
<1>1. f.intentos \in Nat /\ f.cae \in 0..2 /\ f.estado \in Estados
      /\ f.prox \in {"nunca", "futuro", "vencido"} /\ r.cae \in 0..2 /\ MaxReintentos \in Nat \ {0}
  BY FacturacionConstantes DEF Fila, Respuesta
<1>2. CASE r.tipo = "aprobada"
  <2>1. g = [[[[f EXCEPT !.estado = "emitido"] EXCEPT !.cae = r.cae] EXCEPT !.prox = "nunca"]
               EXCEPT !.intentos = 0]
    BY <1>2 DEF TrasTrabajador, Aprobada, Fila
  <2>2. g = [estado |-> "emitido", cae |-> r.cae, intentos |-> 0, prox |-> "nunca"]
    BY <2>1 DEF Fila
  <2>3. QED
    BY <1>1, <1>2, <2>2 DEF Fila, Estados, Sana, ConCae
<1>3. CASE r.tipo = "rechazada"
  <2>1. g = [estado |-> "rechazado", cae |-> f.cae, intentos |-> f.intentos, prox |-> f.prox]
    BY <1>3 DEF TrasTrabajador, Fila
  <2>2. QED
    BY <1>1, <2>1 DEF Fila, Estados, Sana, ConCae
<1>4. CASE r.tipo \notin {"aprobada", "rechazada"}
  <2> DEFINE e == IF f.intentos + 1 >= MaxReintentos THEN "error" ELSE f.estado
  <2>1. g = [estado |-> e, cae |-> f.cae, intentos |-> f.intentos + 1, prox |-> "futuro"]
    BY <1>4 DEF TrasTrabajador, Fila
  <2>2. QED
    BY <1>1, <2>1 DEF Fila, Estados, Sana, ConCae
<1>5. QED
  BY <1>2, <1>3, <1>4

\* What the cron makes of its copy.
LEMMA FilaTrasCron ==
    ASSUME NEW f \in Fila, NEW r \in Respuesta
    PROVE  LET g == TrasCron(f, r) IN
           /\ g \in Fila
           /\ Sana(f) => Sana(g)
           /\ f.cae = 0 /\ f.estado # "emitido" /\ (r.tipo = "aprobada" => r.cae # 0) => ConCae(g)
<1> DEFINE g == TrasCron(f, r)
<1>1. f.intentos \in Nat /\ f.cae \in 0..2 /\ f.estado \in Estados
      /\ f.prox \in {"nunca", "futuro", "vencido"} /\ r.cae \in 0..2 /\ MaxReintentos \in Nat \ {0}
      /\ r.tipo \in Respuestas
  BY FacturacionConstantes DEF Fila, Respuesta
<1>2. CASE r.tipo = "aprobada"
  <2>1. g = [estado |-> "emitido", cae |-> r.cae, intentos |-> f.intentos, prox |-> "nunca"]
    BY <1>2 DEF TrasCron, Aprobada, Fila
  <2>2. QED
    BY <1>1, <1>2, <2>1 DEF Fila, Estados, Sana, ConCae
<1>3. CASE r.tipo = "rechazada"
  <2>1. g = [estado |-> "rechazado", cae |-> f.cae, intentos |-> f.intentos, prox |-> "nunca"]
    BY <1>3 DEF TrasCron, Fila
  <2>2. QED
    BY <1>1, <2>1 DEF Fila, Estados, Sana, ConCae
<1>4. CASE r.tipo = "invalida"
  <2>1. g = [estado |-> "error", cae |-> f.cae, intentos |-> f.intentos, prox |-> "nunca"]
    BY <1>4 DEF TrasCron, Fila
  <2>2. QED
    BY <1>1, <2>1 DEF Fila, Estados, Sana, ConCae
<1>5. CASE r.tipo \in {"perdida", "fallo"} /\ f.intentos + 1 >= MaxReintentos
  <2>1. g = [estado |-> "error", cae |-> f.cae, intentos |-> f.intentos + 1, prox |-> "nunca"]
    BY <1>5 DEF TrasCron, Agotada, Fila
  <2>2. QED
    BY <1>1, <2>1 DEF Fila, Estados, Sana, ConCae
<1>6. CASE r.tipo \in {"perdida", "fallo"} /\ ~(f.intentos + 1 >= MaxReintentos)
  <2>1. g = [estado |-> f.estado, cae |-> f.cae, intentos |-> f.intentos + 1, prox |-> "futuro"]
    BY <1>6 DEF TrasCron, Agotada, Fila
  <2>2. QED
    BY <1>1, <1>6, <2>1 DEF Fila, Estados, Sana, ConCae
<1>7. QED
  BY <1>1, <1>2, <1>3, <1>4, <1>5, <1>6 DEF Respuestas

\* What a request writes, if the CHECK on estado admits it.
LEMMA FilaPedida ==
    ASSUME NEW r \in Peticiones, copia[r] \in Fila
    PROVE  LET g == Pedida(r) IN
           /\ Guardable(g) => g \in Fila
           /\ Sana(copia[r]) /\ Guardable(g) => Sana(g)
           /\ ConCae(copia[r]) /\ Admite(r, copia[r]) /\ Guardable(g) => ConCae(g)
<1> DEFINE f == copia[r]
           g == Pedida(r)
<1>1. f.intentos \in Nat /\ f.cae \in 0..2 /\ f.estado \in Estados
      /\ f.prox \in {"nunca", "futuro", "vencido"} /\ MaxReintentos \in Nat \ {0}
  BY FacturacionConstantes DEF Fila
<1>2. CASE Tipo(r) = "reintentar"
  <2>1. g = [estado |-> "pendiente", cae |-> f.cae, intentos |-> 0, prox |-> "vencido"]
    BY <1>2 DEF Pedida, Fila
  <2>2. QED
    BY <1>1, <1>2, <2>1 DEF Fila, Estados, Sana, ConCae, Admite
<1>3. CASE Tipo(r) = "anular"
  <2>1. g.estado = "anulado"
    BY <1>3 DEF Pedida, Fila
  <2>2. QED
    BY <2>1 DEF Guardable, Estados
<1>4. CASE Tipo(r) \notin {"reintentar", "anular"}
  BY <1>4 DEF Pedida
<1>5. QED
  BY <1>2, <1>3, <1>4
-----------------------------------------------------------------------------
(* The inductive invariant: rows, and the copies of rows that are under way. *)

FilaBien(v) ==
    Existe(v) => Sana(comp[v]) /\ (v \notin Internas => ConCae(comp[v]))

\* The cron only takes rows that are pending, so without a CAE.
LoteBien(v) ==
    v \in DOMAIN lote =>
        Sana(lote[v]) /\ (v \notin Internas => ConCae(lote[v]) /\ lote[v].cae = 0)

\* Worker and cron ask AFIP only on a copy without a CAE, and an approval
\* carries one; a request writes what it was allowed to.
ProcesoBien(p) ==
    /\ Sana(copia[p])
    /\ p \in Trabajadores =>
           /\ pc[p] = "ticket" => venta[p] \in Internas
           /\ venta[p] \notin Internas /\ pc[p] \in {"llamar", "guardar", "pdf"} =>
                  ConCae(copia[p]) /\ (pc[p] # "pdf" => copia[p].cae = 0)
    /\ p = Cron /\ pc[p] = "guardar" /\ venta[p] \notin Internas =>
           ConCae(copia[p]) /\ copia[p].cae = 0
    /\ p \notin Peticiones /\ pc[p] = "guardar" =>
           (respuesta[p].tipo = "aprobada" => respuesta[p].cae # 0)
    /\ p \in Peticiones /\ pc[p] = "escribir" /\ Operacion[p].venta \notin Internas =>
           ConCae(copia[p]) /\ Admite(p, copia[p])

FilasBien == \A v \in Ventas : FilaBien(v)
LotesBien == \A v \in Ventas : LoteBien(v)
ProcesosBien == \A p \in Procesos : ProcesoBien(p)

FactInv == TypeOK /\ FilasBien /\ LotesBien /\ ProcesosBien

-----------------------------------------------------------------------------
(* How a step may move rows. *)

\* A process saves a row, if the database takes it.
LEMMA GuardarPaso ==
    ASSUME TypeOK, FilasBien, NEW v \in Ventas, NEW fila, NEW llega, Guardar(v, fila, llega),
           Guardable(fila) =>
               fila \in Fila /\ Sana(fila) /\ (v \notin Internas => ConCae(fila))
    PROVE  comp' \in [Ventas -> Fila \cup {SinFila}] /\ FilasBien'
<1>1. comp \in [Ventas -> Fila \cup {SinFila}]
  BY DEF TypeOK
<1>2. CASE llega /\ Guardable(fila)
  <2>1. comp' = [comp EXCEPT ![v] = fila]
    BY <1>2 DEF Guardar
  <2>2. comp' \in [Ventas -> Fila \cup {SinFila}]
    BY <1>1, <1>2, <2>1
  <2>3. ASSUME NEW u \in Ventas
        PROVE  FilaBien(u)'
    <3>1. CASE u = v
      BY <1>1, <1>2, <2>1, <3>1 DEF FilaBien, Existe
    <3>2. CASE u # v
      BY <1>1, <2>1, <3>2 DEF FilaBien, Existe, FilasBien
    <3>3. QED
      BY <3>1, <3>2
  <2>4. QED
    BY <2>2, <2>3 DEF FilasBien
<1>3. CASE ~(llega /\ Guardable(fila))
  <2>1. comp' = comp
    BY <1>3 DEF Guardar
  <2>2. QED
    BY <1>1, <2>1 DEF FilasBien, FilaBien, Existe
<1>4. QED
  BY <1>2, <1>3

\* A step of p leaves the other processes alone.
Ajenos(p) ==
    \A q \in Procesos \ {p} :
        /\ pc'[q] = pc[q] /\ venta'[q] = venta[q]
        /\ copia'[q] = copia[q] /\ respuesta'[q] = respuesta[q]

LEMMA ProcesosPaso ==
    ASSUME ProcesosBien, NEW p, Ajenos(p), p \in Procesos => ProcesoBien(p)'
    PROVE  ProcesosBien'
<1>1. ASSUME NEW q \in Procesos, q # p
      PROVE  ProcesoBien(q)'
  BY <1>1 DEF Ajenos, ProcesosBien, ProcesoBien
<1>2. QED
  BY <1>1 DEF ProcesosBien

\* The parts of TypeOK that concern the processes.
TiposProceso ==
    /\ pc \in [Procesos -> {"libre", "buscar", "crear", "ticket", "llamar", "guardar",
                            "pdf", "espera", "lote", "inicio", "escribir", "ok",
                            "rechazada", "error"}]
    /\ venta \in [Procesos -> Ventas]
    /\ copia \in [Procesos -> Fila]
    /\ respuesta \in [Procesos -> Respuesta]

LEMMA TiposDelProceso == TypeOK => TiposProceso
BY DEF TypeOK, TiposProceso, Respuesta

\* A process that is not mentioned keeps its locals; p may get new ones.
LEMMA UnProceso ==
    ASSUME TypeOK, NEW p \in Procesos, NEW lugar, NEW f \in Fila, NEW r \in Respuesta,
           NEW v \in Ventas,
           lugar \in {"libre", "buscar", "crear", "ticket", "llamar", "guardar", "pdf", "espera",
                     "lote", "inicio", "escribir", "ok", "rechazada", "error"},
           pc' = [pc EXCEPT ![p] = lugar], venta' = [venta EXCEPT ![p] = v],
           copia' = [copia EXCEPT ![p] = f], respuesta' = [respuesta EXCEPT ![p] = r]
    PROVE  /\ TiposProceso' /\ Ajenos(p)
           /\ pc'[p] = lugar /\ venta'[p] = v /\ copia'[p] = f /\ respuesta'[p] = r
BY TiposDelProceso DEF TiposProceso, Ajenos

LEMMA SinRespuestaTipo == SinRespuesta \in Respuesta /\ SinRespuesta.tipo = "fallo"
BY DEF SinRespuesta, Respuesta, Respuestas

\* The rest of TypeOK.
LEMMA TiposJuntos ==
    ASSUME TiposProceso',
           (/\ despacho \in [Ventas -> {"pendiente", "respaldo", "hecho"}]
            /\ cola \in [Ventas -> Nat]
            /\ comp \in [Ventas -> Fila \cup {SinFila}]
            /\ dlq \subseteq Ventas
            /\ DOMAIN lote \subseteq Ventas /\ \A v \in DOMAIN lote : lote[v] \in Fila
            /\ ctx \in {"activo", "cancelado"}
            /\ cortes \in 0..MaxCortes
            /\ autorizados \in [Ventas -> 0..2])'
    PROVE  TypeOK'
BY DEF TypeOK, TiposProceso, Respuesta

-----------------------------------------------------------------------------
(* AFIP. *)

LEMMA LlamarPaso ==
    ASSUME TypeOK, NEW p \in Procesos, NEW v \in Ventas, LlamarAFIP(p, v)
    PROVE  /\ autorizados' \in [Ventas -> 0..2]
           /\ \E r \in Respuesta : /\ respuesta' = [respuesta EXCEPT ![p] = r]
                                   /\ r.tipo = "aprobada" => r.cae # 0
<1> DEFINE n(t) == IF t \in {"aprobada", "perdida"} /\ autorizados[v] < 2
                   THEN autorizados[v] + 1 ELSE autorizados[v]
           cae(t) == IF t \in {"aprobada", "perdida"} THEN n(t) ELSE 0
<1>1. PICK t \in RespuestasAFIP :
          /\ autorizados' = [autorizados EXCEPT ![v] = n(t)]
          /\ respuesta' = [respuesta EXCEPT ![p] = [tipo |-> t, cae |-> cae(t)]]
  BY DEF LlamarAFIP
<1>2. autorizados \in [Ventas -> 0..2] /\ t \in Respuestas
  BY FacturacionConstantes DEF TypeOK
<1>3. n(t) \in 0..2 /\ (t = "aprobada" => n(t) # 0)
  BY <1>2
<1>4. [tipo |-> t, cae |-> cae(t)] \in Respuesta
  BY <1>2, <1>3 DEF Respuesta
<1>5. autorizados' \in [Ventas -> 0..2]
  BY <1>1, <1>2, <1>3
<1>6. QED
  BY <1>1, <1>3, <1>4, <1>5
-----------------------------------------------------------------------------
(* Every action keeps FactInv. *)

LEMMA InitFactInv == Init => FactInv
<1> SUFFICES ASSUME Init PROVE FactInv
  OBVIOUS
<1>1. \A p \in Procesos :
          /\ Reposo(p) \in {"libre", "espera", "inicio"} /\ Nueva \in Fila /\ Sana(Nueva)
          /\ pc[p] = Reposo(p) /\ copia[p] = Nueva
  BY NuevaFila DEF Reposo, Init
<1>2. (CHOOSE v \in Ventas : TRUE) \in Ventas
  BY FacturacionConstantes
<1>3. TiposProceso
  BY <1>1, <1>2, SinRespuestaTipo DEF Init, TiposProceso
<1>4. TypeOK
  BY <1>3, FacturacionConstantes DEF Init, TypeOK, TiposProceso, Respuesta
<1>5. FilasBien /\ LotesBien
  BY DEF Init, FilasBien, FilaBien, LotesBien, LoteBien, Existe
<1>6. ProcesosBien
  BY <1>1 DEF ProcesosBien, ProcesoBien
<1>7. QED
  BY <1>4, <1>5, <1>6 DEF FactInv

\* A step that only touches the dispatch, the queue, time's passing or nothing.
LEMMA SoloFilas ==
    ASSUME FactInv, UNCHANGED <<proceso, lote>>, TypeOK', FilasBien'
    PROVE  FactInv'
<1>1. LotesBien'
  BY DEF FactInv, LotesBien, LoteBien
<1>2. ProcesosBien'
  BY DEF FactInv, ProcesosBien, ProcesoBien, proceso
<1>3. QED
  BY <1>1, <1>2 DEF FactInv

LEMMA EncolarPaso ==
    ASSUME FactInv, NEW v \in Ventas, Encolar(v)
    PROVE  FactInv'
<1>1. /\ cola' \in [Ventas -> Nat] /\ despacho' \in [Ventas -> {"pendiente", "respaldo", "hecho"}]
      /\ UNCHANGED <<comp, dlq, pc, venta, copia, respuesta, lote, ctx, cortes, autorizados>>
  BY FacturacionConstantes DEF Encolar, FactInv, TypeOK, bd, proceso
<1>2. TypeOK' /\ FilasBien'
  BY <1>1 DEF FactInv, TypeOK, FilasBien, FilaBien, Existe
<1>3. QED
  BY <1>1, <1>2, SoloFilas DEF proceso

LEMMA RespaldoPaso ==
    ASSUME FactInv, NEW v \in Ventas, Respaldo(v)
    PROVE  FactInv'
<1> DEFINE fila == [Nueva EXCEPT !.prox = "futuro"]
<1>1. fila \in Fila /\ Sana(fila) /\ ConCae(fila)
  BY NuevaFila
<1>2. (\E llega : Guardar(v, fila, llega)) \/ comp' = comp
  BY DEF Respaldo
<1>3. comp' \in [Ventas -> Fila \cup {SinFila}] /\ FilasBien'
  <2>1. CASE \E llega : Guardar(v, fila, llega)
    <3> HIDE DEF fila
    <3> QED
      BY <1>1, <2>1, GuardarPaso DEF FactInv
  <2>2. CASE comp' = comp
    BY <2>2 DEF FactInv, TypeOK, FilasBien, FilaBien, Existe
  <2>3. QED
    BY <1>2, <2>1, <2>2
<1>4. /\ despacho' \in [Ventas -> {"pendiente", "respaldo", "hecho"}]
      /\ UNCHANGED <<cola, dlq, pc, venta, copia, respuesta, lote, ctx, cortes, autorizados>>
  BY DEF Respaldo, FactInv, TypeOK, proceso
<1>5. TypeOK'
  BY <1>3, <1>4 DEF FactInv, TypeOK
<1>6. QED
  BY <1>3, <1>4, <1>5, SoloFilas DEF proceso

LEMMA VencerPaso ==
    ASSUME FactInv, NEW v \in Ventas, Vencer(v)
    PROVE  FactInv'
<1> DEFINE fila == [comp[v] EXCEPT !.prox = "vencido"]
<1>1. comp[v] \in Fila /\ Sana(comp[v]) /\ (v \notin Internas => ConCae(comp[v]))
  BY DEF Vencer, FactInv, TypeOK, FilasBien, FilaBien, Existe
<1>2. fila \in Fila /\ fila.estado = comp[v].estado /\ fila.cae = comp[v].cae
      /\ fila.intentos = comp[v].intentos
  BY <1>1 DEF Fila
<1>3. comp' = [comp EXCEPT ![v] = fila]
      /\ UNCHANGED <<despacho, cola, dlq, pc, venta, copia, respuesta, lote, ctx, cortes, autorizados>>
  BY DEF Vencer, proceso
<1> HIDE DEF fila
<1>4. Guardar(v, fila, TRUE)
  BY <1>2, <1>3 DEF Guardar, Guardable, Fila
<1>5. comp' \in [Ventas -> Fila \cup {SinFila}] /\ FilasBien'
  BY <1>1, <1>2, <1>4, GuardarPaso DEF FactInv, Sana, ConCae
<1>6. TypeOK'
  BY <1>3, <1>5 DEF FactInv, TypeOK
<1>7. QED
  BY <1>3, <1>5, <1>6, SoloFilas DEF proceso

\* CancelarPendientes puts rows in error that have no CAE.
LEMMA CancelarPaso ==
    ASSUME FactInv, NEW r \in Peticiones, Cancelar(r)
    PROVE  FactInv'
<1>1. ASSUME NEW v \in Ventas
      PROVE  comp'[v] \in Fila \cup {SinFila} /\ FilaBien(v)'
  <2>1. CASE Programada(v)
    <3>1. comp[v] \in Fila /\ comp[v].estado = "pendiente"
      BY <2>1 DEF Programada, FactInv, TypeOK
    <3>2. comp'[v] = [estado |-> "error", cae |-> comp[v].cae, intentos |-> comp[v].intentos,
                      prox |-> "nunca"]
      BY <2>1, <3>1 DEF Cancelar, Fila
    <3>3. v \notin Internas => comp[v].cae = 0
      BY <2>1, <3>1 DEF FactInv, FilasBien, FilaBien, ConCae, Existe, Programada
    <3>4. QED
      BY <3>1, <3>2, <3>3 DEF FilaBien, Sana, ConCae, Fila, Estados
  <2>2. CASE ~Programada(v)
    BY <2>2 DEF Cancelar, FactInv, TypeOK, FilasBien, FilaBien, Existe
  <2>3. QED
    BY <2>1, <2>2
<1>2. comp' \in [Ventas -> Fila \cup {SinFila}] /\ FilasBien'
  BY <1>1 DEF Cancelar, FilasBien
<1>3. /\ pc' = [pc EXCEPT ![r] = "ok"]
      /\ UNCHANGED <<despacho, cola, dlq, venta, copia, respuesta, lote, ctx, cortes, autorizados>>
  BY DEF Cancelar, IrA
<1>4. TypeOK'
  BY <1>2, <1>3 DEF FactInv, TypeOK
<1>5. ProcesosBien'
  <2>1. Ajenos(r) /\ r \in Procesos /\ r \notin Trabajadores /\ r # Cron /\ pc'[r] = "ok"
    BY <1>3, FacturacionConstantes DEF Ajenos, FactInv, TypeOK, Procesos
  <2>2. ProcesoBien(r)'
    BY <1>3, <2>1 DEF ProcesoBien, FactInv, ProcesosBien
  <2>3. QED
    BY <2>1, <2>2, ProcesosPaso DEF FactInv
<1>6. LotesBien'
  BY <1>3 DEF FactInv, LotesBien, LoteBien
<1>7. QED
  BY <1>2, <1>4, <1>5, <1>6 DEF FactInv

-----------------------------------------------------------------------------
(* The steps of a worker. *)

\* A step of process p that saves no row.
LEMMA SinGuardar ==
    ASSUME FactInv, NEW p \in Procesos, TypeOK', Ajenos(p), ProcesoBien(p)',
           UNCHANGED <<comp, lote>>
    PROVE  FactInv'
<1>1. FilasBien' /\ LotesBien'
  BY DEF FactInv, FilasBien, FilaBien, Existe, LotesBien, LoteBien
<1>2. ProcesosBien'
  BY ProcesosPaso DEF FactInv
<1>3. QED
  BY <1>1, <1>2 DEF FactInv

LEMMA EsTrabajador ==
    ASSUME NEW w \in Trabajadores
    PROVE  w \in Procesos /\ w # Cron /\ w \notin Peticiones
BY FacturacionConstantes DEF Procesos

LEMMA TomarPaso ==
    ASSUME FactInv, NEW w \in Trabajadores, NEW v \in Ventas, Tomar(w, v)
    PROVE  FactInv'
<1>1. /\ pc' = [pc EXCEPT ![w] = "buscar"] /\ venta' = [venta EXCEPT ![w] = v]
      /\ UNCHANGED <<despacho, comp, dlq, copia, respuesta, lote, ctx, cortes, autorizados>>
  BY DEF Tomar, IrA, bd
<1>2. cola' \in [Ventas -> Nat]
  <2>1. cola \in [Ventas -> Nat] /\ cola[v] > 0 /\ cola' = [cola EXCEPT ![v] = cola[v] - 1]
    BY DEF Tomar, FactInv, TypeOK
  <2>2. cola[v] - 1 \in Nat
    BY <2>1
  <2>3. QED
    BY <2>1, <2>2
<1>3. TypeOK'
  BY <1>1, <1>2, EsTrabajador DEF FactInv, TypeOK
<1>4. Ajenos(w) /\ pc'[w] = "buscar"
  BY <1>1, EsTrabajador DEF Ajenos, FactInv, TypeOK
<1>5. ProcesoBien(w)'
  BY <1>1, <1>4, EsTrabajador DEF ProcesoBien, FactInv, ProcesosBien
<1>6. QED
  BY <1>1, <1>3, <1>4, <1>5, EsTrabajador, SinGuardar

LEMMA BuscarPaso ==
    ASSUME FactInv, NEW w \in Trabajadores, Buscar(w)
    PROVE  FactInv'
<1> DEFINE v == venta[w]
<1>1. v \in Ventas /\ w \in Procesos
  BY EsTrabajador DEF FactInv, TypeOK
<1>2. UNCHANGED <<despacho, cola, comp, dlq, venta, respuesta, lote, ctx, cortes, autorizados>>
  BY DEF Buscar, bd
<1>3. CASE pc' = [pc EXCEPT ![w] = "crear"] /\ copia' = copia
  <2>1. TypeOK' /\ Ajenos(w) /\ pc'[w] = "crear"
    BY <1>1, <1>2, <1>3 DEF FactInv, TypeOK, Ajenos
  <2>2. ProcesoBien(w)'
    BY <1>1, <1>3, <2>1, EsTrabajador DEF ProcesoBien, FactInv, ProcesosBien
  <2>3. QED
    BY <1>1, <1>2, <2>1, <2>2, SinGuardar
<1>4. CASE pc' = [pc EXCEPT ![w] = "libre"] /\ copia' = copia
  <2>1. TypeOK' /\ Ajenos(w) /\ pc'[w] = "libre"
    BY <1>1, <1>2, <1>4 DEF FactInv, TypeOK, Ajenos
  <2>2. ProcesoBien(w)'
    BY <1>1, <1>4, <2>1, EsTrabajador DEF ProcesoBien, FactInv, ProcesosBien
  <2>3. QED
    BY <1>1, <1>2, <2>1, <2>2, SinGuardar
<1>5. CASE /\ comp[v] # SinFila /\ comp[v].cae = 0
           /\ pc' = [pc EXCEPT ![w] = Siguiente(w)] /\ copia' = [copia EXCEPT ![w] = comp[v]]
  <2>1. comp[v] \in Fila /\ Sana(comp[v]) /\ (v \notin Internas => ConCae(comp[v]))
    BY <1>1, <1>5 DEF FactInv, TypeOK, FilasBien, FilaBien, Existe
  <2>2. Siguiente(w) \in {"ticket", "llamar"} /\ (Siguiente(w) = "ticket" => v \in Internas)
    BY DEF Siguiente
  <2>3. TypeOK' /\ Ajenos(w) /\ pc'[w] = Siguiente(w) /\ copia'[w] = comp[v] /\ venta'[w] = v
    BY <1>1, <1>2, <1>5, <2>1, <2>2 DEF FactInv, TypeOK, Ajenos
  <2>4. ProcesoBien(w)'
    BY <1>5, <2>1, <2>2, <2>3, EsTrabajador DEF ProcesoBien
  <2>5. QED
    BY <1>1, <1>2, <2>3, <2>4, SinGuardar
<1>6. QED
  BY <1>3, <1>4, <1>5 DEF Buscar, IrA

LEMMA DescartarPaso ==
    ASSUME FactInv, NEW w \in Trabajadores, Descartar(w)
    PROVE  FactInv'
<1>1. /\ pc' = [pc EXCEPT ![w] = "libre"]
      /\ UNCHANGED <<despacho, cola, comp, dlq, venta, copia, respuesta, lote, ctx, cortes, autorizados>>
  BY DEF Descartar, IrA, bd
<1>2. TypeOK' /\ Ajenos(w) /\ pc'[w] = "libre"
  BY <1>1, EsTrabajador DEF FactInv, TypeOK, Ajenos
<1>3. ProcesoBien(w)'
  BY <1>1, <1>2, EsTrabajador DEF ProcesoBien, FactInv, ProcesosBien
<1>4. QED
  BY <1>1, <1>2, <1>3, EsTrabajador, SinGuardar

LEMMA CrearPaso ==
    ASSUME FactInv, NEW w \in Trabajadores, Crear(w)
    PROVE  FactInv'
<1> DEFINE v == venta[w]
<1>1. v \in Ventas /\ w \in Procesos
  BY EsTrabajador DEF FactInv, TypeOK
<1>2. UNCHANGED <<despacho, cola, dlq, venta, respuesta, lote, ctx, cortes, autorizados>>
  BY DEF Crear
<1>3. CASE pc' = [pc EXCEPT ![w] = "libre"] /\ copia' = copia /\ comp' = comp
  <2>1. TypeOK' /\ Ajenos(w) /\ pc'[w] = "libre"
    BY <1>1, <1>2, <1>3 DEF FactInv, TypeOK, Ajenos
  <2>2. ProcesoBien(w)'
    BY <1>1, <1>3, <2>1, EsTrabajador DEF ProcesoBien, FactInv, ProcesosBien
  <2>3. QED
    BY <1>1, <1>2, <1>3, <2>1, <2>2, SinGuardar
<1>4. CASE /\ comp' = [comp EXCEPT ![v] = Nueva]
           /\ pc' = [pc EXCEPT ![w] = Siguiente(w)] /\ copia' = [copia EXCEPT ![w] = Nueva]
  <2>1. Siguiente(w) \in {"ticket", "llamar"} /\ (Siguiente(w) = "ticket" => v \in Internas)
    BY DEF Siguiente
  <2>2. Guardar(v, Nueva, TRUE)
    BY <1>4, NuevaFila DEF Guardar, Guardable, Fila
  <2>3. comp' \in [Ventas -> Fila \cup {SinFila}] /\ FilasBien'
    BY <1>1, <2>2, NuevaFila, GuardarPaso DEF FactInv
  <2>4. TypeOK' /\ Ajenos(w) /\ pc'[w] = Siguiente(w) /\ copia'[w] = Nueva /\ venta'[w] = v
    BY <1>1, <1>2, <1>4, <2>1, <2>3, NuevaFila DEF FactInv, TypeOK, Ajenos
  <2>5. ProcesoBien(w)'
    BY <2>1, <2>4, NuevaFila, EsTrabajador DEF ProcesoBien, Nueva
  <2>6. ProcesosBien' /\ LotesBien'
    BY <1>2, <2>4, <2>5, ProcesosPaso DEF FactInv, LotesBien, LoteBien
  <2>7. QED
    BY <2>3, <2>4, <2>6 DEF FactInv
<1>5. QED
  BY <1>3, <1>4 DEF Crear, IrA
LEMMA LlamarWorkerPaso ==
    ASSUME FactInv, NEW w \in Trabajadores, Llamar(w)
    PROVE  FactInv'
<1>1. w \in Procesos /\ venta[w] \in Ventas /\ pc[w] = "llamar"
  BY EsTrabajador DEF Llamar, FactInv, TypeOK
<1>2. /\ pc' = [pc EXCEPT ![w] = "guardar"]
      /\ UNCHANGED <<despacho, cola, comp, dlq, venta, copia, lote, ctx, cortes>>
  BY DEF Llamar, IrA, bd
<1>3. PICK r \in Respuesta : /\ respuesta' = [respuesta EXCEPT ![w] = r]
                             /\ r.tipo = "aprobada" => r.cae # 0
  BY <1>1, LlamarPaso DEF Llamar, FactInv
<1>4. TiposProceso' /\ Ajenos(w) /\ pc'[w] = "guardar" /\ respuesta'[w] = r
  BY <1>1, <1>2, <1>3, TiposDelProceso DEF FactInv, TiposProceso, Ajenos
<1>5. TypeOK'
  <2>1. autorizados' \in [Ventas -> 0..2]
    BY <1>1, LlamarPaso DEF Llamar, FactInv
  <2>2. QED
    BY <1>2, <1>4, <2>1, TiposJuntos DEF FactInv, TypeOK
<1>6. ProcesoBien(w)'
  BY <1>1, <1>2, <1>3, <1>4, EsTrabajador DEF ProcesoBien, FactInv, ProcesosBien
<1>7. QED
  BY <1>1, <1>2, <1>4, <1>5, <1>6, SinGuardar

\* A worker writes its copy down and goes to the PDF, or ends.
LEMMA EscrituraWorker ==
    ASSUME FactInv, NEW w \in Trabajadores, NEW fila \in Fila, NEW lugar \in {"pdf", "libre"},
           Sana(fila), venta[w] \notin Internas => ConCae(fila),
           (\E llega : Guardar(venta[w], fila, llega)) \/ comp' = comp,
           copia' = [copia EXCEPT ![w] = IF lugar = "pdf" THEN fila ELSE Nueva],
           respuesta' = [respuesta EXCEPT ![w] = SinRespuesta],
           pc' = [pc EXCEPT ![w] = lugar],
           UNCHANGED <<despacho, cola, dlq, venta, lote, ctx, cortes, autorizados>>
    PROVE  FactInv'
<1> DEFINE f == IF lugar = "pdf" THEN fila ELSE Nueva
<1>1. w \in Procesos /\ venta[w] \in Ventas
  BY EsTrabajador DEF FactInv, TypeOK
<1>2. comp' \in [Ventas -> Fila \cup {SinFila}] /\ FilasBien'
  <2>1. CASE \E llega : Guardar(venta[w], fila, llega)
    BY <1>1, <2>1, GuardarPaso DEF FactInv
  <2>2. CASE comp' = comp
    BY <2>2 DEF FactInv, TypeOK, FilasBien, FilaBien, Existe
  <2>3. QED
    BY <2>1, <2>2
<1>3. f \in Fila /\ Sana(f) /\ (lugar = "pdf" => f = fila)
  BY NuevaFila
<1> HIDE DEF f
<1>4. /\ TiposProceso' /\ Ajenos(w)
      /\ pc'[w] = lugar /\ copia'[w] = f /\ respuesta'[w] = SinRespuesta /\ venta'[w] = venta[w]
  <2>1. copia' = [copia EXCEPT ![w] = f]
    BY DEF f
  <2>2. QED
    BY <1>1, <1>3, <2>1, SinRespuestaTipo, TiposDelProceso DEF FactInv, TiposProceso, Ajenos
<1>5. TypeOK'
  BY <1>2, <1>4, TiposJuntos DEF FactInv, TypeOK
<1>6. ProcesoBien(w)'
  BY <1>3, <1>4, EsTrabajador DEF ProcesoBien
<1>7. ProcesosBien' /\ LotesBien'
  BY <1>4, <1>6, ProcesosPaso DEF FactInv, LotesBien, LoteBien
<1>8. QED
  BY <1>2, <1>5, <1>7 DEF FactInv

LEMMA ResultadoPaso ==
    ASSUME FactInv, NEW w \in Trabajadores, Resultado(w)
    PROVE  FactInv'
<1> DEFINE fila == IF pc[w] = "ticket" THEN [copia[w] EXCEPT !.estado = "emitido"]
                   ELSE TrasTrabajador(copia[w], respuesta[w])
<1>1. /\ copia[w] \in Fila /\ respuesta[w] \in Respuesta /\ w \in Procesos
      /\ ProcesoBien(w) /\ pc[w] \in {"ticket", "guardar"}
  BY EsTrabajador, TiposDelProceso DEF Resultado, FactInv, TiposProceso, ProcesosBien
<1>2. fila \in Fila /\ Sana(fila) /\ (venta[w] \notin Internas => ConCae(fila))
  <2>1. CASE pc[w] = "ticket"
    <3>1. fila = [estado |-> "emitido", cae |-> copia[w].cae, intentos |-> copia[w].intentos,
                  prox |-> copia[w].prox]
      BY <1>1, <2>1 DEF Fila
    <3>2. QED
      BY <1>1, <2>1, <3>1 DEF Fila, Estados, Sana, ProcesoBien
  <2>2. CASE pc[w] = "guardar"
    <3>1. fila = TrasTrabajador(copia[w], respuesta[w])
      BY <2>2
    <3>2. /\ Sana(copia[w])
          /\ venta[w] \notin Internas =>
                 /\ copia[w].cae = 0 /\ copia[w].estado # "emitido"
                 /\ respuesta[w].tipo = "aprobada" => respuesta[w].cae # 0
      BY <1>1, <2>2, EsTrabajador DEF ProcesoBien, ConCae
    <3>3. QED
      BY <1>1, <3>1, <3>2, FilaTrasTrabajador
  <2>3. QED
    BY <1>1, <2>1, <2>2
<1>3. /\ \E llega : Guardar(venta[w], fila, llega)
      /\ copia' = [copia EXCEPT ![w] = fila]
      /\ respuesta' = [respuesta EXCEPT ![w] = SinRespuesta]
      /\ pc' = [pc EXCEPT ![w] = "pdf"]
      /\ UNCHANGED <<despacho, cola, dlq, venta, lote, ctx, cortes, autorizados>>
  BY DEF Resultado, IrA
<1> HIDE DEF fila
<1>4. QED
  BY <1>2, <1>3, EscrituraWorker

LEMMA PDFPaso ==
    ASSUME FactInv, NEW w \in Trabajadores, PDF(w)
    PROVE  FactInv'
<1>1. /\ copia[w] \in Fila /\ Sana(copia[w])
      /\ venta[w] \notin Internas => ConCae(copia[w])
  BY EsTrabajador DEF PDF, FactInv, TypeOK, ProcesosBien, ProcesoBien
<1>2. /\ (\E llega : Guardar(venta[w], copia[w], llega)) \/ comp' = comp
      /\ copia' = [copia EXCEPT ![w] = Nueva]
      /\ respuesta' = [respuesta EXCEPT ![w] = SinRespuesta]
      /\ pc' = [pc EXCEPT ![w] = "libre"]
      /\ UNCHANGED <<despacho, cola, dlq, venta, lote, ctx, cortes, autorizados>>
  BY DEF PDF, Olvidar, IrA
<1>3. QED
  BY <1>1, <1>2, EscrituraWorker

-----------------------------------------------------------------------------
(* The steps of the cron. *)

LEMMA EsCron == Cron \in Procesos /\ Cron \notin Trabajadores /\ Cron \notin Peticiones
BY FacturacionConstantes DEF Procesos

LEMMA CronLeerPaso ==
    ASSUME FactInv, CronLeer
    PROVE  FactInv'
<1>1. /\ pc' = [pc EXCEPT ![Cron] = "lote"]
      /\ lote' = [v \in {u \in Ventas : Vencida(u)} |-> comp[v]]
      /\ UNCHANGED <<despacho, cola, comp, dlq, venta, copia, respuesta, ctx, cortes, autorizados>>
  BY DEF CronLeer, IrA, bd
<1>2. ASSUME NEW v \in DOMAIN lote'
      PROVE  v \in Ventas /\ lote'[v] \in Fila /\ LoteBien(v)'
  <2>1. v \in Ventas /\ Vencida(v) /\ lote'[v] = comp[v]
    BY <1>1
  <2>2. comp[v] \in Fila /\ Sana(comp[v]) /\ comp[v].estado = "pendiente"
        /\ (v \notin Internas => ConCae(comp[v]))
    BY <2>1 DEF Vencida, FactInv, TypeOK, FilasBien, FilaBien, Existe
  <2>3. QED
    BY <2>1, <2>2 DEF LoteBien, ConCae
<1>3. TypeOK'
  BY <1>1, <1>2, EsCron DEF FactInv, TypeOK
<1>4. LotesBien'
  BY <1>2 DEF LotesBien, LoteBien
<1>5. FilasBien'
  BY <1>1 DEF FactInv, FilasBien, FilaBien, Existe
<1>6. Ajenos(Cron) /\ pc'[Cron] = "lote"
  BY <1>1, EsCron DEF FactInv, TypeOK, Ajenos
<1>7. ProcesoBien(Cron)'
  BY <1>1, <1>6, EsCron DEF ProcesoBien, FactInv, ProcesosBien
<1>8. QED
  BY <1>3, <1>4, <1>5, <1>6, <1>7, ProcesosPaso DEF FactInv

LEMMA CronAbandonarPaso ==
    ASSUME FactInv, CronAbandonar
    PROVE  FactInv'
<1>1. /\ pc' = [pc EXCEPT ![Cron] = "espera"] /\ DOMAIN lote' = {}
      /\ UNCHANGED <<despacho, cola, comp, dlq, venta, copia, respuesta, ctx, cortes, autorizados>>
  BY DEF CronAbandonar, IrA, bd
<1>2. TypeOK' /\ Ajenos(Cron) /\ pc'[Cron] = "espera"
  BY <1>1, EsCron DEF FactInv, TypeOK, Ajenos
<1>3. LotesBien' /\ FilasBien'
  BY <1>1 DEF LotesBien, LoteBien, FactInv, FilasBien, FilaBien, Existe
<1>4. ProcesoBien(Cron)'
  BY <1>1, <1>2, EsCron DEF ProcesoBien, FactInv, ProcesosBien
<1>5. QED
  BY <1>2, <1>3, <1>4, ProcesosPaso DEF FactInv

LEMMA CronLlamarPaso ==
    ASSUME FactInv, NEW v \in Ventas, CronLlamar(v)
    PROVE  FactInv'
<1>1. /\ pc' = [pc EXCEPT ![Cron] = "guardar"] /\ venta' = [venta EXCEPT ![Cron] = v]
      /\ copia' = [copia EXCEPT ![Cron] = lote[v]] /\ v \in DOMAIN lote
      /\ lote' = [u \in DOMAIN lote \ {v} |-> lote[u]]
      /\ UNCHANGED <<despacho, cola, comp, dlq, ctx, cortes>>
  BY DEF CronLlamar, IrA, bd
<1>2. PICK r \in Respuesta : /\ respuesta' = [respuesta EXCEPT ![Cron] = r]
                             /\ r.tipo = "aprobada" => r.cae # 0
  BY EsCron, LlamarPaso DEF CronLlamar, FactInv
<1>3. lote[v] \in Fila /\ LoteBien(v)
  BY <1>1 DEF FactInv, TypeOK, LotesBien
<1>4. /\ TiposProceso' /\ Ajenos(Cron) /\ pc'[Cron] = "guardar" /\ venta'[Cron] = v
      /\ copia'[Cron] = lote[v] /\ respuesta'[Cron] = r
  BY <1>1, <1>2, <1>3, EsCron, TiposDelProceso DEF FactInv, TiposProceso, Ajenos
<1>5. TypeOK'
  <2>1. autorizados' \in [Ventas -> 0..2]
    BY EsCron, LlamarPaso DEF CronLlamar, FactInv
  <2>2. DOMAIN lote' \subseteq Ventas /\ \A u \in DOMAIN lote' : lote'[u] \in Fila
    BY <1>1 DEF FactInv, TypeOK
  <2>3. QED
    BY <1>1, <1>4, <2>1, <2>2, TiposJuntos DEF FactInv, TypeOK
<1>6. LotesBien' /\ FilasBien'
  BY <1>1 DEF LotesBien, LoteBien, FactInv, FilasBien, FilaBien, Existe
<1>7. ProcesoBien(Cron)'
  BY <1>1, <1>2, <1>3, <1>4, EsCron DEF ProcesoBien, LoteBien
<1>8. QED
  BY <1>4, <1>5, <1>6, <1>7, ProcesosPaso DEF FactInv

LEMMA CronGuardarPaso ==
    ASSUME FactInv, CronGuardar
    PROVE  FactInv'
<1> DEFINE v == venta[Cron]
           fila == TrasCron(copia[Cron], respuesta[Cron])
<1>1. /\ copia[Cron] \in Fila /\ respuesta[Cron] \in Respuesta /\ v \in Ventas
      /\ ProcesoBien(Cron) /\ pc[Cron] = "guardar"
  BY EsCron, TiposDelProceso DEF CronGuardar, FactInv, TiposProceso, ProcesosBien
<1>2. fila \in Fila /\ Sana(fila) /\ (v \notin Internas => ConCae(fila))
  <2>1. /\ Sana(copia[Cron])
        /\ v \notin Internas =>
               /\ copia[Cron].cae = 0 /\ copia[Cron].estado # "emitido"
               /\ respuesta[Cron].tipo = "aprobada" => respuesta[Cron].cae # 0
    BY <1>1, EsCron DEF ProcesoBien, ConCae
  <2>2. QED
    BY <1>1, <2>1, FilaTrasCron
<1>3. /\ \E llega : Guardar(v, fila, llega)
      /\ dlq' \in {dlq, dlq \cup {v}}
      /\ pc' \in {[pc EXCEPT ![Cron] = "espera"], [pc EXCEPT ![Cron] = "lote"]}
      /\ copia' = [copia EXCEPT ![Cron] = Nueva]
      /\ respuesta' = [respuesta EXCEPT ![Cron] = SinRespuesta]
      /\ UNCHANGED <<despacho, cola, venta, lote, ctx, cortes, autorizados>>
  BY DEF CronGuardar, Avisar, Olvidar, IrA
<1> HIDE DEF fila
<1>4. comp' \in [Ventas -> Fila \cup {SinFila}] /\ FilasBien'
  BY <1>1, <1>2, <1>3, GuardarPaso DEF FactInv
<1>5. /\ TiposProceso' /\ Ajenos(Cron) /\ pc'[Cron] \in {"espera", "lote"}
      /\ copia'[Cron] = Nueva
  BY <1>3, EsCron, NuevaFila, SinRespuestaTipo, TiposDelProceso DEF FactInv, TiposProceso, Ajenos
<1>6. TypeOK'
  BY <1>1, <1>3, <1>4, <1>5, TiposJuntos DEF FactInv, TypeOK
<1>7. ProcesoBien(Cron)'
  BY <1>5, EsCron, NuevaFila DEF ProcesoBien
<1>8. LotesBien'
  BY <1>3 DEF FactInv, LotesBien, LoteBien
<1>9. QED
  BY <1>4, <1>5, <1>6, <1>7, <1>8, ProcesosPaso DEF FactInv

-----------------------------------------------------------------------------
(* Requests, time and shutdown. *)

LEMMA EsPeticion ==
    ASSUME NEW r \in Peticiones
    PROVE  /\ r \in Procesos /\ r # Cron /\ r \notin Trabajadores
           /\ Operacion[r].venta \in Ventas
BY FacturacionConstantes DEF Procesos, Operaciones

LEMMA LeerPaso ==
    ASSUME FactInv, NEW r \in Peticiones, Leer(r)
    PROVE  FactInv'
<1> DEFINE v == Operacion[r].venta
           fila == comp[v]
           lugar == IF Admite(r, fila) THEN "escribir" ELSE "rechazada"
<1>1. /\ fila \in Fila /\ Sana(fila) /\ (v \notin Internas => ConCae(fila))
  BY EsPeticion DEF Leer, FactInv, TypeOK, FilasBien, FilaBien, Existe
<1>2. /\ copia' = [copia EXCEPT ![r] = fila] /\ pc' = [pc EXCEPT ![r] = lugar]
      /\ UNCHANGED <<despacho, cola, comp, dlq, venta, respuesta, lote, ctx, cortes, autorizados>>
  BY DEF Leer, IrA, bd
<1>3. lugar \in {"escribir", "rechazada"} /\ (lugar = "escribir" => Admite(r, fila))
  OBVIOUS
<1> HIDE DEF fila, lugar
<1>4. TypeOK' /\ Ajenos(r) /\ pc'[r] = lugar /\ copia'[r] = fila
  BY <1>1, <1>2, <1>3, EsPeticion DEF FactInv, TypeOK, Ajenos
<1>5. ProcesoBien(r)'
  BY <1>1, <1>3, <1>4, EsPeticion DEF ProcesoBien, Admite
<1>6. QED
  BY <1>2, <1>4, <1>5, EsPeticion, SinGuardar

LEMMA EscribirPaso ==
    ASSUME FactInv, NEW r \in Peticiones, Escribir(r)
    PROVE  FactInv'
<1> DEFINE v == Operacion[r].venta
           fila == Pedida(r)
<1>1. /\ copia[r] \in Fila /\ v \in Ventas
      /\ ProcesoBien(r) /\ pc[r] = "escribir"
  BY EsPeticion DEF Escribir, FactInv, TypeOK, ProcesosBien
<1>2. Guardable(fila) => fila \in Fila /\ Sana(fila) /\ (v \notin Internas => ConCae(fila))
  BY <1>1, FilaPedida DEF ProcesoBien
<1>3. /\ \E llega : Guardar(v, fila, llega)
      /\ pc' \in {[pc EXCEPT ![r] = "ok"], [pc EXCEPT ![r] = "error"]}
      /\ copia' = [copia EXCEPT ![r] = Nueva]
      /\ respuesta' = [respuesta EXCEPT ![r] = SinRespuesta]
      /\ UNCHANGED <<despacho, cola, dlq, venta, lote, ctx, cortes, autorizados>>
  BY DEF Escribir, Olvidar, IrA
<1> HIDE DEF fila
<1>4. comp' \in [Ventas -> Fila \cup {SinFila}] /\ FilasBien'
  BY <1>1, <1>2, <1>3, GuardarPaso DEF FactInv
<1>5. /\ TiposProceso' /\ Ajenos(r) /\ pc'[r] \in {"ok", "error"} /\ copia'[r] = Nueva
  BY <1>3, EsPeticion, NuevaFila, SinRespuestaTipo, TiposDelProceso
     DEF FactInv, TiposProceso, Ajenos
<1>6. TypeOK'
  BY <1>1, <1>3, <1>4, <1>5, TiposJuntos DEF FactInv, TypeOK
<1>7. ProcesoBien(r)'
  BY <1>5, EsPeticion, NuevaFila DEF ProcesoBien
<1>8. LotesBien'
  BY <1>3 DEF FactInv, LotesBien, LoteBien
<1>9. QED
  BY <1>4, <1>5, <1>6, <1>7, <1>8, ProcesosPaso DEF FactInv

LEMMA ApagarPaso ==
    ASSUME FactInv, Apagar
    PROVE  FactInv'
<1>1. /\ ctx' = "cancelado" /\ cortes' = cortes + 1 /\ cortes < MaxCortes
      /\ UNCHANGED <<despacho, cola, comp, dlq, pc, venta, copia, respuesta, lote, autorizados>>
  BY DEF Apagar, bd, proceso
<1>2. cortes' \in 0..MaxCortes
  <2>1. MaxCortes \in Nat /\ cortes \in 0..MaxCortes
    BY FacturacionConstantes DEF FactInv, TypeOK
  <2>2. QED
    BY <1>1, <2>1
<1>3. TypeOK' /\ FilasBien'
  BY <1>1, <1>2 DEF FactInv, TypeOK, FilasBien, FilaBien, Existe
<1>4. QED
  BY <1>1, <1>3, SoloFilas DEF proceso

LEMMA ReiniciarPaso ==
    ASSUME FactInv, Reiniciar
    PROVE  FactInv'
<1>1. /\ copia' = [p \in Procesos |-> Nueva] /\ respuesta' = [p \in Procesos |-> SinRespuesta]
      /\ pc' = [p \in Procesos |->
                   IF p \in Peticiones /\ pc[p] = "escribir" THEN "error"
                   ELSE IF p \in Peticiones THEN pc[p] ELSE Reposo(p)]
      /\ DOMAIN lote' = {} /\ ctx' = "activo"
      /\ UNCHANGED <<cola, comp, dlq, venta, cortes, autorizados>>
  BY DEF Reiniciar, bd
<1>2. \A p \in Procesos : Reposo(p) \in {"libre", "espera", "inicio"}
  BY DEF Reposo
<1>3. TiposProceso'
  BY <1>1, <1>2, NuevaFila, SinRespuestaTipo, TiposDelProceso DEF FactInv, TiposProceso
<1>4. despacho' \in [Ventas -> {"pendiente", "respaldo", "hecho"}]
  BY DEF Reiniciar, FactInv, TypeOK
<1>5. TypeOK'
  BY <1>1, <1>3, <1>4, TiposJuntos DEF FactInv, TypeOK
<1>6. LotesBien' /\ FilasBien'
  BY <1>1 DEF LotesBien, LoteBien, FactInv, FilasBien, FilaBien, Existe
<1>7. ASSUME NEW p \in Procesos
      PROVE  ProcesoBien(p)'
  <2>1. copia'[p] = Nueva /\ respuesta'[p] = SinRespuesta
    BY <1>1
  <2>2. /\ p \in Peticiones => pc'[p] # "escribir"
        /\ p \notin Peticiones => pc'[p] \in {"libre", "espera", "inicio"}
    BY <1>1, <1>2
  <2>3. QED
    BY <2>1, <2>2, NuevaFila, FacturacionConstantes DEF ProcesoBien
<1>8. QED
  BY <1>5, <1>6, <1>7 DEF FactInv, ProcesosBien

LEMMA NextFactInv == FactInv /\ [Next]_vars => FactInv'
<1> SUFFICES ASSUME FactInv, [Next]_vars PROVE FactInv'
  OBVIOUS
<1>1. CASE \E v \in Ventas : Encolar(v) \/ Respaldo(v) \/ Vencer(v) \/ CronLlamar(v)
  BY <1>1, EncolarPaso, RespaldoPaso, VencerPaso, CronLlamarPaso
<1>2. CASE \E w \in Trabajadores : PasoDe(w) \/ \E v \in Ventas : Tomar(w, v)
  BY <1>2, BuscarPaso, DescartarPaso, CrearPaso, LlamarWorkerPaso, ResultadoPaso, PDFPaso,
     TomarPaso DEF PasoDe
<1>3. CASE CronLeer \/ CronAbandonar \/ CronGuardar
  BY <1>3, CronLeerPaso, CronAbandonarPaso, CronGuardarPaso
<1>4. CASE \E r \in Peticiones : Pedido(r)
  BY <1>4, LeerPaso, EscribirPaso, CancelarPaso DEF Pedido
<1>5. CASE Apagar \/ Reiniciar
  BY <1>5, ApagarPaso, ReiniciarPaso
<1>6. CASE UNCHANGED vars
  <2>1. UNCHANGED <<despacho, cola, comp, dlq, pc, venta, copia, respuesta, lote, ctx, cortes,
                    autorizados>>
    BY <1>6 DEF vars
  <2>2. TypeOK' /\ FilasBien'
    BY <2>1 DEF FactInv, TypeOK, FilasBien, FilaBien, Existe
  <2>3. QED
    BY <2>1, <2>2, SoloFilas DEF proceso
<1>7. QED
  BY <1>1, <1>2, <1>3, <1>4, <1>5, <1>6 DEF Next

\* The inductive invariant holds in every reachable state.
THEOREM FactSiempre == Spec => []FactInv
BY InitFactInv, NextFactInv, PTL DEF Spec

\* Rows, copies, batch and answers are well typed; in particular no comprobante
\* takes an estado that the CHECK of its column refuses (migration 000001:163).
THEOREM TiposCorrectos == Spec => []TypeOK
<1>1. FactInv => TypeOK
  BY DEF FactInv
<1>2. QED
  BY <1>1, FactSiempre, PTL

\* An invoice is issued exactly when it carries a CAE, although worker, cron and
\* requests save whole rows over each other (Save in comprobante_repo.go).
THEOREM EmitidoConCae == Spec => []EmitidoSiTieneCae
<1>1. FactInv => EmitidoSiTieneCae
  BY DEF FactInv, FilasBien, FilaBien, ConCae, EmitidoSiTieneCae
<1>2. QED
  BY <1>1, FactSiempre, PTL

\* A row that will be retried has attempts left, whoever wrote its counter
\* (facturacion_worker.go:341, retry_cron.go:177, facturacion_service.go:110).
THEOREM PendienteConIntentos == Spec => []PendienteTieneIntentos
<1>1. FactInv => PendienteTieneIntentos
  BY DEF FactInv, FilasBien, FilaBien, Sana, PendienteTieneIntentos
<1>2. QED
  BY <1>1, FactSiempre, PTL

-----------------------------------------------------------------------------
(* Turns.  When no request touches the comprobantes the queue, the workers, *)
(* the fallback row and the cron take turns, for any sales and workers, any *)
(* answers of AFIP, any limit of retries, database failures and shutdowns,  *)
(* forced or not; and, with requests too, what runs out of attempts is      *)
(* reported.                                                                *)

\* What the run without requests assumes: a job is pushed at most once, an LPUSH
\* that fails stored nothing, and a PDF is written before a retry falls due.
SinPeticiones ==
    /\ Peticiones = {}
    /\ RedisResponde /\ CopiasTrabajo \subseteq {0, 1}
    /\ PDFDentroDelPlazo

\* Worker w has taken the job of v; the cron has its row.
Atiende(w, v) == pc[w] # "libre" /\ venta[w] = v

EnCron(v) == v \in DOMAIN lote \/ (pc[Cron] = "guardar" /\ venta[Cron] = v)

SinTrabajador(v) == \A w \in Trabajadores : ~Atiende(w, v)

\* Until its job is taken, a sale has no row and nobody works on it.
ColaBien(v) ==
    /\ cola[v] \in {0, 1}
    /\ despacho[v] # "hecho" => cola[v] = 0
    /\ despacho[v] # "hecho" \/ cola[v] = 1 => ~Existe(v) /\ SinTrabajador(v)

\* A row with a CAE will not be retried.
ConCaeNunca(f) == f.cae # 0 => f.prox = "nunca"

FilaSegura(v) == Existe(v) => ConCaeNunca(comp[v])

\* The cron has rows without a CAE, and no worker has one of them.
CronSeguro(v) ==
    /\ EnCron(v) => Existe(v) /\ comp[v].cae = 0 /\ SinTrabajador(v)
    /\ v \in DOMAIN lote => lote[v].cae = 0

CronEnSuSitio ==
    /\ pc[Cron] \in {"espera", "lote", "guardar"}
    /\ pc[Cron] = "guardar" => copia[Cron].cae = 0 /\ venta[Cron] \notin DOMAIN lote

\* A worker works on a new row, and until it has written its PDF the row is not due.
TrabajadorSeguro(w) ==
    /\ pc[w] \in {"libre", "buscar", "crear", "ticket", "llamar", "guardar", "pdf"}
    /\ pc[w] \in {"buscar", "crear"} => ~Existe(venta[w])
    /\ pc[w] \in {"ticket", "llamar", "guardar"} => copia[w] = Nueva /\ comp[venta[w]] = Nueva
    /\ pc[w] = "pdf" =>
           /\ Existe(venta[w])
           /\ comp[venta[w]].prox # "vencido" /\ copia[w].prox # "vencido"
           /\ ConCaeNunca(copia[w])
           /\ comp[venta[w]].cae # 0 => copia[w].cae = comp[venta[w]].cae

CadaUnoLaSuya ==
    \A w, u \in Trabajadores :
        pc[w] # "libre" /\ pc[u] # "libre" /\ venta[w] = venta[u] => w = u

ColasBien == \A v \in Ventas : ColaBien(v)
FilasSeguras == \A v \in Ventas : FilaSegura(v)
CronsSeguros == \A v \in Ventas : CronSeguro(v)
TrabajadoresSeguros == \A w \in Trabajadores : TrabajadorSeguro(w)

TurnoInv ==
    /\ ColasBien /\ FilasSeguras
    /\ CronsSeguros /\ CronEnSuSitio
    /\ TrabajadoresSeguros /\ CadaUnoLaSuya

LEMMA TurnoAlEmpezar == Init => TurnoInv
<1> SUFFICES ASSUME Init PROVE TurnoInv
  OBVIOUS
<1>1. \A v \in Ventas : cola[v] = 0 /\ ~Existe(v) /\ v \notin DOMAIN lote
  BY DEF Init, Existe
<1>2. \A w \in Trabajadores : pc[w] = "libre"
  BY DEF Init, Reposo, Procesos
<1>3. pc[Cron] = "espera"
  BY EsCron DEF Init, Reposo
<1>4. ColasBien /\ FilasSeguras
  BY <1>1, <1>2 DEF ColasBien, ColaBien, SinTrabajador, Atiende, FilasSeguras, FilaSegura
<1>5. CronsSeguros /\ CronEnSuSitio
  BY <1>1, <1>3 DEF CronsSeguros, CronSeguro, CronEnSuSitio, EnCron
<1>6. TrabajadoresSeguros /\ CadaUnoLaSuya
  BY <1>2 DEF TrabajadoresSeguros, TrabajadorSeguro, CadaUnoLaSuya
<1>7. QED
  BY <1>4, <1>5, <1>6 DEF TurnoInv

-----------------------------------------------------------------------------
(* The workers. *)

\* Nobody else has the sale of a busy worker: its job left the queue, the cron has
\* not got its row, and no other worker took it.
LEMMA SoloYo ==
    ASSUME TurnoInv, NEW w \in Trabajadores, pc[w] # "libre", venta[w] \in Ventas
    PROVE  /\ despacho[venta[w]] = "hecho" /\ cola[venta[w]] = 0
           /\ ~EnCron(venta[w])
           /\ \A u \in Trabajadores \ {w} : ~Atiende(u, venta[w])
<1>1. Atiende(w, venta[w])
  BY DEF Atiende
<1>2. ColaBien(venta[w]) /\ CronSeguro(venta[w]) /\ CadaUnoLaSuya
  BY DEF TurnoInv, ColasBien, CronsSeguros
<1>3. QED
  BY <1>1, <1>2 DEF ColaBien, CronSeguro, SinTrabajador, CadaUnoLaSuya, Atiende

\* A step of a busy worker on the row of its own sale.
LEMMA DeTrabajador ==
    ASSUME TypeOK, TurnoInv, NEW w \in Trabajadores, pc[w] # "libre",
           NEW lugar, NEW f, NEW fila,
           pc' = [pc EXCEPT ![w] = lugar], copia' = [copia EXCEPT ![w] = f],
           comp' = comp \/ (comp' = [comp EXCEPT ![venta[w]] = fila] /\ ConCaeNunca(fila)),
           UNCHANGED <<despacho, cola, venta, lote>>,
           TrabajadorSeguro(w)'
    PROVE  TurnoInv'
<1> DEFINE v == venta[w]
<1>1. /\ w \in Procesos /\ w # Cron /\ Trabajadores \subseteq Procesos
      /\ pc \in [Procesos -> {"libre", "buscar", "crear", "ticket", "llamar", "guardar",
                              "pdf", "espera", "lote", "inicio", "escribir", "ok",
                              "rechazada", "error"}]
      /\ copia \in [Procesos -> Fila] /\ comp \in [Ventas -> Fila \cup {SinFila}]
      /\ v \in Ventas
  BY EsCron DEF TypeOK, Procesos
<1>2. /\ despacho[v] = "hecho" /\ cola[v] = 0 /\ ~EnCron(v)
      /\ \A u \in Trabajadores \ {w} : ~Atiende(u, v)
  BY <1>1, SoloYo
<1>3. \A u \in Procesos \ {w} : pc'[u] = pc[u] /\ venta'[u] = venta[u] /\ copia'[u] = copia[u]
  BY <1>1
<1>4. \A u \in Ventas \ {v} : comp'[u] = comp[u]
  BY <1>1
<1>5. \A x \in Trabajadores, u \in Ventas : Atiende(x, u)' => Atiende(x, u)
  BY <1>1, <1>3 DEF Atiende
<1>6. \A u \in Ventas : EnCron(u)' => EnCron(u)
  BY <1>1, <1>3, EsCron DEF EnCron
<1>7. ASSUME NEW u \in Ventas PROVE ColaBien(u)'
  <2>1. CASE u = v
    BY <1>2, <2>1 DEF ColaBien
  <2>2. CASE u # v
    <3>1. ColaBien(u) /\ comp'[u] = comp[u]
      BY <1>4, <2>2 DEF TurnoInv, ColasBien
    <3>2. QED
      BY <1>5, <3>1 DEF ColaBien, SinTrabajador, Existe
  <2>3. QED
    BY <2>1, <2>2
<1>8. ASSUME NEW u \in Ventas PROVE FilaSegura(u)'
  <2>1. FilaSegura(u) /\ (comp'[u] = comp[u] \/ (comp'[u] = fila /\ ConCaeNunca(fila)))
    BY <1>1, <1>4 DEF TurnoInv, FilasSeguras
  <2>2. QED
    BY <2>1 DEF FilaSegura, Existe, ConCaeNunca
<1>9. ASSUME NEW u \in Ventas PROVE CronSeguro(u)'
  <2>1. CASE EnCron(u)'
    <3>1. EnCron(u) /\ u # v /\ CronSeguro(u) /\ comp'[u] = comp[u]
      BY <1>2, <1>4, <1>6, <2>1 DEF TurnoInv, CronsSeguros
    <3>2. QED
      BY <1>5, <3>1 DEF CronSeguro, Existe, SinTrabajador
  <2>2. CASE ~EnCron(u)'
    BY <2>2 DEF CronSeguro, EnCron
  <2>3. QED
    BY <2>1, <2>2
<1>10. CronEnSuSitio'
  BY <1>1, <1>3, EsCron DEF TurnoInv, CronEnSuSitio
<1>11. ASSUME NEW x \in Trabajadores PROVE TrabajadorSeguro(x)'
  <2>1. CASE x = w
    BY <2>1
  <2>2. CASE x # w /\ pc[x] = "libre"
    BY <1>1, <1>3, <2>2 DEF TrabajadorSeguro
  <2>3. CASE x # w /\ pc[x] # "libre"
    <3>1. TrabajadorSeguro(x) /\ venta[x] # v /\ venta[x] \in Ventas
      BY <1>1, <1>2, <2>3 DEF TurnoInv, TrabajadoresSeguros, Atiende, TypeOK
    <3>2. /\ pc'[x] = pc[x] /\ venta'[x] = venta[x] /\ copia'[x] = copia[x]
          /\ comp'[venta[x]] = comp[venta[x]]
      BY <1>1, <1>3, <1>4, <2>3, <3>1
    <3>3. QED
      BY <3>1, <3>2 DEF TrabajadorSeguro, Existe
  <2>4. QED
    BY <2>1, <2>2, <2>3
<1>12. CadaUnoLaSuya'
  <2>1. \A x \in Trabajadores : pc'[x] # "libre" => pc[x] # "libre"
    BY <1>1, <1>3
  <2>2. QED
    BY <2>1 DEF TurnoInv, CadaUnoLaSuya
<1>13. QED
  BY <1>7, <1>8, <1>9, <1>10, <1>11, <1>12
  DEF TurnoInv, ColasBien, FilasSeguras, CronsSeguros, TrabajadoresSeguros

LEMMA NuevaNunca == Nueva.cae = 0 /\ Nueva.prox = "nunca" /\ ConCaeNunca(Nueva) /\ Nueva # SinFila
BY NuevaFila, FacturacionConstantes DEF Nueva, ConCaeNunca

\* What a worker makes of a new row is not due, nor will it be if it has a CAE.
LEMMA TrasTrabajadorNunca ==
    ASSUME NEW r
    PROVE  LET g == TrasTrabajador(Nueva, r) IN
           /\ g.prox # "vencido" /\ ConCaeNunca(g)
           /\ [Nueva EXCEPT !.estado = "emitido"].prox # "vencido"
           /\ ConCaeNunca([Nueva EXCEPT !.estado = "emitido"])
BY DEF TrasTrabajador, Aprobada, Nueva, ConCaeNunca

\* What a worker needs to be where it goes.
LEMMA BuscarTurno ==
    ASSUME TypeOK, TurnoInv, NEW w \in Trabajadores, Buscar(w) PROVE TurnoInv'
<1>1. pc[w] = "buscar" /\ ~Existe(venta[w])
  BY DEF Buscar, TurnoInv, TrabajadoresSeguros, TrabajadorSeguro
<1>2. /\ pc' = [pc EXCEPT ![w] = "crear"]
      /\ UNCHANGED <<despacho, cola, comp, venta, copia, lote>>
  BY <1>1 DEF Buscar, IrA, Existe, bd
<1>3. w \in Procesos /\ copia \in [Procesos -> Fila] /\ DOMAIN pc = Procesos
  BY DEF TypeOK, Procesos
<1>4. copia' = [copia EXCEPT ![w] = copia[w]] /\ pc'[w] = "crear"
  BY <1>2, <1>3
<1>5. TrabajadorSeguro(w)'
  BY <1>1, <1>2, <1>4 DEF TrabajadorSeguro, Existe
<1>6. QED
  BY <1>1, <1>2, <1>4, <1>5, DeTrabajador

LEMMA DescartarTurno ==
    ASSUME TypeOK, TurnoInv, NEW w \in Trabajadores, Descartar(w) PROVE TurnoInv'
<1>1. /\ pc[w] \in {"buscar", "crear"} /\ pc' = [pc EXCEPT ![w] = "libre"]
      /\ UNCHANGED <<despacho, cola, comp, venta, copia, lote>>
  BY DEF Descartar, IrA, bd
<1>2. w \in Procesos /\ copia \in [Procesos -> Fila] /\ DOMAIN pc = Procesos
  BY DEF TypeOK, Procesos
<1>3. copia' = [copia EXCEPT ![w] = copia[w]] /\ pc'[w] = "libre"
  BY <1>1, <1>2
<1>4. TrabajadorSeguro(w)'
  BY <1>3 DEF TrabajadorSeguro
<1>5. QED
  BY <1>1, <1>3, <1>4, DeTrabajador

LEMMA CrearTurno ==
    ASSUME TypeOK, TurnoInv, NEW w \in Trabajadores, Crear(w) PROVE TurnoInv'
<1>1. pc[w] = "crear" /\ ~Existe(venta[w])
  BY DEF Crear, TurnoInv, TrabajadoresSeguros, TrabajadorSeguro
<1>2. /\ pc' = [pc EXCEPT ![w] = Siguiente(w)]
      /\ comp' = [comp EXCEPT ![venta[w]] = Nueva] /\ copia' = [copia EXCEPT ![w] = Nueva]
      /\ UNCHANGED <<despacho, cola, venta, lote>>
  BY <1>1 DEF Crear, IrA, Existe
<1>3. w \in Procesos /\ DOMAIN copia = Procesos /\ DOMAIN pc = Procesos
      /\ venta[w] \in Ventas /\ DOMAIN comp = Ventas
  BY DEF TypeOK, Procesos
<1>4. /\ pc'[w] \in {"ticket", "llamar"} /\ venta'[w] = venta[w]
      /\ copia'[w] = Nueva /\ comp'[venta[w]] = Nueva
  BY <1>2, <1>3 DEF Siguiente
<1>5. TrabajadorSeguro(w)'
  BY <1>4 DEF TrabajadorSeguro
<1>6. QED
  BY <1>1, <1>2, <1>5, NuevaNunca, DeTrabajador

LEMMA LlamarTurno ==
    ASSUME TypeOK, TurnoInv, NEW w \in Trabajadores, Llamar(w) PROVE TurnoInv'
<1>1. /\ pc[w] = "llamar" /\ pc' = [pc EXCEPT ![w] = "guardar"]
      /\ UNCHANGED <<despacho, cola, comp, venta, copia, lote>>
  BY DEF Llamar, IrA, bd
<1>2. w \in Procesos /\ copia \in [Procesos -> Fila] /\ DOMAIN pc = Procesos
  BY DEF TypeOK, Procesos
<1>3. copia' = [copia EXCEPT ![w] = copia[w]] /\ pc'[w] = "guardar"
  BY <1>1, <1>2
<1>4. copia[w] = Nueva /\ comp[venta[w]] = Nueva
  BY <1>1 DEF TurnoInv, TrabajadoresSeguros, TrabajadorSeguro
<1>5. TrabajadorSeguro(w)'
  BY <1>1, <1>3, <1>4 DEF TrabajadorSeguro
<1>6. QED
  BY <1>1, <1>3, <1>5, DeTrabajador

LEMMA ResultadoTurno ==
    ASSUME TypeOK, TurnoInv, NEW w \in Trabajadores, Resultado(w) PROVE TurnoInv'
<1> DEFINE v == venta[w]
           fila == IF pc[w] = "ticket" THEN [copia[w] EXCEPT !.estado = "emitido"]
                   ELSE TrasTrabajador(copia[w], respuesta[w])
<1>1. /\ pc[w] \in {"ticket", "guardar"} /\ pc' = [pc EXCEPT ![w] = "pdf"]
      /\ copia' = [copia EXCEPT ![w] = fila]
      /\ \E llega : Guardar(v, fila, llega)
      /\ UNCHANGED <<despacho, cola, venta, lote>>
  BY DEF Resultado, IrA
<1>2. copia[w] = Nueva /\ comp[v] = Nueva
  BY <1>1 DEF TurnoInv, TrabajadoresSeguros, TrabajadorSeguro
<1>3. fila.prox # "vencido" /\ ConCaeNunca(fila)
  BY <1>2, TrasTrabajadorNunca
<1>4. fila # SinFila
  <2>1. respuesta[w] \in Respuesta /\ Nueva \in Fila
    BY NuevaFila, TiposDelProceso DEF TiposProceso, Procesos
  <2>2. TrasTrabajador(Nueva, respuesta[w]) \in Fila
    BY <2>1, FilaTrasTrabajador
  <2>3. [Nueva EXCEPT !.estado = "emitido"] \in Fila
    BY <2>1 DEF Fila, Estados
  <2>4. QED
    BY <1>2, <2>2, <2>3, FacturacionConstantes
<1> HIDE DEF fila
<1>5. comp' = comp \/ comp' = [comp EXCEPT ![v] = fila]
  BY <1>1 DEF Guardar
<1>6. w \in Procesos /\ DOMAIN copia = Procesos /\ DOMAIN pc = Procesos
      /\ v \in Ventas /\ DOMAIN comp = Ventas
  BY DEF TypeOK, Procesos
<1>7. /\ pc'[w] = "pdf" /\ venta'[w] = v /\ copia'[w] = fila
      /\ comp'[v] = Nueva \/ comp'[v] = fila
  BY <1>1, <1>2, <1>5, <1>6
<1>8. TrabajadorSeguro(w)'
  BY <1>3, <1>4, <1>7, NuevaNunca DEF TrabajadorSeguro, Existe
<1>9. QED
  BY <1>1, <1>3, <1>5, <1>8, DeTrabajador

LEMMA PDFTurno ==
    ASSUME TypeOK, TurnoInv, NEW w \in Trabajadores, PDF(w) PROVE TurnoInv'
<1>1. /\ pc[w] = "pdf" /\ pc' = [pc EXCEPT ![w] = "libre"]
      /\ copia' = [copia EXCEPT ![w] = Nueva]
      /\ comp' = comp \/ comp' = [comp EXCEPT ![venta[w]] = copia[w]]
      /\ UNCHANGED <<despacho, cola, venta, lote>>
  BY DEF PDF, Guardar, Olvidar, IrA
<1>2. ConCaeNunca(copia[w])
  BY <1>1 DEF TurnoInv, TrabajadoresSeguros, TrabajadorSeguro
<1>3. pc'[w] = "libre"
  BY <1>1 DEF TypeOK, Procesos
<1>4. TrabajadorSeguro(w)'
  BY <1>3 DEF TrabajadorSeguro
<1>5. QED
  BY <1>1, <1>2, <1>4, DeTrabajador

\* A sale whose job is in the queue has no row and nobody works on it.
LEMMA TomarTurno ==
    ASSUME TypeOK, TurnoInv, NEW w \in Trabajadores, NEW v \in Ventas, Tomar(w, v)
    PROVE  TurnoInv'
<1>1. /\ pc[w] = "libre" /\ cola[v] > 0
      /\ pc' = [pc EXCEPT ![w] = "buscar"] /\ venta' = [venta EXCEPT ![w] = v]
      /\ cola' = [cola EXCEPT ![v] = @ - 1]
      /\ UNCHANGED <<despacho, comp, copia, lote>>
  BY DEF Tomar, IrA, bd
<1>2. /\ w \in Procesos /\ w # Cron /\ Trabajadores \subseteq Procesos
      /\ DOMAIN pc = Procesos /\ DOMAIN venta = Procesos /\ DOMAIN cola = Ventas
  BY EsCron DEF TypeOK, Procesos
<1>3. ColaBien(v) /\ CronSeguro(v)
  BY DEF TurnoInv, ColasBien, CronsSeguros
<1>4. cola[v] = 1 /\ ~Existe(v) /\ SinTrabajador(v) /\ despacho[v] = "hecho" /\ ~EnCron(v)
  BY <1>1, <1>3 DEF ColaBien, CronSeguro
<1>5. /\ pc'[w] = "buscar" /\ venta'[w] = v /\ cola'[v] = 0
      /\ \A x \in Procesos \ {w} : pc'[x] = pc[x] /\ venta'[x] = venta[x]
      /\ \A u \in Ventas \ {v} : cola'[u] = cola[u]
  BY <1>1, <1>2, <1>4
<1>6. \A u \in Ventas \ {v} : SinTrabajador(u) => SinTrabajador(u)'
  BY <1>2, <1>5 DEF SinTrabajador, Atiende
<1>7. \A u \in Ventas : EnCron(u)' <=> EnCron(u)
  BY <1>1, <1>2, <1>5, EsCron DEF EnCron
<1>8. ASSUME NEW u \in Ventas PROVE ColaBien(u)'
  <2>1. CASE u = v
    BY <1>1, <1>4, <1>5, <2>1 DEF ColaBien
  <2>2. CASE u # v
    <3>1. ColaBien(u) /\ cola'[u] = cola[u] /\ despacho'[u] = despacho[u]
      BY <1>1, <1>5, <2>2 DEF TurnoInv, ColasBien
    <3>2. QED
      BY <1>1, <1>6, <2>2, <3>1 DEF ColaBien, Existe
  <2>3. QED
    BY <2>1, <2>2
<1>9. FilasSeguras'
  BY <1>1 DEF TurnoInv, FilasSeguras, FilaSegura, Existe
<1>10. ASSUME NEW u \in Ventas PROVE CronSeguro(u)'
  <2>1. CronSeguro(u) /\ (EnCron(u)' => EnCron(u) /\ u # v)
    BY <1>4, <1>7 DEF TurnoInv, CronsSeguros
  <2>2. QED
    BY <1>1, <1>6, <2>1 DEF CronSeguro, Existe
<1>11. CronEnSuSitio'
  BY <1>1, <1>2, <1>5, EsCron DEF TurnoInv, CronEnSuSitio
<1>12. ASSUME NEW x \in Trabajadores PROVE TrabajadorSeguro(x)'
  <2>1. CASE x = w
    BY <1>1, <1>4, <1>5, <2>1 DEF TrabajadorSeguro, Existe
  <2>2. CASE x # w
    <3>1. TrabajadorSeguro(x) /\ pc'[x] = pc[x] /\ venta'[x] = venta[x]
      BY <1>2, <1>5, <2>2 DEF TurnoInv, TrabajadoresSeguros
    <3>2. QED
      BY <1>1, <3>1 DEF TrabajadorSeguro, Existe
  <2>3. QED
    BY <2>1, <2>2
<1>13. CadaUnoLaSuya'
  <2>1. \A x \in Trabajadores \ {w} : pc'[x] # "libre" => venta'[x] # v
    BY <1>2, <1>4, <1>5 DEF SinTrabajador, Atiende
  <2>2. QED
    BY <1>2, <1>5, <2>1 DEF TurnoInv, CadaUnoLaSuya
<1>14. QED
  BY <1>8, <1>9, <1>10, <1>11, <1>12, <1>13
  DEF TurnoInv, ColasBien, CronsSeguros, TrabajadoresSeguros

-----------------------------------------------------------------------------
(* Dispatch and time. *)

\* A step that leaves workers and cron where they are, and changes no row that
\* either of them has.
LEMMA SinMoverse ==
    ASSUME TurnoInv, UNCHANGED <<proceso, lote>>, ColasBien', FilasSeguras',
           \A v \in Ventas : EnCron(v) => Existe(v)' /\ comp'[v].cae = 0,
           TrabajadoresSeguros'
    PROVE  TurnoInv'
<1>1. pc' = pc /\ venta' = venta /\ copia' = copia /\ lote' = lote
  BY DEF proceso
<1>2. CronsSeguros'
  BY <1>1 DEF TurnoInv, CronsSeguros, CronSeguro, EnCron, SinTrabajador, Atiende
<1>3. CronEnSuSitio' /\ CadaUnoLaSuya'
  BY <1>1 DEF TurnoInv, CronEnSuSitio, CadaUnoLaSuya
<1>4. QED
  BY <1>2, <1>3 DEF TurnoInv

\* When moreover no row changes.
LEMMA SinTocarFilas ==
    ASSUME TurnoInv, UNCHANGED <<comp, proceso, lote>>, ColasBien'
    PROVE  TurnoInv'
<1>1. pc' = pc /\ venta' = venta /\ copia' = copia /\ lote' = lote /\ comp' = comp
  BY DEF proceso
<1>2. FilasSeguras' /\ TrabajadoresSeguros'
  BY <1>1 DEF TurnoInv, FilasSeguras, FilaSegura, Existe, TrabajadoresSeguros, TrabajadorSeguro
<1>3. \A v \in Ventas : EnCron(v) => Existe(v)' /\ comp'[v].cae = 0
  BY <1>1 DEF TurnoInv, CronsSeguros, CronSeguro, Existe
<1>4. QED
  BY <1>2, <1>3, SinMoverse

LEMMA EncolarTurno ==
    ASSUME TypeOK, TurnoInv, SinPeticiones, NEW v \in Ventas, Encolar(v) PROVE TurnoInv'
<1>1. /\ despacho[v] = "pendiente"
      /\ UNCHANGED <<comp, proceso, lote>>
  BY DEF Encolar, bd
<1>2. PICK n \in {0, 1}, error \in BOOLEAN :
          /\ n = 0 => error
          /\ error => n = 0
          /\ cola' = [cola EXCEPT ![v] = n]
          /\ despacho' = [despacho EXCEPT ![v] = IF error THEN "respaldo" ELSE "hecho"]
  BY DEF Encolar, SinPeticiones
<1>3. ~Existe(v) /\ SinTrabajador(v)
  BY <1>1 DEF TurnoInv, ColasBien, ColaBien
<1>4. ASSUME NEW u \in Ventas PROVE ColaBien(u)'
  <2>1. comp' = comp /\ pc' = pc /\ venta' = venta
    BY <1>1 DEF proceso
  <2>2. CASE u = v
    <3>1. cola'[v] = n /\ despacho'[v] = IF error THEN "respaldo" ELSE "hecho"
      BY <1>2 DEF TypeOK
    <3>2. QED
      BY <1>2, <1>3, <2>1, <2>2, <3>1 DEF ColaBien, Existe, SinTrabajador, Atiende
  <2>3. CASE u # v
    <3>1. ColaBien(u) /\ cola'[u] = cola[u] /\ despacho'[u] = despacho[u]
      BY <1>2, <2>3 DEF TypeOK, TurnoInv, ColasBien
    <3>2. QED
      BY <2>1, <3>1 DEF ColaBien, Existe, SinTrabajador, Atiende
  <2>4. QED
    BY <2>2, <2>3
<1>5. QED
  BY <1>1, <1>4, SinTocarFilas DEF ColasBien

\* The fallback row is only written for a sale that nobody has.
LEMMA RespaldoTurno ==
    ASSUME TypeOK, TurnoInv, NEW v \in Ventas, Respaldo(v) PROVE TurnoInv'
<1> DEFINE fila == [Nueva EXCEPT !.prox = "futuro"]
<1>1. /\ despacho[v] = "respaldo" /\ despacho' = [despacho EXCEPT ![v] = "hecho"]
      /\ comp' = comp \/ comp' = [comp EXCEPT ![v] = fila]
      /\ UNCHANGED <<cola, proceso, lote>>
  BY DEF Respaldo, Guardar
<1>2. cola[v] = 0 /\ ~Existe(v) /\ SinTrabajador(v)
  BY <1>1 DEF TurnoInv, ColasBien, ColaBien
<1>3. pc' = pc /\ venta' = venta /\ copia' = copia /\ lote' = lote /\ cola' = cola
  BY <1>1 DEF proceso
<1>4. /\ \A u \in Ventas \ {v} : comp'[u] = comp[u] /\ despacho'[u] = despacho[u]
      /\ comp'[v] = comp[v] \/ comp'[v] = fila
      /\ despacho'[v] = "hecho"
  BY <1>1 DEF TypeOK
<1>5. ASSUME NEW u \in Ventas PROVE ColaBien(u)'
  <2>1. CASE u = v
    BY <1>2, <1>3, <1>4, <2>1 DEF ColaBien
  <2>2. CASE u # v
    <3>1. ColaBien(u) /\ comp'[u] = comp[u] /\ despacho'[u] = despacho[u]
      BY <1>4, <2>2 DEF TurnoInv, ColasBien
    <3>2. QED
      BY <1>3, <3>1 DEF ColaBien, Existe, SinTrabajador, Atiende
  <2>3. QED
    BY <2>1, <2>2
<1>6. ASSUME NEW u \in Ventas PROVE FilaSegura(u)'
  <2>1. fila.cae = 0
    BY DEF Nueva
  <2>2. FilaSegura(u) /\ (comp'[u] = comp[u] \/ comp'[u] = fila)
    BY <1>4 DEF TurnoInv, FilasSeguras
  <2>3. QED
    BY <2>1, <2>2 DEF FilaSegura, Existe, ConCaeNunca
<1>7. ASSUME NEW u \in Ventas, EnCron(u) PROVE Existe(u)' /\ comp'[u].cae = 0
  <2>1. Existe(u) /\ comp[u].cae = 0
    BY <1>7 DEF TurnoInv, CronsSeguros, CronSeguro
  <2>2. QED
    BY <1>2, <1>4, <2>1 DEF Existe
<1>8. ASSUME NEW w \in Trabajadores PROVE TrabajadorSeguro(w)'
  <2>1. TrabajadorSeguro(w) /\ venta[w] \in Ventas
    BY DEF TurnoInv, TrabajadoresSeguros, TypeOK, Procesos
  <2>2. CASE pc[w] = "libre"
    BY <1>3, <2>2 DEF TrabajadorSeguro
  <2>3. CASE pc[w] # "libre"
    <3>1. comp'[venta[w]] = comp[venta[w]]
      BY <1>2, <1>4, <2>1, <2>3 DEF SinTrabajador, Atiende
    <3>2. QED
      BY <1>3, <2>1, <3>1 DEF TrabajadorSeguro, Existe
  <2>4. QED
    BY <2>2, <2>3
<1>9. QED
  BY <1>1, <1>5, <1>6, <1>7, <1>8, SinMoverse
  DEF ColasBien, FilasSeguras, TrabajadoresSeguros

\* A retry falls due: never for a row whose PDF is being written.
LEMMA VencerTurno ==
    ASSUME TypeOK, TurnoInv, SinPeticiones, NEW v \in Ventas, Vencer(v) PROVE TurnoInv'
<1>1. /\ Existe(v) /\ comp[v].prox = "futuro"
      /\ \A w \in Trabajadores : ~(pc[w] = "pdf" /\ venta[w] = v)
      /\ comp' = [comp EXCEPT ![v].prox = "vencido"]
      /\ UNCHANGED <<despacho, cola, proceso, lote>>
  BY DEF Vencer, Existe, SinPeticiones
<1>2. pc' = pc /\ venta' = venta /\ copia' = copia /\ lote' = lote
  BY <1>1 DEF proceso
<1>3. comp[v] \in Fila /\ comp[v].cae = 0
  BY <1>1 DEF TypeOK, Existe, TurnoInv, FilasSeguras, FilaSegura, ConCaeNunca
<1>4. comp' = [comp EXCEPT ![v] = [comp[v] EXCEPT !.prox = "vencido"]]
  BY <1>1
<1>5. /\ \A u \in Ventas \ {v} : comp'[u] = comp[u]
      /\ comp'[v] = [comp[v] EXCEPT !.prox = "vencido"]
  BY <1>4 DEF TypeOK
<1>6. comp'[v].cae = 0 /\ comp'[v] # SinFila
  <2>1. comp'[v].cae = 0 /\ comp'[v] \in Fila
    BY <1>3, <1>5 DEF Fila
  <2>2. QED
    BY <2>1, FacturacionConstantes
<1>7. \A u \in Ventas : Existe(u)' <=> Existe(u)
  BY <1>1, <1>5, <1>6 DEF Existe
<1>8. ColasBien'
  BY <1>1, <1>2, <1>7 DEF TurnoInv, ColasBien, ColaBien, SinTrabajador, Atiende
<1>9. ASSUME NEW u \in Ventas PROVE FilaSegura(u)'
  BY <1>5, <1>6 DEF TurnoInv, FilasSeguras, FilaSegura, ConCaeNunca, Existe
<1>10. ASSUME NEW u \in Ventas, EnCron(u) PROVE Existe(u)' /\ comp'[u].cae = 0
  BY <1>5, <1>6, <1>7, <1>10 DEF TurnoInv, CronsSeguros, CronSeguro
<1>11. ASSUME NEW w \in Trabajadores PROVE TrabajadorSeguro(w)'
  <2>1. TrabajadorSeguro(w) /\ venta[w] \in Ventas
    BY DEF TurnoInv, TrabajadoresSeguros, TypeOK, Procesos
  <2>2. CASE venta[w] = v
    <3>1. pc[w] \notin {"buscar", "crear", "ticket", "llamar", "guardar", "pdf"}
      BY <1>1, <2>1, <2>2, NuevaNunca DEF TrabajadorSeguro
    <3>2. QED
      BY <1>2, <2>1, <3>1 DEF TrabajadorSeguro
  <2>3. CASE venta[w] # v
    <3>1. comp'[venta[w]] = comp[venta[w]]
      BY <1>5, <2>1, <2>3
    <3>2. QED
      BY <1>2, <2>1, <3>1 DEF TrabajadorSeguro, Existe
  <2>4. QED
    BY <2>2, <2>3
<1>12. QED
  BY <1>1, <1>8, <1>9, <1>10, <1>11, SinMoverse DEF FilasSeguras, TrabajadoresSeguros

-----------------------------------------------------------------------------
(* The cron, and shutdown. *)

\* A step of the cron, which may write the row of v when it had it, and has only
\* rows without a CAE and without a worker afterwards.
LEMMA DelCron ==
    ASSUME TypeOK, TurnoInv, NEW lugar, NEW f, NEW fila, NEW v \in Ventas,
           pc' = [pc EXCEPT ![Cron] = lugar], copia' = [copia EXCEPT ![Cron] = f],
           \A u \in Procesos \ {Cron} : venta'[u] = venta[u],
           \/ comp' = comp
           \/ /\ comp' = [comp EXCEPT ![v] = fila] /\ EnCron(v)
              /\ fila # SinFila /\ ConCaeNunca(fila),
           UNCHANGED <<despacho, cola>>,
           CronEnSuSitio',
           \A u \in Ventas :
               /\ EnCron(u)' => Existe(u)' /\ comp'[u].cae = 0 /\ SinTrabajador(u)
               /\ u \in DOMAIN lote' => lote'[u].cae = 0
    PROVE  TurnoInv'
<1>1. /\ Cron \in Procesos /\ Cron \notin Trabajadores /\ Trabajadores \subseteq Procesos
      /\ DOMAIN pc = Procesos /\ DOMAIN copia = Procesos /\ DOMAIN comp = Ventas
      /\ \A w \in Trabajadores : venta[w] \in Ventas
  BY EsCron DEF TypeOK, Procesos
<1>2. \A w \in Trabajadores : pc'[w] = pc[w] /\ venta'[w] = venta[w] /\ copia'[w] = copia[w]
  BY <1>1
<1>3. \A u \in Ventas : SinTrabajador(u)' <=> SinTrabajador(u)
  BY <1>2 DEF SinTrabajador, Atiende
<1>4. \A u \in Ventas : comp'[u] = comp[u] \/ (u = v /\ EnCron(v) /\ comp'[u] = fila
                                              /\ fila # SinFila /\ ConCaeNunca(fila))
  BY <1>1
<1>5. \A u \in Ventas : Existe(u)' <=> Existe(u)
  BY <1>4 DEF Existe, TurnoInv, CronsSeguros, CronSeguro
<1>6. ColasBien'
  BY <1>3, <1>5 DEF TurnoInv, ColasBien, ColaBien
<1>7. FilasSeguras'
  BY <1>4 DEF TurnoInv, FilasSeguras, FilaSegura, Existe
<1>8. CronsSeguros'
  BY <1>3 DEF CronsSeguros, CronSeguro
<1>9. ASSUME NEW w \in Trabajadores PROVE TrabajadorSeguro(w)'
  <2>1. TrabajadorSeguro(w) /\ venta[w] \in Ventas
    BY <1>1 DEF TurnoInv, TrabajadoresSeguros
  <2>2. CASE pc[w] = "libre"
    BY <1>2, <2>2 DEF TrabajadorSeguro
  <2>3. CASE pc[w] # "libre"
    <3>1. ~EnCron(venta[w])
      BY <2>1, <2>3, SoloYo
    <3>2. comp'[venta[w]] = comp[venta[w]]
      BY <1>4, <2>1, <3>1
    <3>3. QED
      BY <1>2, <2>1, <3>2 DEF TrabajadorSeguro, Existe
  <2>4. QED
    BY <2>2, <2>3
<1>10. CadaUnoLaSuya'
  BY <1>2 DEF TurnoInv, CadaUnoLaSuya
<1>11. QED
  BY <1>6, <1>7, <1>8, <1>9, <1>10 DEF TurnoInv, TrabajadoresSeguros

\* A row that is due is not the row of any worker.
LEMMA VencidaSola ==
    ASSUME TypeOK, TurnoInv, NEW v \in Ventas, Vencida(v)
    PROVE  Existe(v) /\ comp[v].cae = 0 /\ SinTrabajador(v)
<1>1. Existe(v) /\ comp[v].prox = "vencido" /\ comp[v].cae = 0
  BY DEF Vencida, Existe, TurnoInv, FilasSeguras, FilaSegura, ConCaeNunca
<1>2. ASSUME NEW w \in Trabajadores, Atiende(w, v) PROVE FALSE
  BY <1>1, <1>2, NuevaNunca DEF TurnoInv, TrabajadoresSeguros, TrabajadorSeguro, Atiende
<1>3. QED
  BY <1>1, <1>2 DEF SinTrabajador

LEMMA CronLeerTurno ==
    ASSUME TypeOK, TurnoInv, CronLeer PROVE TurnoInv'
<1>1. /\ pc' = [pc EXCEPT ![Cron] = "lote"]
      /\ lote' = [v \in {u \in Ventas : Vencida(u)} |-> comp[v]]
      /\ UNCHANGED <<despacho, cola, comp, venta, copia>>
  BY DEF CronLeer, IrA, bd
<1>2. pc'[Cron] = "lote" /\ copia' = [copia EXCEPT ![Cron] = copia[Cron]]
  BY <1>1, EsCron DEF TypeOK
<1>3. CronEnSuSitio'
  BY <1>2 DEF CronEnSuSitio
<1>4. ASSUME NEW u \in Ventas
      PROVE  /\ EnCron(u)' => Existe(u)' /\ comp'[u].cae = 0 /\ SinTrabajador(u)
             /\ u \in DOMAIN lote' => lote'[u].cae = 0
  <2>1. EnCron(u)' => u \in DOMAIN lote'
    BY <1>2 DEF EnCron
  <2>2. u \in DOMAIN lote' => Vencida(u) /\ lote'[u] = comp[u]
    BY <1>1
  <2>3. QED
    BY <1>1, <2>1, <2>2, VencidaSola DEF Existe
<1>5. PICK v \in Ventas : TRUE
  BY FacturacionConstantes
<1>6. QED
  BY <1>1, <1>2, <1>3, <1>4, DelCron

LEMMA CronAbandonarTurno ==
    ASSUME TypeOK, TurnoInv, CronAbandonar PROVE TurnoInv'
<1>1. /\ pc' = [pc EXCEPT ![Cron] = "espera"] /\ DOMAIN lote' = {}
      /\ UNCHANGED <<despacho, cola, comp, venta, copia>>
  BY DEF CronAbandonar, IrA, bd
<1>2. pc'[Cron] = "espera" /\ copia' = [copia EXCEPT ![Cron] = copia[Cron]]
  BY <1>1, EsCron DEF TypeOK
<1>3. CronEnSuSitio'
  BY <1>2 DEF CronEnSuSitio
<1>4. \A u \in Ventas : ~EnCron(u)' /\ u \notin DOMAIN lote'
  BY <1>1, <1>2 DEF EnCron
<1>5. PICK v \in Ventas : TRUE
  BY FacturacionConstantes
<1>6. QED
  BY <1>1, <1>2, <1>3, <1>4, DelCron

LEMMA CronLlamarTurno ==
    ASSUME TypeOK, TurnoInv, NEW v \in Ventas, CronLlamar(v) PROVE TurnoInv'
<1>1. /\ pc[Cron] = "lote" /\ v \in DOMAIN lote
      /\ pc' = [pc EXCEPT ![Cron] = "guardar"] /\ venta' = [venta EXCEPT ![Cron] = v]
      /\ copia' = [copia EXCEPT ![Cron] = lote[v]]
      /\ lote' = [u \in DOMAIN lote \ {v} |-> lote[u]]
      /\ UNCHANGED <<despacho, cola, comp>>
  BY DEF CronLlamar, IrA, bd
<1>2. /\ pc'[Cron] = "guardar" /\ venta'[Cron] = v /\ copia'[Cron] = lote[v]
      /\ \A u \in Procesos \ {Cron} : venta'[u] = venta[u]
  BY <1>1, EsCron DEF TypeOK
<1>3. \A u \in Ventas : (EnCron(u)' => EnCron(u)) /\ CronSeguro(u)
  BY <1>1, <1>2 DEF EnCron, TurnoInv, CronsSeguros
<1>4. CronEnSuSitio'
  BY <1>1, <1>2, <1>3 DEF CronEnSuSitio, CronSeguro
<1>5. \A u \in Ventas :
          /\ EnCron(u)' => Existe(u)' /\ comp'[u].cae = 0 /\ SinTrabajador(u)
          /\ u \in DOMAIN lote' => lote'[u].cae = 0
  BY <1>1, <1>3 DEF CronSeguro, Existe
<1>6. QED
  BY <1>1, <1>2, <1>4, <1>5, DelCron

\* What the cron makes of a row without a CAE.
LEMMA TrasCronNunca ==
    ASSUME NEW f \in Fila, f.cae = 0, NEW r \in Respuesta
    PROVE  ConCaeNunca(TrasCron(f, r)) /\ TrasCron(f, r) # SinFila
<1>1. TrasCron(f, r) # SinFila
  BY FilaTrasCron, FacturacionConstantes
<1>2. ConCaeNunca(TrasCron(f, r))
  BY DEF TrasCron, Aprobada, Fila, ConCaeNunca
<1>3. QED
  BY <1>1, <1>2

LEMMA CronGuardarTurno ==
    ASSUME TypeOK, TurnoInv, CronGuardar PROVE TurnoInv'
<1> DEFINE v == venta[Cron]
           fila == TrasCron(copia[Cron], respuesta[Cron])
<1>1. /\ pc[Cron] = "guardar" /\ \E llega : Guardar(v, fila, llega)
      /\ pc' = [pc EXCEPT ![Cron] = IF DOMAIN lote = {} THEN "espera" ELSE "lote"]
      /\ copia' = [copia EXCEPT ![Cron] = Nueva]
      /\ UNCHANGED <<despacho, cola, venta, lote>>
  BY DEF CronGuardar, Olvidar, IrA
<1>2. /\ v \in Ventas /\ copia[Cron] \in Fila /\ respuesta[Cron] \in Respuesta
      /\ copia[Cron].cae = 0 /\ v \notin DOMAIN lote /\ EnCron(v)
  BY <1>1, EsCron, TiposDelProceso DEF TiposProceso, TurnoInv, CronEnSuSitio, EnCron
<1>3. fila # SinFila /\ ConCaeNunca(fila)
  BY <1>2, TrasCronNunca
<1> HIDE DEF fila
<1>4. comp' = comp \/ comp' = [comp EXCEPT ![v] = fila]
  BY <1>1 DEF Guardar
<1>5. pc'[Cron] \in {"espera", "lote"}
  BY <1>1, EsCron DEF TypeOK
<1>6. CronEnSuSitio'
  BY <1>5 DEF CronEnSuSitio
<1>7. ASSUME NEW u \in Ventas
      PROVE  /\ EnCron(u)' => Existe(u)' /\ comp'[u].cae = 0 /\ SinTrabajador(u)
             /\ u \in DOMAIN lote' => lote'[u].cae = 0
  <2>1. CronSeguro(u) /\ lote' = lote
    BY <1>1 DEF TurnoInv, CronsSeguros
  <2>2. EnCron(u)' => EnCron(u) /\ u # v
    BY <1>1, <1>2, <1>5 DEF EnCron
  <2>3. u # v => comp'[u] = comp[u]
    BY <1>4 DEF TypeOK
  <2>4. QED
    BY <2>1, <2>2, <2>3 DEF CronSeguro, Existe
<1>8. QED
  BY <1>1, <1>2, <1>3, <1>4, <1>6, <1>7, DelCron

\* After a restart nobody has a sale: what was under way is lost, and with it its turn.
LEMMA ReiniciarTurno ==
    ASSUME TypeOK, TurnoInv, Reiniciar PROVE TurnoInv'
<1>1. /\ pc' = [p \in Procesos |->
                   IF p \in Peticiones /\ pc[p] = "escribir" THEN "error"
                   ELSE IF p \in Peticiones THEN pc[p] ELSE Reposo(p)]
      /\ DOMAIN lote' = {}
      /\ despacho' = [v \in Ventas |->
                         IF despacho[v] = "respaldo" THEN "hecho" ELSE despacho[v]]
      /\ UNCHANGED <<cola, comp, venta>>
  BY DEF Reiniciar, bd
<1>2. \A w \in Trabajadores : pc'[w] = "libre"
  BY <1>1, FacturacionConstantes DEF Procesos, Reposo
<1>3. pc'[Cron] = "espera"
  BY <1>1, EsCron DEF Reposo
<1>4. ASSUME NEW v \in Ventas PROVE ColaBien(v)'
  <2>1. ColaBien(v) /\ SinTrabajador(v)'
    BY <1>2 DEF TurnoInv, ColasBien, SinTrabajador, Atiende
  <2>2. despacho'[v] # "hecho" => despacho[v] # "hecho"
    BY <1>1
  <2>3. QED
    BY <1>1, <2>1, <2>2 DEF ColaBien, Existe
<1>5. FilasSeguras'
  BY <1>1 DEF TurnoInv, FilasSeguras, FilaSegura, Existe
<1>6. CronsSeguros' /\ CronEnSuSitio'
  BY <1>1, <1>3 DEF CronsSeguros, CronSeguro, CronEnSuSitio, EnCron
<1>7. TrabajadoresSeguros' /\ CadaUnoLaSuya'
  BY <1>2 DEF TrabajadoresSeguros, TrabajadorSeguro, CadaUnoLaSuya
<1>8. QED
  BY <1>4, <1>5, <1>6, <1>7 DEF TurnoInv, ColasBien

LEMMA TurnoSigue ==
    ASSUME SinPeticiones, TypeOK, TurnoInv, [Next]_vars
    PROVE  TurnoInv'
<1>1. ASSUME NEW v \in Ventas, Encolar(v) \/ Respaldo(v) \/ Vencer(v) \/ CronLlamar(v)
      PROVE  TurnoInv'
  BY <1>1, EncolarTurno, RespaldoTurno, VencerTurno, CronLlamarTurno
<1>2. ASSUME NEW w \in Trabajadores, PasoDe(w) PROVE TurnoInv'
  BY <1>2, BuscarTurno, DescartarTurno, CrearTurno, LlamarTurno, ResultadoTurno, PDFTurno
  DEF PasoDe
<1>3. ASSUME NEW w \in Trabajadores, NEW v \in Ventas, Tomar(w, v) PROVE TurnoInv'
  BY <1>3, TomarTurno
<1>4. CASE CronLeer \/ CronAbandonar \/ CronGuardar
  BY <1>4, CronLeerTurno, CronAbandonarTurno, CronGuardarTurno
<1>5. CASE Apagar
  <2>1. UNCHANGED <<comp, proceso, lote>> /\ cola' = cola /\ despacho' = despacho
    BY <1>5 DEF Apagar, bd
  <2>2. ColasBien'
    BY <2>1 DEF proceso, TurnoInv, ColasBien, ColaBien, Existe, SinTrabajador, Atiende
  <2>3. QED
    BY <2>1, <2>2, SinTocarFilas
<1>6. CASE Reiniciar
  BY <1>6, ReiniciarTurno
<1>7. CASE UNCHANGED vars
  <2>1. UNCHANGED <<comp, proceso, lote>> /\ cola' = cola /\ despacho' = despacho
    BY <1>7 DEF vars, proceso
  <2>2. ColasBien'
    BY <2>1 DEF proceso, TurnoInv, ColasBien, ColaBien, Existe, SinTrabajador, Atiende
  <2>3. QED
    BY <2>1, <2>2, SinTocarFilas
<1>8. ASSUME NEW r \in Peticiones, Pedido(r) PROVE TurnoInv'
  BY <1>8 DEF SinPeticiones
<1>9. QED
  BY <1>1, <1>2, <1>3, <1>4, <1>5, <1>6, <1>7, <1>8 DEF Next

LEMMA TurnoSiempre ==
    ASSUME SinPeticiones
    PROVE  Spec => []TurnoInv
<1>1. TypeOK /\ TurnoInv /\ [Next]_vars => TurnoInv'
  BY TurnoSigue
<1>2. QED
  BY <1>1, TurnoAlEmpezar, TiposCorrectos, PTL DEF Spec

-----------------------------------------------------------------------------

\* Of the processes that ask AFIP for a sale, a worker excludes everybody else.
LEMMA UnoSolo ==
    ASSUME TypeOK, TurnoInv, NEW v \in Ventas,
           NEW p \in Trabajadores \cup {Cron}, NEW q \in Trabajadores \cup {Cron},
           ConAFIP(p, v), ConAFIP(q, v)
    PROVE  p = q
<1>1. \A w \in Trabajadores : ConAFIP(w, v) => Atiende(w, v)
  BY EsCron DEF ConAFIP, Atiende
<1>2. ConAFIP(Cron, v) => EnCron(v)
  BY DEF ConAFIP, EnCron, TurnoInv, CronEnSuSitio
<1>3. ASSUME NEW w \in Trabajadores, Atiende(w, v)
      PROVE  ~EnCron(v) /\ \A u \in Trabajadores \ {w} : ~Atiende(u, v)
  BY <1>3, SoloYo DEF Atiende
<1>4. QED
  BY <1>1, <1>2, <1>3

(***************************************************************************)
(* Nobody asks AFIP for a sale while somebody else does, although worker,  *)
(* fallback row and cron hand it over through the queue and next_retry_at  *)
(* alone, without a lock (facturacion_worker.go:139, venta_service.go:341, *)
(* retry_cron.go:94), and whatever writes fail or shutdowns happen.        *)
(***************************************************************************)
THEOREM UnaLlamadaSiempre ==
    ASSUME SinPeticiones
    PROVE  Spec => []UnaLlamadaPorVenta
<1>1. TypeOK /\ TurnoInv => UnaLlamadaPorVenta
  BY UnoSolo DEF UnaLlamadaPorVenta
<1>2. QED
  BY <1>1, TurnoSiempre, TiposCorrectos, PTL

-----------------------------------------------------------------------------

\* What CaeEsPermanente asks of the row of v.
Conserva(v) ==
    Existe(v) /\ comp[v].cae # 0 => Existe(v)' /\ comp'[v].cae = comp[v].cae

LEMMA SinEscribir == ASSUME UNCHANGED comp PROVE \A v \in Ventas : Conserva(v)
BY DEF Conserva, Existe

\* A process writes one row: one that has no CAE, or has the same.
LEMMA EscribirUna ==
    ASSUME TypeOK, NEW u \in Ventas, NEW fila,
           comp' = comp \/ comp' = [comp EXCEPT ![u] = fila],
           Existe(u) /\ comp[u].cae # 0 => fila # SinFila /\ fila.cae = comp[u].cae
    PROVE  \A v \in Ventas : Conserva(v)
BY DEF TypeOK, Conserva, Existe

LEMMA ConservaTrabajador ==
    ASSUME SinPeticiones, TypeOK, TurnoInv, NEW w \in Trabajadores, PasoDe(w)
    PROVE  \A v \in Ventas : Conserva(v)
<1>1. TrabajadorSeguro(w) /\ venta[w] \in Ventas /\ copia[w] \in Fila
  BY DEF TurnoInv, TrabajadoresSeguros, TypeOK, Procesos
<1>2. CASE Buscar(w) \/ Descartar(w) \/ Llamar(w)
  BY <1>2, SinEscribir DEF Buscar, Descartar, Llamar, bd
<1>3. CASE Crear(w)
  <2>1. ~Existe(venta[w])
    BY <1>1, <1>3 DEF Crear, TrabajadorSeguro
  <2>2. comp' = comp \/ comp' = [comp EXCEPT ![venta[w]] = Nueva]
    BY <1>3 DEF Crear
  <2>3. QED
    BY <1>1, <2>1, <2>2, EscribirUna
<1>4. CASE Resultado(w)
  <2>1. PICK fila : \E llega : Guardar(venta[w], fila, llega)
    BY <1>4 DEF Resultado
  <2>2. comp' = comp \/ comp' = [comp EXCEPT ![venta[w]] = fila]
    BY <2>1 DEF Guardar
  <2>3. comp[venta[w]].cae = 0
    BY <1>1, <1>4, NuevaNunca DEF Resultado, TrabajadorSeguro
  <2>4. QED
    BY <1>1, <2>2, <2>3, EscribirUna
<1>5. CASE PDF(w)
  <2>1. comp' = comp \/ comp' = [comp EXCEPT ![venta[w]] = copia[w]]
    BY <1>5 DEF PDF, Guardar
  <2>2. copia[w] # SinFila /\ (comp[venta[w]].cae # 0 => copia[w].cae = comp[venta[w]].cae)
    BY <1>1, <1>5, FacturacionConstantes DEF PDF, TrabajadorSeguro
  <2>3. QED
    BY <1>1, <2>1, <2>2, EscribirUna
<1>6. QED
  BY <1>2, <1>3, <1>4, <1>5 DEF PasoDe

LEMMA ConservaPaso ==
    ASSUME SinPeticiones, TypeOK, TurnoInv, [Next]_vars
    PROVE  \A v \in Ventas : Conserva(v)
<1>1. ASSUME NEW u \in Ventas, Encolar(u) \/ CronLlamar(u)
      PROVE  \A v \in Ventas : Conserva(v)
  BY <1>1, SinEscribir DEF Encolar, CronLlamar, bd
<1>2. ASSUME NEW u \in Ventas, Respaldo(u) PROVE \A v \in Ventas : Conserva(v)
  <2>1. ~Existe(u)
    BY <1>2 DEF Respaldo, TurnoInv, ColasBien, ColaBien
  <2>2. comp' = comp \/ comp' = [comp EXCEPT ![u] = [Nueva EXCEPT !.prox = "futuro"]]
    BY <1>2 DEF Respaldo, Guardar
  <2>3. QED
    BY <2>1, <2>2, EscribirUna
<1>3. ASSUME NEW u \in Ventas, Vencer(u) PROVE \A v \in Ventas : Conserva(v)
  <2>1. comp[u].cae = 0 /\ comp' = [comp EXCEPT ![u] = [comp[u] EXCEPT !.prox = "vencido"]]
    BY <1>3 DEF Vencer, TurnoInv, FilasSeguras, FilaSegura, ConCaeNunca, Existe
  <2>2. QED
    BY <2>1, EscribirUna
<1>4. ASSUME NEW w \in Trabajadores, NEW u \in Ventas, Tomar(w, u)
      PROVE  \A v \in Ventas : Conserva(v)
  BY <1>4, SinEscribir DEF Tomar, bd
<1>5. CASE CronLeer \/ CronAbandonar \/ Apagar \/ Reiniciar \/ UNCHANGED vars
  BY <1>5, SinEscribir DEF CronLeer, CronAbandonar, Apagar, Reiniciar, bd, vars
<1>6. CASE CronGuardar
  <2>1. PICK fila : \E llega : Guardar(venta[Cron], fila, llega)
    BY <1>6 DEF CronGuardar
  <2>2. comp' = comp \/ comp' = [comp EXCEPT ![venta[Cron]] = fila]
    BY <2>1 DEF Guardar
  <2>3. venta[Cron] \in Ventas /\ EnCron(venta[Cron])
    BY <1>6, EsCron DEF CronGuardar, EnCron, TypeOK
  <2>4. comp[venta[Cron]].cae = 0
    BY <2>3 DEF TurnoInv, CronsSeguros, CronSeguro
  <2>5. QED
    BY <2>2, <2>3, <2>4, EscribirUna
<1>7. ASSUME NEW r \in Peticiones, Pedido(r) PROVE \A v \in Ventas : Conserva(v)
  BY <1>7 DEF SinPeticiones
<1>8. QED
  BY <1>1, <1>2, <1>3, <1>4, <1>5, <1>6, <1>7, ConservaTrabajador DEF Next

(***************************************************************************)
(* A recorded CAE is never lost or replaced, although workers and cron     *)
(* save whole rows from copies they read long before (comprobante_repo.go: *)
(* Save), whatever writes fail and wherever a shutdown cuts.               *)
(***************************************************************************)
THEOREM CaePermanente ==
    ASSUME SinPeticiones
    PROVE  Spec => CaeEsPermanente
<1>1. TypeOK /\ TurnoInv /\ [Next]_vars =>
          [\A v \in Ventas :
               Existe(v) /\ comp[v].cae # 0 => Existe(v)' /\ comp'[v].cae = comp[v].cae]_vars
  BY ConservaPaso DEF Conserva
<1>2. QED
  BY <1>1, TurnoSiempre, TiposCorrectos, PTL DEF Spec, CaeEsPermanente
=============================================================================
