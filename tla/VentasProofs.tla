---------------------------- MODULE VentasProofs ----------------------------
(***************************************************************************)
(* Proofs about Ventas, for any products, links, initial stock, set of     *)
(* requests and workloads.                                                 *)
(***************************************************************************)
EXTENDS Ventas, SequenceTheorems, Sumas

ConLineas(r) == Tipo(r) \in {"venta", "anular", "desarme"}

\* Where r may be, and at which item.
Lugar(r) ==
    /\ pc[r] \in {"validar", "bloqueo", "insertar", "leer", "decidir", "despachar"}
           => EsVenta(r)
    /\ pc[r] \in {"padre", "hijo"} => Tipo(r) \in {"venta", "desarme"}
    /\ pc[r] = "restaurar" => Tipo(r) = "anular"
    /\ pc[r] = "confirmar" => ConLineas(r)
    /\ pc[r] = "aplicar" => Tipo(r) \in {"ajuste", "editar"}
    /\ pc[r] = "padre" => padres[r] > 0
    /\ pc[r] \in {"padre", "hijo"} /\ padres[r] > 0 => Prod(r) \in DOMAIN Vinculo
    /\ ConLineas(r) => linea[r] \in DOMAIN Items(r)

Forma == \A r \in Peticiones : Lugar(r)

\* Whoever has changed a row holds it.
Candados ==
    \A r \in Peticiones, p \in Productos : delta[r][p] # 0 => candado[p] = r

\* Line i of r is locked, with stock for it.
Tiene(r, i) ==
    /\ candado[Items(r)[i].p] = r
    /\ Visible(r, Items(r)[i].p) >= Items(r)[i].n

\* Line i of r is locked, and has been deducted.
Descontada(r, i) ==
    /\ candado[Items(r)[i].p] = r
    /\ Visible(r, Items(r)[i].p) >= 0

\* What an on-line sale with distinct products has secured so far.
ReservaDe(r) ==
    EnLinea(r) /\ LineasDistintas(r) =>
        /\ pc[r] # "padre"
        /\ pc[r] = "bloqueo" => \A i \in DOMAIN Items(r) : i < linea[r] => Tiene(r, i)
        /\ pc[r] \in {"insertar", "leer", "decidir", "hijo"} =>
               \A i \in DOMAIN Items(r) :
                   IF i < linea[r] THEN Descontada(r, i) ELSE Tiene(r, i)
        /\ pc[r] \in {"decidir", "hijo"} => leido[r].stock = Visible(r, Prod(r))
        /\ pc[r] = "hijo" => padres[r] = 0
        /\ pc[r] = "confirmar" => \A i \in DOMAIN Items(r) : Descontada(r, i)

Reserva == \A r \in Peticiones : ReservaDe(r)

Exacto(m) ==
    m.tipo = "restore_anulacion"
    \/ (m.tipo = "venta" /\ EnLinea(m.ref) /\ LineasDistintas(m.ref))
        => m.antes + m.cantidad = m.tras

Exactos ==
    /\ \A m \in movs : Exacto(m)
    /\ \A r \in Peticiones : \A m \in movsTx[r] : Exacto(m)

\* The sale row of r exists, committed or not.
Ocupa(r) == Insertada(r) \/ ventas[r] # Nada

\* A row for each offline_id, and a sale behind every void.
UnicaFila ==
    /\ \A r, q \in Peticiones : MismaClave(r, q) => ~(Ocupa(r) /\ Ocupa(q))
    /\ \A r \in Peticiones :
           Tipo(r) = "anular" /\ pc[r] \in {"restaurar", "confirmar"}
               => ventas[operacion[r].venta] # Nada

\* A sale has its row when its transaction is over, and its payments while it stands.
Pagos ==
    /\ \A r \in Peticiones : caja[r] = IF ventas[r] = "completada" THEN 1 ELSE 0
    /\ \A r \in Peticiones :
           EsVenta(r) /\ pc[r] \notin Final \cup {"despachar"} => ventas[r] = Nada
    /\ \A r \in Peticiones :
           Tipo(r) = "anular" /\ pc[r] \in {"restaurar", "confirmar"}
               => ventas[operacion[r].venta] = "completada"

-----------------------------------------------------------------------------
(* What the workloads guarantee. *)

LEMMA OperacionForma ==
    ASSUME operacion \in Cargas, NEW r \in Peticiones
    PROVE  /\ operacion[r] \in Operaciones
           /\ Tipo(r) = "anular" =>
                  /\ operacion[r].venta \in Peticiones
                  /\ Tipo(operacion[r].venta) = "venta"
           /\ Tipo(r) \in {"ajuste", "editar"} => operacion[r].p \in Productos
           /\ Tipo(r) = "ajuste" => operacion[r].delta \in Int
           /\ Tipo(r) = "desarme" =>
                  /\ operacion[r].hijo \in DOMAIN Vinculo
                  /\ operacion[r].padres \in Nat \ {0}
<1>1. operacion[r] \in Operaciones
  BY CargasValidas
<1>2. /\ Tipo(r) = "anular" => operacion[r].venta \in Peticiones
      /\ Tipo(r) \in {"ajuste", "editar"} => operacion[r].p \in Productos
      /\ Tipo(r) = "ajuste" => operacion[r].delta \in Int
      /\ Tipo(r) = "desarme" =>
             /\ operacion[r].hijo \in DOMAIN Vinculo
             /\ operacion[r].padres \in Nat \ {0}
  BY <1>1 DEF Operaciones, Tipo
<1>3. QED
  BY <1>1, <1>2, CargasValidas DEF Tipo

LEMMA ItemsForma ==
    ASSUME operacion \in Cargas, NEW r \in Peticiones, ConLineas(r)
    PROVE  /\ Len(Items(r)) \in Nat \ {0}
           /\ DOMAIN Items(r) = 1..Len(Items(r))
           /\ \A i \in DOMAIN Items(r) : Items(r)[i].p \in Productos /\ Items(r)[i].n \in Nat
<1>1. ASSUME NEW v \in Peticiones, Tipo(v) = "venta"
      PROVE  operacion[v].items \in Seq([p : Productos, n : Nat \ {0}]) \ {<<>>}
  <2>1. operacion[v] \in Operaciones
    BY OperacionForma
  <2>2. QED
    BY <1>1, <2>1 DEF Operaciones, Tipo
<1>2. CASE Tipo(r) \in {"venta", "anular"}
  <2> DEFINE Lineas == [p : Productos, n : Nat \ {0}]
  <2>1. Items(r) \in Seq(Lineas) /\ Items(r) # <<>>
    BY <1>1, <1>2, OperacionForma DEF Items, EsVenta
  <2> HIDE DEF Lineas
  <2>2. Len(Items(r)) \in Nat \ {0}
    BY <2>1, EmptySeq
  <2>3. DOMAIN Items(r) = 1..Len(Items(r))
    BY <2>1, LenProperties
  <2>4. \A i \in DOMAIN Items(r) : Items(r)[i] \in Lineas
    BY <2>1, <2>3, ElementOfSeq
  <2>5. QED
    BY <2>2, <2>3, <2>4 DEF Lineas
<1>3. CASE Tipo(r) = "desarme"
  <2>1. operacion[r].hijo \in Productos
    BY <1>3, OperacionForma, VinculosValidos DEF Operaciones, Tipo
  <2>2. QED
    BY <1>3, <2>1 DEF Items, EsVenta
<1>4. QED
  BY <1>2, <1>3 DEF ConLineas

\* The line a request is at.
LEMMA LineaForma ==
    ASSUME operacion \in Cargas, NEW r \in Peticiones, ConLineas(r),
           linea[r] \in DOMAIN Items(r)
    PROVE  /\ Prod(r) \in Productos
           /\ Cant(r) \in Nat
           /\ linea[r] \in 1..Len(Items(r))
BY ItemsForma DEF Prod, Cant

-----------------------------------------------------------------------------
(* Types, and where each request may be. *)

LEMMA MismaOperacion ==
    ASSUME NEW r \in Peticiones, Paso(r) \/ Fallo(r)
    PROVE  /\ operacion' = operacion
           /\ \A q : /\ Tipo(q)' = Tipo(q)
                     /\ EsVenta(q)' = EsVenta(q)
                     /\ EnLinea(q)' = EnLinea(q)
                     /\ ConLineas(q)' = ConLineas(q)
                     /\ Items(q)' = Items(q)
BY DEF Paso, Fallo, Tipo, EsVenta, EnLinea, ConLineas, Items

LEMMA SoltarTipos ==
    ASSUME TypeOK, NEW r \in Peticiones, Soltar(r)
    PROVE  /\ candado' \in [Productos -> Peticiones \cup {Nada}]
           /\ delta' \in [Peticiones -> [Productos -> Int]]
           /\ movsTx' \in [Peticiones -> SUBSET Mov]
BY DEF TypeOK, Soltar

\* What r works with is typed.
LEMMA Valores ==
    ASSUME TypeOK, NEW r \in Peticiones, Lugar(r), ConLineas(r)
    PROVE  /\ Prod(r) \in Productos /\ Cant(r) \in Nat
           /\ Len(Items(r)) \in Nat \ {0}
           /\ DOMAIN Items(r) = 1..Len(Items(r))
           /\ linea[r] \in 1..Len(Items(r))
           /\ \A p \in Productos : Visible(r, p) \in Int
           /\ PadresADesarmar(r) \in Nat
           /\ PadresADesarmar(r) > 0 => Prod(r) \in DOMAIN Vinculo
           /\ pc[r] \in {"padre", "hijo"} => UnidadesGeneradas(r) \in Int
<1>1. /\ Prod(r) \in Productos /\ Cant(r) \in Nat
      /\ linea[r] \in 1..Len(Items(r))
  BY LineaForma DEF TypeOK, Lugar
<1>2. \A p \in Productos : Visible(r, p) \in Int
  BY DEF Visible, TypeOK
<1>3. /\ PadresADesarmar(r) \in Nat
      /\ PadresADesarmar(r) > 0 => Prod(r) \in DOMAIN Vinculo
  <2> DEFINE v == Vinculo[Prod(r)]
             deficit == Cant(r) - Visible(r, Prod(r))
  <2>1. CASE /\ Prod(r) \in DOMAIN Vinculo
             /\ deficit > 0
    <3>1. v.upp \in Nat \ {0} /\ deficit \in Nat \ {0}
      BY <1>1, <1>2, <2>1, VinculosValidos
    <3> HIDE DEF v, deficit
    <3>2. (deficit + v.upp - 1) \div v.upp \in Nat
      BY <3>1
    <3>3. PadresADesarmar(r) \in {(deficit + v.upp - 1) \div v.upp, 0}
      BY DEF PadresADesarmar, PadresPara, deficit, v
    <3>4. QED
      BY <2>1, <3>2, <3>3
  <2>2. CASE ~(Prod(r) \in DOMAIN Vinculo /\ deficit > 0)
    <3>1. PadresADesarmar(r) = 0
      BY <1>1, <1>2, <2>2 DEF PadresADesarmar
    <3>2. QED
      BY <3>1
  <2>3. QED
    BY <2>1, <2>2
<1>4. pc[r] \in {"padre", "hijo"} => UnidadesGeneradas(r) \in Int
  <2>1. CASE pc[r] \in {"padre", "hijo"} /\ padres[r] > 0
    <3>1. Vinculo[Prod(r)].upp \in Nat /\ padres[r] \in Nat
      BY <2>1, VinculosValidos DEF Lugar, TypeOK
    <3>2. padres[r] * Vinculo[Prod(r)].upp \in Nat
      BY <3>1
    <3>3. QED
      BY <2>1, <3>2 DEF UnidadesGeneradas
  <2>2. CASE ~(padres[r] > 0)
    BY <2>2 DEF UnidadesGeneradas
  <2>3. QED
    BY <2>1, <2>2
<1>5. QED
  BY <1>1, <1>2, <1>3, <1>4, ItemsForma DEF TypeOK

\* A transaction that ends frees its own rows, and a row is taken from nobody.
LEMMA SoltarAjeno ==
    ASSUME TypeOK, NEW r \in Peticiones, NEW q \in Peticiones, q # r, Soltar(r)
    PROVE  /\ delta'[q] = delta[q] /\ movsTx'[q] = movsTx[q]
           /\ \A p \in Productos : candado'[p] = q <=> candado[p] = q
BY StockInicialValido DEF TypeOK, Soltar

LEMMA CandadoAjeno ==
    ASSUME TypeOK, NEW r \in Peticiones, NEW q \in Peticiones, q # r,
           NEW x \in Productos, Libre(r, x), candado' = [candado EXCEPT ![x] = r]
    PROVE  \A p \in Productos : candado'[p] = q <=> candado[p] = q
BY StockInicialValido DEF TypeOK, Libre

\* A step of r leaves the other requests where they are, with what they hold.
LEMMA Ajeno ==
    ASSUME TypeOK, Forma, NEW r \in Peticiones, NEW q \in Peticiones, q # r,
           Paso(r) \/ Fallo(r)
    PROVE  /\ pc'[q] = pc[q] /\ linea'[q] = linea[q] /\ leido'[q] = leido[q]
           /\ padres'[q] = padres[q]
           /\ delta'[q] = delta[q] /\ movsTx'[q] = movsTx[q]
           /\ \A p \in Productos : candado'[p] = q <=> candado[p] = q
<1> USE DEF TypeOK, base, tx, local, IrA
<1>1. CASE Iniciar(r)
  BY <1>1 DEF Iniciar
<1>2. CASE ValidarLinea(r)
  BY <1>2 DEF ValidarLinea, Linea
<1>3. CASE RechazarSolicitud(r)
  BY <1>3 DEF RechazarSolicitud
<1>4. CASE BloquearLinea(r)
  <2>1. EsVenta(r) /\ Prod(r) \in Productos
    BY <1>4, Valores DEF BloquearLinea, Forma, Lugar, EsVenta, ConLineas
  <2>2. QED
    BY <1>4, <2>1, SoltarAjeno, CandadoAjeno DEF BloquearLinea, Linea
<1>5. CASE Insertar(r)
  BY <1>5, SoltarAjeno DEF Insertar
<1>6. CASE Leer(r)
  BY <1>6 DEF Leer
<1>7. CASE Decidir(r)
  BY <1>7 DEF Decidir
<1>8. CASE DesarmarPadre(r)
  <2>1. Vinculo[Prod(r)].padre \in Productos
    BY <1>8, VinculosValidos DEF DesarmarPadre, Forma, Lugar
  <2>2. \A p \in Productos : candado'[p] = q <=> candado[p] = q
    BY <1>8, <2>1, CandadoAjeno DEF DesarmarPadre
  <2>3. delta'[q] = delta[q]
    BY <1>8 DEF DesarmarPadre
  <2>4. QED
    BY <1>8, <2>2, <2>3 DEF DesarmarPadre
<1>9. CASE DescontarHijo(r)
  <2>1. Prod(r) \in Productos
    BY <1>9, Valores DEF DescontarHijo, Forma, Lugar, ConLineas
  <2>2. \A p \in Productos : candado'[p] = q <=> candado[p] = q
    BY <1>9, <2>1, CandadoAjeno DEF DescontarHijo
  <2>3. delta'[q] = delta[q]
    BY <1>9 DEF DescontarHijo
  <2>4. QED
    BY <1>9, <2>2, <2>3 DEF DescontarHijo, Linea
<1>10. CASE ConfirmarVenta(r)
  BY <1>10, SoltarAjeno DEF ConfirmarVenta, Confirmar
<1>11. CASE Despachar(r)
  BY <1>11 DEF Despachar
<1>12. CASE LeerVenta(r)
  BY <1>12 DEF LeerVenta
<1>13. CASE RestaurarLinea(r)
  <2>1. Prod(r) \in Productos
    BY <1>13, Valores DEF RestaurarLinea, Forma, Lugar, ConLineas
  <2>2. \A p \in Productos : candado'[p] = q <=> candado[p] = q
    BY <1>13, <2>1, CandadoAjeno DEF RestaurarLinea
  <2>3. delta'[q] = delta[q]
    BY <1>13 DEF RestaurarLinea
  <2>4. QED
    BY <1>13, <2>2, <2>3 DEF RestaurarLinea, Linea
<1>14. CASE ConfirmarAnulacion(r)
  BY <1>14, SoltarAjeno DEF ConfirmarAnulacion, Confirmar
<1>15. CASE LeerPadre(r)
  BY <1>15 DEF LeerPadre
<1>16. CASE ConfirmarDesarme(r)
  BY <1>16, SoltarAjeno DEF ConfirmarDesarme, Confirmar
<1>17. CASE LeerProducto(r)
  BY <1>17 DEF LeerProducto
<1>18. CASE AplicarAjuste(r)
  BY <1>18 DEF AplicarAjuste
<1>19. CASE GuardarProducto(r)
  BY <1>19 DEF GuardarProducto
<1>20. CASE CambiarActivo(r)
  BY <1>20 DEF CambiarActivo
<1>21. CASE CerrarSesion(r)
  BY <1>21 DEF CerrarSesion
<1>22. CASE Abortar(r)
  BY <1>22, SoltarAjeno DEF Abortar
<1>23. CASE CaerTrasConfirmar(r)
  BY <1>23 DEF CaerTrasConfirmar
<1>24. QED
  BY <1>1, <1>2, <1>3, <1>4, <1>5, <1>6, <1>7, <1>8, <1>9, <1>10, <1>11, <1>12, <1>13, <1>14, <1>15, <1>16, <1>17, <1>18, <1>19, <1>20, <1>21, <1>22, <1>23 DEF Paso, Fallo

LEMMA TiposPaso ==
    ASSUME TypeOK, Forma, NEW r \in Peticiones, Paso(r) \/ Fallo(r)
    PROVE  TypeOK'
<1> USE DEF TypeOK, base, tx, local, IrA
<1>a. operacion' = operacion
  BY MismaOperacion
<1>b. Lugar(r)
  BY DEF Forma
<1>1. CASE Iniciar(r)
  BY <1>a, <1>1, <1>b DEF Iniciar, Final
<1>2. CASE ValidarLinea(r)
  <2>1. pc' \in [Peticiones -> {pc[q] : q \in Peticiones} \cup {"bloqueo", "insertar"}]
    BY <1>2 DEF ValidarLinea
  <2>2. linea' \in [Peticiones -> Nat]
    <3>1. CASE linea' = [linea EXCEPT ![r] = linea[r] + 1]
      BY <3>1
    <3>2. CASE linea' = [linea EXCEPT ![r] = 1]
      BY <3>2
    <3>3. CASE linea' = linea
      BY <3>3
    <3>4. QED
      BY <1>2, <3>1, <3>2, <3>3 DEF ValidarLinea, Linea
  <2>3. conflicto' \in [Peticiones -> BOOLEAN]
    BY <1>2 DEF ValidarLinea
  <2>4. UNCHANGED <<stock, activo, sesion, ventas, caja, movs, facturacion, candado, delta,
                   movsTx, leido, padres>>
    BY <1>2 DEF ValidarLinea
  <2>5. QED
    BY <1>a, <2>1, <2>2, <2>3, <2>4 DEF Final
<1>3. CASE RechazarSolicitud(r)
  BY <1>a, <1>3, <1>b DEF RechazarSolicitud, Final
<1>4. CASE BloquearLinea(r)
  <2>1. Prod(r) \in Productos
    BY <1>b, <1>4, Valores DEF BloquearLinea, Lugar, ConLineas, EsVenta
  <2>2. linea' \in [Peticiones -> Nat]
    <3>1. CASE linea' = [linea EXCEPT ![r] = linea[r] + 1]
      BY <3>1
    <3>2. CASE linea' = [linea EXCEPT ![r] = 1]
      BY <3>2
    <3>3. CASE linea' = linea
      BY <3>3
    <3>4. QED
      BY <1>4, <3>1, <3>2, <3>3 DEF BloquearLinea, Linea
  <2>3. CASE Visible(r, Prod(r)) < Cant(r)
    BY <1>a, <1>4, <2>2, <2>3, SoltarTipos DEF BloquearLinea, Final
  <2>4. CASE ~(Visible(r, Prod(r)) < Cant(r))
    <3>1. candado' \in [Productos -> Peticiones \cup {Nada}]
      BY <1>4, <2>1, <2>4 DEF BloquearLinea
    <3>2. pc' \in [Peticiones -> {pc[q] : q \in Peticiones} \cup {"insertar"}]
      BY <1>4, <2>4 DEF BloquearLinea
    <3>3. QED
      BY <1>a, <1>4, <2>2, <2>4, <3>1, <3>2 DEF BloquearLinea
  <2>5. QED
    BY <2>3, <2>4
<1>5. CASE Insertar(r)
  BY <1>a, <1>5, SoltarTipos, <1>b DEF Insertar, Final
<1>6. CASE Leer(r)
  <2>1. ConLineas(r)
    BY <1>b, <1>6 DEF Leer, Lugar, ConLineas, EsVenta
  <2>2. QED
    BY <1>a, <1>6, <2>1, <1>b, Valores DEF Leer, Final
<1>7. CASE Decidir(r)
  <2>1. ConLineas(r)
    BY <1>b, <1>7 DEF Decidir, Lugar, ConLineas, EsVenta
  <2>2. QED
    BY <1>a, <1>7, <2>1, <1>b, Valores DEF Decidir, Final
<1>8. CASE DesarmarPadre(r)
  <2>1. Vinculo[Prod(r)].padre \in Productos
    BY <1>b, <1>8, VinculosValidos DEF DesarmarPadre, Lugar
  <2>2. delta' \in [Peticiones -> [Productos -> Int]]
    BY <1>8, <2>1 DEF DesarmarPadre
  <2>3. candado' \in [Productos -> Peticiones \cup {Nada}]
    BY <1>8, <2>1 DEF DesarmarPadre
  <2>4. QED
    BY <1>a, <1>8, <2>2, <2>3 DEF DesarmarPadre
<1>9. CASE DescontarHijo(r)
  <2>1. /\ ConLineas(r)
        /\ Prod(r) \in Productos /\ Cant(r) \in Nat
        /\ Visible(r, Prod(r)) \in Int /\ UnidadesGeneradas(r) \in Int
    BY <1>b, <1>9, Valores DEF DescontarHijo, Lugar, ConLineas
  <2>2. linea' \in [Peticiones -> Nat]
    <3>1. CASE linea' = [linea EXCEPT ![r] = linea[r] + 1]
      BY <3>1
    <3>2. CASE linea' = [linea EXCEPT ![r] = 1]
      BY <3>2
    <3>3. CASE linea' = linea
      BY <3>3
    <3>4. QED
      BY <1>9, <3>1, <3>2, <3>3 DEF DescontarHijo, Linea
  <2>3. delta' \in [Peticiones -> [Productos -> Int]]
    BY <1>9, <2>1 DEF DescontarHijo
  <2>4. candado' \in [Productos -> Peticiones \cup {Nada}]
    BY <1>9, <2>1 DEF DescontarHijo
  <2>5. movsTx' \in [Peticiones -> SUBSET Mov]
    <3> DEFINE mov == Movimiento(r, "venta", -Cant(r), leido[r].stock,
                          Visible(r, Prod(r)) + (UnidadesGeneradas(r) - Cant(r)))
    <3>1. mov \in Mov
      BY <2>1 DEF Movimiento, Mov
    <3> HIDE DEF mov
    <3>2. CASE movsTx' = [movsTx EXCEPT ![r] = movsTx[r] \cup {mov}]
      BY <3>1, <3>2
    <3>3. CASE movsTx' = movsTx
      BY <3>3
    <3>4. QED
      BY <1>9, <3>2, <3>3 DEF DescontarHijo, mov
  <2>6. pc' \in [Peticiones -> {pc[q] : q \in Peticiones} \cup {"confirmar", "leer"}]
    BY <1>9 DEF DescontarHijo
  <2>7. QED
    BY <1>a, <1>9, <2>2, <2>3, <2>4, <2>5, <2>6 DEF DescontarHijo
<1>10. CASE ConfirmarVenta(r)
  BY <1>a, <1>10, SoltarTipos, <1>b DEF ConfirmarVenta, Confirmar, Final
<1>11. CASE Despachar(r)
  BY <1>a, <1>11, <1>b DEF Despachar, Final
<1>12. CASE LeerVenta(r)
  BY <1>a, <1>12, <1>b DEF LeerVenta, Final
<1>13. CASE RestaurarLinea(r)
  <2>1. /\ ConLineas(r)
        /\ Prod(r) \in Productos /\ Cant(r) \in Nat
        /\ Visible(r, Prod(r)) \in Int
    BY <1>b, <1>13, Valores DEF RestaurarLinea, Lugar, ConLineas
  <2>2. linea' \in [Peticiones -> Nat]
    <3>1. CASE linea' = [linea EXCEPT ![r] = linea[r] + 1]
      BY <3>1
    <3>2. CASE linea' = [linea EXCEPT ![r] = 1]
      BY <3>2
    <3>3. CASE linea' = linea
      BY <3>3
    <3>4. QED
      BY <1>13, <3>1, <3>2, <3>3 DEF RestaurarLinea, Linea
  <2>3. delta' \in [Peticiones -> [Productos -> Int]]
    BY <1>13, <2>1 DEF RestaurarLinea
  <2>4. candado' \in [Productos -> Peticiones \cup {Nada}]
    BY <1>13, <2>1 DEF RestaurarLinea
  <2>5. movsTx' \in [Peticiones -> SUBSET Mov]
    <3> DEFINE mov == Movimiento(r, "restore_anulacion", Cant(r), Visible(r, Prod(r)),
                          Visible(r, Prod(r)) + Cant(r))
    <3>1. mov \in Mov
      BY <2>1 DEF Movimiento, Mov
    <3> HIDE DEF mov
    <3>2. movsTx' = [movsTx EXCEPT ![r] = movsTx[r] \cup {mov}]
      BY <1>13 DEF RestaurarLinea, mov
    <3>3. QED
      BY <3>1, <3>2
  <2>6. pc' \in [Peticiones -> {pc[q] : q \in Peticiones} \cup {"confirmar"}]
    BY <1>13 DEF RestaurarLinea
  <2>7. QED
    BY <1>a, <1>13, <2>2, <2>3, <2>4, <2>5, <2>6 DEF RestaurarLinea
<1>14. CASE ConfirmarAnulacion(r)
  <2>1. operacion[r].venta \in Peticiones
    BY <1>14, OperacionForma DEF ConfirmarAnulacion
  <2>2. /\ ventas' \in [Peticiones -> {Nada, "completada", "anulada"}]
        /\ caja' \in [Peticiones -> Int]
    BY <1>14, <2>1 DEF ConfirmarAnulacion
  <2>3. /\ stock' \in [Productos -> Int] /\ movs' \subseteq Mov
        /\ Soltar(r)
    BY <1>14 DEF ConfirmarAnulacion, Confirmar
  <2>4. QED
    BY <1>a, <1>14, <2>2, <2>3, SoltarTipos DEF ConfirmarAnulacion, Confirmar, Final
<1>15. CASE LeerPadre(r)
  <2>1. operacion[r].padres \in Nat
    BY <1>15, OperacionForma DEF LeerPadre
  <2>2. pc' \in [Peticiones -> {pc[q] : q \in Peticiones} \cup {"rechazada", "padre"}]
    BY <1>15 DEF LeerPadre
  <2>3. padres' \in [Peticiones -> Nat]
    BY <1>15, <2>1 DEF LeerPadre
  <2>4. QED
    BY <1>a, <1>15, <2>2, <2>3 DEF LeerPadre, Final
<1>16. CASE ConfirmarDesarme(r)
  BY <1>a, <1>16, SoltarTipos, <1>b DEF ConfirmarDesarme, Confirmar, Final
<1>17. CASE LeerProducto(r)
  <2>1. operacion[r].p \in Productos
    BY <1>17, OperacionForma DEF LeerProducto
  <2>2. pc' \in [Peticiones -> {pc[q] : q \in Peticiones} \cup {"rechazada", "aplicar"}]
    BY <1>17 DEF LeerProducto
  <2>3. leido' \in [Peticiones -> [stock : Int, activo : BOOLEAN]]
    BY <1>17, <2>1 DEF LeerProducto
  <2>4. QED
    BY <1>a, <1>17, <2>2, <2>3 DEF LeerProducto, Final
<1>18. CASE AplicarAjuste(r)
  <2>1. operacion[r].p \in Productos /\ operacion[r].delta \in Int
    BY <1>18, OperacionForma DEF AplicarAjuste
  <2>2. stock' \in [Productos -> Int]
    BY <1>18, <2>1 DEF AplicarAjuste
  <2>3. movs' \subseteq Mov
    BY <1>18, <2>1 DEF AplicarAjuste, Mov
  <2>4. pc' \in [Peticiones -> {pc[q] : q \in Peticiones} \cup {"ok", "rechazada"}]
    BY <1>18 DEF AplicarAjuste
  <2>5. QED
    BY <1>a, <1>18, <2>2, <2>3, <2>4 DEF AplicarAjuste, Final
<1>19. CASE GuardarProducto(r)
  BY <1>a, <1>19, <1>b DEF GuardarProducto, Final
<1>20. CASE CambiarActivo(r)
  BY <1>a, <1>20, <1>b DEF CambiarActivo, Final
<1>21. CASE CerrarSesion(r)
  BY <1>a, <1>21, <1>b DEF CerrarSesion, Final
<1>22. CASE Abortar(r)
  BY <1>a, <1>22, SoltarTipos, <1>b DEF Abortar, Final
<1>23. CASE CaerTrasConfirmar(r)
  BY <1>a, <1>23, <1>b DEF CaerTrasConfirmar, Final
<1>24. QED
  BY <1>1, <1>2, <1>3, <1>4, <1>5, <1>6, <1>7, <1>8, <1>9, <1>10, <1>11, <1>12, <1>13, <1>14, <1>15, <1>16, <1>17, <1>18, <1>19, <1>20, <1>21, <1>22, <1>23 DEF Paso, Fallo

LEMMA FormaPaso ==
    ASSUME TypeOK, Forma, NEW r \in Peticiones, Paso(r) \/ Fallo(r)
    PROVE  Forma'
<1>1. ASSUME NEW q \in Peticiones, q # r PROVE Lugar(q)'
  <2>1. Lugar(q)
    BY DEF Forma
  <2>2. Prod(q)' = Prod(q)
    BY <1>1, Ajeno, MismaOperacion DEF Prod
  <2>3. QED
    BY <1>1, <2>1, <2>2, Ajeno, MismaOperacion DEF Lugar
<1>2. Lugar(r)'
  <2> USE DEF IrA
  <2>a. /\ Tipo(r)' = Tipo(r) /\ EsVenta(r)' = EsVenta(r)
        /\ ConLineas(r)' = ConLineas(r) /\ Items(r)' = Items(r)
    BY MismaOperacion
  <2>b. Lugar(r) /\ (ConLineas(r) => /\ Len(Items(r)) \in Nat \ {0}
                                    /\ DOMAIN Items(r) = 1..Len(Items(r))
                                    /\ linea[r] \in 1..Len(Items(r)))
    BY Valores DEF Forma
  <2>c. /\ pc \in [Peticiones -> {pc[q] : q \in Peticiones}] /\ linea \in [Peticiones -> Nat]
        /\ padres \in [Peticiones -> Nat]
    BY DEF TypeOK
  <2>d. /\ EsVenta(r) <=> Tipo(r) = "venta"
        /\ ConLineas(r) <=> Tipo(r) \in {"venta", "anular", "desarme"}
    BY DEF EsVenta, ConLineas
  <2>e. Prod(r)' = Items(r)[linea'[r]].p /\ Prod(r) = Items(r)[linea[r]].p
    BY <2>a DEF Prod
  <2>1. CASE Iniciar(r)
    BY <2>a, <2>b, <2>c, <2>d, <2>e, <2>1 DEF Iniciar, Lugar, base, local
  <2>2. CASE ValidarLinea(r)
    <3>1. CASE UltimaLinea(r)
      BY SMTT(30), <2>a, <2>b, <2>c, <2>d, <2>e, <2>2, <3>1 DEF ValidarLinea, Linea, Lugar
    <3>2. CASE ~UltimaLinea(r)
      BY SMTT(30), <2>a, <2>b, <2>c, <2>d, <2>e, <2>2, <3>2 DEF ValidarLinea, Linea, UltimaLinea, Lugar
    <3>3. QED
      BY <3>1, <3>2
  <2>3. CASE RechazarSolicitud(r)
    BY <2>a, <2>b, <2>c, <2>d, <2>e, <2>3 DEF RechazarSolicitud, Lugar, base, local
  <2>4. CASE BloquearLinea(r)
    BY SMTT(30), <2>a, <2>b, <2>c, <2>d, <2>e, <2>4 DEF BloquearLinea, Linea, UltimaLinea, Lugar, base, local
  <2>5. CASE Insertar(r)
    BY <2>a, <2>b, <2>c, <2>d, <2>e, <2>5 DEF Insertar, Lugar, base, local
  <2>6. CASE Leer(r)
    BY <2>a, <2>b, <2>c, <2>d, <2>e, <2>6 DEF Leer, Lugar, base, local
  <2>7. CASE Decidir(r)
    BY <2>a, <2>b, <2>c, <2>d, <2>e, <2>7, Valores DEF Decidir, Lugar, base, local
  <2>8. CASE DesarmarPadre(r)
    BY <2>a, <2>b, <2>c, <2>d, <2>e, <2>8 DEF DesarmarPadre, Lugar, base, local
  <2>9. CASE DescontarHijo(r)
    <3>1. CASE UltimaLinea(r)
      BY <2>a, <2>b, <2>c, <2>d, <2>e, <2>9, <3>1 DEF DescontarHijo, Linea, Lugar
    <3>2. CASE ~UltimaLinea(r)
      <4>1. linea[r] # Len(Items(r))
        BY <3>2 DEF UltimaLinea
      <4>2. pc[r] = "hijo" /\ Tipo(r) \in {"venta", "desarme"}
        BY <2>b, <2>9 DEF DescontarHijo, Lugar
      <4>3. linea[r] \in 1..Len(Items(r)) /\ linea[r] + 1 \in 1..Len(Items(r))
        BY <2>b, <2>d, <4>1, <4>2
      <4>4. Tipo(r) # "desarme"
        <5> SUFFICES ASSUME Tipo(r) = "desarme" PROVE FALSE
          OBVIOUS
        <5>1. Items(r) = <<[p |-> operacion[r].hijo, n |-> 0]>>
          BY DEF Items, EsVenta
        <5>2. Len(Items(r)) = 1
          BY <5>1
        <5>3. linea[r] \in 1..1 /\ linea[r] + 1 \in 1..1
          BY <4>3, <5>2
        <5>4. QED
          BY <5>3
      <4>5. linea'[r] = linea[r] + 1 /\ pc'[r] = "leer"
        BY <2>c, <2>9, <3>2 DEF DescontarHijo, Linea
      <4>6. QED
        BY <2>a, <2>b, <2>d, <2>9, <4>2, <4>3, <4>4, <4>5 DEF DescontarHijo, Lugar
    <3>3. QED
      BY <3>1, <3>2
  <2>10. CASE ConfirmarVenta(r)
    BY <2>a, <2>b, <2>c, <2>d, <2>e, <2>10 DEF ConfirmarVenta, Confirmar, Lugar, base, local
  <2>11. CASE Despachar(r)
    BY <2>a, <2>b, <2>c, <2>d, <2>e, <2>11 DEF Despachar, Lugar, base, local
  <2>12. CASE LeerVenta(r)
    BY <2>a, <2>b, <2>c, <2>d, <2>e, <2>12 DEF LeerVenta, Lugar, base, local
  <2>13. CASE RestaurarLinea(r)
    BY SMTT(30), <2>a, <2>b, <2>c, <2>d, <2>e, <2>13 DEF RestaurarLinea, Linea, UltimaLinea, Lugar, base, local
  <2>14. CASE ConfirmarAnulacion(r)
    BY <2>a, <2>b, <2>c, <2>d, <2>e, <2>14 DEF ConfirmarAnulacion, Confirmar, Lugar, base, local
  <2>15. CASE LeerPadre(r)
    <3>1. operacion[r].padres \in Nat \ {0} /\ operacion[r].hijo \in DOMAIN Vinculo
      BY <2>15, OperacionForma DEF LeerPadre, TypeOK
    <3>2. Items(r) = <<[p |-> operacion[r].hijo, n |-> 0]>>
      BY <2>15 DEF LeerPadre, Items, EsVenta
    <3>3. linea[r] = 1
      BY <2>b, <2>d, <2>15, <3>2 DEF LeerPadre
    <3>4. Prod(r) \in DOMAIN Vinculo
      BY <2>e, <3>1, <3>2, <3>3
    <3>5. QED
      BY SMTT(30), <2>a, <2>b, <2>c, <2>d, <2>e, <2>15, <3>1, <3>4 DEF LeerPadre, Lugar
  <2>16. CASE ConfirmarDesarme(r)
    BY <2>a, <2>b, <2>c, <2>d, <2>e, <2>16 DEF ConfirmarDesarme, Confirmar, Lugar, base, local
  <2>17. CASE LeerProducto(r)
    BY <2>a, <2>b, <2>c, <2>d, <2>e, <2>17 DEF LeerProducto, Lugar, base, local
  <2>18. CASE AplicarAjuste(r)
    BY <2>a, <2>b, <2>c, <2>d, <2>e, <2>18 DEF AplicarAjuste, Lugar, base, local
  <2>19. CASE GuardarProducto(r)
    BY <2>a, <2>b, <2>c, <2>d, <2>e, <2>19 DEF GuardarProducto, Lugar, base, local
  <2>20. CASE CambiarActivo(r)
    BY <2>a, <2>b, <2>c, <2>d, <2>e, <2>20 DEF CambiarActivo, Lugar, base, local
  <2>21. CASE CerrarSesion(r)
    BY <2>a, <2>b, <2>c, <2>d, <2>e, <2>21 DEF CerrarSesion, Lugar, base, local
  <2>22. CASE Abortar(r)
    BY <2>a, <2>b, <2>c, <2>d, <2>e, <2>22 DEF Abortar, Lugar, base, local
  <2>23. CASE CaerTrasConfirmar(r)
    BY <2>a, <2>b, <2>c, <2>d, <2>e, <2>23 DEF CaerTrasConfirmar, Lugar, base, local
  <2>24. QED
    BY <2>1, <2>2, <2>3, <2>4, <2>5, <2>6, <2>7, <2>8, <2>9, <2>10, <2>11, <2>12, <2>13, <2>14, <2>15, <2>16, <2>17, <2>18, <2>19, <2>20, <2>21, <2>22, <2>23 DEF Paso, Fallo
<1>3. QED
  BY <1>1, <1>2 DEF Forma

LEMMA TiposIniciales == Init => TypeOK /\ Forma
<1> SUFFICES ASSUME Init PROVE TypeOK /\ Forma
  OBVIOUS
<1>1. TypeOK
  BY StockInicialValido DEF Init, TypeOK, Final
<1>2. ASSUME NEW r \in Peticiones PROVE Lugar(r)
  <2>1. pc[r] \in {"ok", "inicio"} /\ linea[r] = 1
    BY DEF Init
  <2>2. ConLineas(r) => 1 \in DOMAIN Items(r)
    BY <1>1, ItemsForma DEF TypeOK
  <2>3. QED
    BY <2>1, <2>2 DEF Lugar
<1>3. QED
  BY <1>1, <1>2 DEF Forma

LEMMA TiposInductivos == TypeOK /\ Forma /\ [Next]_vars => TypeOK' /\ Forma'
<1> SUFFICES ASSUME TypeOK, Forma, [Next]_vars PROVE TypeOK' /\ Forma'
  OBVIOUS
<1>1. ASSUME NEW r \in Peticiones, Paso(r) \/ Fallo(r) PROVE TypeOK' /\ Forma'
  BY <1>1, TiposPaso, FormaPaso
<1>2. CASE UNCHANGED vars
  <2>1. TypeOK'
    BY <1>2 DEF TypeOK, vars
  <2>2. Forma'
    BY <1>2 DEF Forma, Lugar, ConLineas, EsVenta, Tipo, Items, Prod, vars
  <2>3. QED
    BY <2>1, <2>2
<1>3. QED
  BY <1>1, <1>2 DEF Next, Terminado

(***************************************************************************)
(* Type correctness: no interleaving of requests, failures or aborted      *)
(* transactions takes a request past its last line, or leaves a lock, a    *)
(* stock or a movement that is none.                                       *)
(***************************************************************************)
THEOREM TiposCorrectos == Spec => []TypeOK
<1>1. Spec => [](TypeOK /\ Forma)
  BY TiposIniciales, TiposInductivos, PTL DEF Spec
<1>2. QED
  BY <1>1, PTL

-----------------------------------------------------------------------------
(* Row locks. *)

LEMMA CandadosIniciales == Init => Candados
BY DEF Init, Candados

LEMMA CandadosPaso ==
    ASSUME TypeOK, Forma, Candados, NEW r \in Peticiones, Paso(r) \/ Fallo(r)
    PROVE  Candados'
<1>1. ASSUME NEW q \in Peticiones, q # r, NEW p \in Productos, delta'[q][p] # 0
      PROVE  candado'[p] = q
  BY <1>1, Ajeno DEF Candados
<1>2. ASSUME NEW p \in Productos, delta'[r][p] # 0 PROVE candado'[p] = r
  <2>1. CASE Soltar(r)
    BY <1>2, <2>1 DEF Soltar, TypeOK
  <2>2. CASE UNCHANGED <<candado, delta>>
    BY <1>2, <2>2 DEF Candados
  <2>3. CASE BloquearLinea(r) /\ ~Soltar(r)
    BY <1>2, <2>3 DEF BloquearLinea, Candados, TypeOK
  <2>4. CASE DesarmarPadre(r)
    BY <1>2, <2>4 DEF DesarmarPadre, Candados, TypeOK
  <2>5. CASE DescontarHijo(r)
    BY <1>2, <2>5 DEF DescontarHijo, Candados, TypeOK
  <2>6. CASE RestaurarLinea(r)
    BY <1>2, <2>6 DEF RestaurarLinea, Candados, TypeOK
  <2>7. QED
    BY <2>1, <2>2, <2>3, <2>4, <2>5, <2>6
    DEF Paso, Fallo, base, tx, local, Iniciar, ValidarLinea, RechazarSolicitud, Insertar,
        Leer, Decidir, ConfirmarVenta, ConfirmarAnulacion, ConfirmarDesarme, Confirmar,
        Despachar, LeerVenta, LeerPadre, LeerProducto, AplicarAjuste, GuardarProducto,
        CambiarActivo, CerrarSesion, Abortar, CaerTrasConfirmar
<1>3. QED
  BY <1>1, <1>2 DEF Candados

\* Nobody else changes the stock of a row that q holds.
LEMMA StockAjeno ==
    ASSUME TypeOK, Forma, Candados, NEW r \in Peticiones, NEW q \in Peticiones, q # r,
           NEW p \in Productos, candado[p] = q, Paso(r) \/ Fallo(r)
    PROVE  stock'[p] = stock[p]
<1>1. CASE Confirmar(r)
  <2>1. delta[r][p] = 0
    BY DEF Candados
  <2>2. QED
    BY <1>1, <2>1 DEF Confirmar, TypeOK
<1>2. CASE AplicarAjuste(r)
  BY <1>2, StockInicialValido DEF AplicarAjuste, Libre, TypeOK
<1>3. CASE GuardarProducto(r)
  BY <1>3, StockInicialValido DEF GuardarProducto, Libre, TypeOK
<1>4. CASE UNCHANGED stock
  BY <1>4
<1>5. QED
  BY <1>1, <1>2, <1>3, <1>4
  DEF Paso, Fallo, base, tx, local, Iniciar, ValidarLinea, RechazarSolicitud, Insertar,
      Leer, Decidir, ConfirmarVenta, ConfirmarAnulacion, ConfirmarDesarme,
      Despachar, LeerVenta, LeerPadre, LeerProducto, BloquearLinea, DesarmarPadre,
      DescontarHijo, RestaurarLinea, CambiarActivo, CerrarSesion, Abortar,
      CaerTrasConfirmar

LEMMA VisibleAjeno ==
    ASSUME TypeOK, Forma, Candados, NEW r \in Peticiones, NEW q \in Peticiones, q # r,
           NEW p \in Productos, candado[p] = q, Paso(r) \/ Fallo(r)
    PROVE  candado'[p] = q /\ Visible(q, p)' = Visible(q, p)
BY Ajeno, StockAjeno DEF Visible

-----------------------------------------------------------------------------
(* What an on-line sale has secured. *)

LEMMA ReservaInicial == Init => Reserva
BY DEF Init, Reserva, ReservaDe

LEMMA ReservaAjena ==
    ASSUME TypeOK, Forma, Candados, Reserva, NEW r \in Peticiones, NEW q \in Peticiones, q # r,
           Paso(r) \/ Fallo(r)
    PROVE  ReservaDe(q)'
<1> SUFFICES ASSUME EnLinea(q)', LineasDistintas(q)' PROVE ReservaDe(q)'
  BY DEF ReservaDe
<1>1. /\ Items(q)' = Items(q) /\ pc'[q] = pc[q] /\ linea'[q] = linea[q]
      /\ leido'[q] = leido[q] /\ padres'[q] = padres[q] /\ Prod(q)' = Prod(q)
  BY MismaOperacion, Ajeno DEF Prod
<1>2. EnLinea(q) /\ LineasDistintas(q) /\ ConLineas(q)
  BY <1>1, MismaOperacion DEF LineasDistintas, EnLinea, EsVenta, ConLineas
<1>3. \A i \in DOMAIN Items(q) : Items(q)[i].p \in Productos
  BY <1>2, ItemsForma DEF TypeOK
<1>4. \A i \in DOMAIN Items(q) :
          /\ Tiene(q, i) => Tiene(q, i)'
          /\ Descontada(q, i) => Descontada(q, i)'
  BY <1>1, <1>3, VisibleAjeno DEF Tiene, Descontada
<1>5. ASSUME pc[q] \in {"decidir", "hijo"} PROVE Visible(q, Prod(q))' = Visible(q, Prod(q))
  <2>1. linea[q] \in DOMAIN Items(q) /\ Prod(q) \in Productos
    BY <1>2, <1>3 DEF Forma, Lugar, Prod
  <2>2. Tiene(q, linea[q])
    BY <1>2, <1>5, <2>1 DEF Reserva, ReservaDe, TypeOK
  <2>3. candado[Prod(q)] = q
    BY <2>2 DEF Tiene, Prod
  <2>4. QED
    BY <1>1, <2>1, <2>3, VisibleAjeno
<1>6. QED
  BY <1>1, <1>2, <1>4, <1>5 DEF Reserva, ReservaDe

LEMMA ReservaPropia ==
    ASSUME TypeOK, Forma, Candados, Reserva, NEW r \in Peticiones, Paso(r) \/ Fallo(r)
    PROVE  ReservaDe(r)'
<1> SUFFICES ASSUME EnLinea(r)', LineasDistintas(r)' PROVE ReservaDe(r)'
  BY DEF ReservaDe
<1> DEFINE L == Len(Items(r))
<1>a. /\ Items(r)' = Items(r)
      /\ EnLinea(r) /\ EsVenta(r) /\ LineasDistintas(r) /\ ConLineas(r)
  BY MismaOperacion DEF LineasDistintas, EnLinea, EsVenta, ConLineas
<1>b. /\ L \in Nat /\ DOMAIN Items(r) = 1..L
      /\ \A i \in 1..L : Items(r)[i].p \in Productos /\ Items(r)[i].n \in Nat
      /\ linea[r] \in 1..L
      /\ \A q \in Productos : Visible(r, q) \in Int
      /\ Prod(r) = Items(r)[linea[r]].p /\ Cant(r) = Items(r)[linea[r]].n
  BY <1>a, Valores, ItemsForma DEF Forma, TypeOK, Prod, Cant
<1>c. \A i, j \in 1..L : i # j => Items(r)[i].p # Items(r)[j].p
  BY <1>a, <1>b DEF LineasDistintas
<1>d. ReservaDe(r)
  BY DEF Reserva
<1>e. \A i \in 1..L :
          UNCHANGED <<stock, candado, delta>> =>
              /\ Tiene(r, i)' = Tiene(r, i) /\ Descontada(r, i)' = Descontada(r, i)
              /\ \A q : Visible(r, q)' = Visible(r, q)
  BY <1>a DEF Tiene, Descontada, Visible
<1>f. /\ Tipo(r) = "venta" /\ pc[r] # "padre"
      /\ pc \in [Peticiones -> {pc[q] : q \in Peticiones}] /\ linea \in [Peticiones -> Nat]
  BY <1>a, <1>d DEF EsVenta, ReservaDe, TypeOK
<1> HIDE DEF L
<1> USE DEF IrA, Linea
<1>1. CASE ValidarLinea(r)
  <2>1. pc'[r] = "validar" \/ (pc'[r] = "bloqueo" /\ linea'[r] = 1)
    BY <1>a, <1>f, <1>1 DEF ValidarLinea
  <2>2. QED
    BY <1>a, <1>b, <2>1 DEF ReservaDe
<1>2. CASE BloquearLinea(r)
  <2>1. CASE Visible(r, Prod(r)) < Cant(r)
    BY <1>f, <1>2, <2>1 DEF BloquearLinea, ReservaDe
  <2>2. CASE ~(Visible(r, Prod(r)) < Cant(r))
    <3>1. candado' = [candado EXCEPT ![Prod(r)] = r] /\ UNCHANGED <<stock, delta>>
      BY <1>2, <2>2 DEF BloquearLinea, base
    <3>2. \A i \in 1..L : Tiene(r, i) => Tiene(r, i)'
      BY <1>a, <1>b, <3>1 DEF Tiene, Visible, TypeOK
    <3>3. \A i \in 1..L : i = linea[r] => Tiene(r, i)'
      <4>1. Visible(r, Prod(r)) >= Cant(r)
        BY <1>b, <2>2
      <4>2. \A q \in Productos : Visible(r, q)' = Visible(r, q)
        BY <3>1 DEF Visible
      <4>3. QED
        BY <1>a, <1>b, <3>1, <4>1, <4>2 DEF Tiene, TypeOK
    <3>4. \A i \in 1..L : i <= linea[r] => Tiene(r, i)'
      <4>1. \A i \in 1..L : i < linea[r] => Tiene(r, i)
        BY <1>a, <1>b, <1>d, <1>2 DEF BloquearLinea, ReservaDe
      <4>2. QED
        BY <1>b, <3>2, <3>3, <4>1
    <3>5. CASE ~UltimaLinea(r)
      <4>1. pc'[r] = "bloqueo" /\ linea'[r] = linea[r] + 1
        BY <1>f, <1>2, <2>2, <3>5 DEF BloquearLinea
      <4>2. QED
        BY <1>a, <1>b, <3>4, <4>1 DEF ReservaDe
    <3>6. CASE UltimaLinea(r)
      <4>1. pc'[r] = "insertar" /\ linea'[r] = 1 /\ linea[r] = L
        BY <1>f, <1>2, <2>2, <3>6 DEF BloquearLinea, UltimaLinea, L
      <4>2. QED
        BY <1>a, <1>b, <3>4, <4>1 DEF ReservaDe
    <3>7. QED
      BY <3>5, <3>6
  <2>3. QED
    BY <2>1, <2>2
<1>3. CASE Insertar(r)
  <2>1. CASE pc'[r] = "leer"
    <3>1. pc[r] = "insertar" /\ linea'[r] = linea[r] /\ UNCHANGED <<stock, candado, delta>>
      BY <1>f, <1>3, <2>1 DEF Insertar, base, tx
    <3>2. QED
      BY <1>a, <1>b, <1>d, <1>e, <2>1, <3>1 DEF ReservaDe
  <2>2. CASE pc'[r] # "leer"
    BY <1>f, <1>3, <2>2 DEF Insertar, ReservaDe
  <2>3. QED
    BY <2>1, <2>2
<1>4. CASE Leer(r)
  <2>1. /\ pc[r] = "leer" /\ pc'[r] = "decidir" /\ linea'[r] = linea[r]
        /\ UNCHANGED <<stock, candado, delta>>
    BY <1>f, <1>4 DEF Leer, base, tx
  <2>2. leido'[r].stock = Visible(r, Prod(r))
    BY <1>4 DEF Leer, TypeOK
  <2>3. Prod(r)' = Prod(r)
    BY <1>a, <2>1 DEF Prod
  <2>4. QED
    BY <1>a, <1>b, <1>d, <1>e, <2>1, <2>2, <2>3 DEF ReservaDe
<1>5. CASE Decidir(r)
  <2>1. /\ pc[r] = "decidir" /\ linea'[r] = linea[r] /\ leido'[r] = leido[r]
        /\ UNCHANGED <<stock, candado, delta>>
    BY <1>f, <1>5 DEF Decidir, base, tx
  <2>2. Tiene(r, linea[r])
    BY <1>a, <1>b, <1>d, <2>1 DEF ReservaDe
  <2>3. PadresADesarmar(r) = 0
    BY <1>b, <2>2 DEF PadresADesarmar, Tiene
  <2>4. pc'[r] = "hijo" /\ padres'[r] = 0
    BY <1>5, <1>f, <2>3 DEF Decidir, TypeOK
  <2>5. Prod(r)' = Prod(r)
    BY <1>a, <2>1 DEF Prod
  <2>6. QED
    BY <1>a, <1>b, <1>d, <1>e, <2>1, <2>4, <2>5 DEF ReservaDe
<1>6. CASE DescontarHijo(r)
  <2>1. UnidadesGeneradas(r) = 0
    BY <1>a, <1>d, <1>6 DEF DescontarHijo, ReservaDe, UnidadesGeneradas
  <2>2. /\ candado' = [candado EXCEPT ![Prod(r)] = r] /\ UNCHANGED stock
        /\ delta' = [delta EXCEPT ![r][Prod(r)] = @ + (0 - Cant(r))]
    BY <1>6, <2>1 DEF DescontarHijo, base
  <2>3. \A i \in 1..L : IF i < linea[r] THEN Descontada(r, i) ELSE Tiene(r, i)
    BY <1>a, <1>b, <1>d, <1>6 DEF DescontarHijo, ReservaDe
  <2>4. \A i \in 1..L : i # linea[r] =>
            (Descontada(r, i) => Descontada(r, i)') /\ (Tiene(r, i) => Tiene(r, i)')
    BY <1>a, <1>b, <1>c, <2>2 DEF Tiene, Descontada, Visible, TypeOK
  <2>5. \A i \in 1..L : i = linea[r] => Descontada(r, i)'
    <3>1. Visible(r, Prod(r)) >= Cant(r)
      BY <1>b, <2>3 DEF Tiene
    <3>2. \A q \in Productos : q = Prod(r) => Visible(r, q)' = Visible(r, q) - Cant(r)
      BY SMTT(30), <1>b, <2>2 DEF Visible, TypeOK
    <3>3. QED
      BY <1>a, <1>b, <2>2, <3>1, <3>2 DEF Descontada, TypeOK
  <2>6. CASE ~UltimaLinea(r)
    <3>1. pc'[r] = "leer" /\ linea'[r] = linea[r] + 1
      BY <1>f, <1>6, <2>6 DEF DescontarHijo
    <3>2. \A i \in 1..L : IF i < linea'[r] THEN Descontada(r, i)' ELSE Tiene(r, i)'
      BY <1>b, <2>3, <2>4, <2>5, <3>1
    <3>3. QED
      BY <1>a, <1>b, <3>1, <3>2 DEF ReservaDe
  <2>7. CASE UltimaLinea(r)
    <3>1. pc'[r] = "confirmar" /\ linea[r] = L
      BY <1>f, <1>6, <2>7 DEF DescontarHijo, UltimaLinea, L
    <3>2. \A i \in 1..L : Descontada(r, i)'
      BY <1>b, <2>3, <2>4, <2>5, <3>1
    <3>3. QED
      BY <1>a, <1>b, <3>1, <3>2 DEF ReservaDe
  <2>8. QED
    BY <2>6, <2>7
<1>7. CASE pc'[r] \in Final \cup {"validar", "despachar"}
  BY <1>7 DEF ReservaDe, Final
<1>8. ASSUME ~DescontarHijo(r), ~Decidir(r), ~Leer(r), ~Insertar(r), ~BloquearLinea(r),
             ~ValidarLinea(r)
      PROVE  pc'[r] \in Final \cup {"validar", "despachar"}
  <2>1. ~(\/ DesarmarPadre(r) \/ LeerVenta(r) \/ RestaurarLinea(r) \/ ConfirmarAnulacion(r)
          \/ LeerPadre(r) \/ ConfirmarDesarme(r) \/ LeerProducto(r) \/ AplicarAjuste(r)
          \/ GuardarProducto(r) \/ CambiarActivo(r) \/ CerrarSesion(r))
    BY <1>f DEF DesarmarPadre, LeerVenta, RestaurarLinea, ConfirmarAnulacion, LeerPadre,
         ConfirmarDesarme, LeerProducto, AplicarAjuste, GuardarProducto, CambiarActivo,
         CerrarSesion, Forma, Lugar
  <2>2. CASE Iniciar(r) \/ RechazarSolicitud(r) \/ Despachar(r) \/ CaerTrasConfirmar(r)
    BY <1>f, <2>2 DEF Iniciar, RechazarSolicitud, Despachar, CaerTrasConfirmar, Final
  <2>3. CASE ConfirmarVenta(r) \/ Abortar(r)
    BY <1>f, <2>3 DEF ConfirmarVenta, Abortar, Final
  <2>4. QED
    BY <1>8, <2>1, <2>2, <2>3 DEF Paso, Fallo
<1>9. QED
  BY <1>1, <1>2, <1>3, <1>4, <1>5, <1>6, <1>7, <1>8

\* What the theorems about stock rest on.
StockInv == TypeOK /\ Forma /\ Candados /\ Reserva

LEMMA StockInvInductivo == StockInv /\ [Next]_vars => StockInv'
<1> SUFFICES ASSUME StockInv, [Next]_vars PROVE StockInv'
  OBVIOUS
<1> USE DEF StockInv
<1>1. ASSUME NEW r \in Peticiones, Paso(r) \/ Fallo(r) PROVE StockInv'
  <2>1. Reserva'
    BY <1>1, ReservaAjena, ReservaPropia DEF Reserva
  <2>2. QED
    BY <1>1, <2>1, TiposPaso, FormaPaso, CandadosPaso
<1>2. CASE UNCHANGED vars
  <2>1. TypeOK' /\ Forma'
    BY TiposInductivos
  <2>2. Candados'
    BY <1>2 DEF Candados, vars
  <2>3. Reserva'
    <3> SUFFICES ASSUME NEW r \in Peticiones PROVE ReservaDe(r)'
      BY DEF Reserva
    <3>1. /\ EnLinea(r)' = EnLinea(r) /\ Items(r)' = Items(r) /\ Prod(r)' = Prod(r)
          /\ pc' = pc /\ linea' = linea /\ leido' = leido /\ padres' = padres
      BY <1>2 DEF EnLinea, EsVenta, Tipo, Items, Prod, vars
    <3>2. \A q : Visible(r, q)' = Visible(r, q)
      BY <1>2 DEF Visible, vars
    <3>3. \A i : Tiene(r, i)' = Tiene(r, i) /\ Descontada(r, i)' = Descontada(r, i)
      BY <1>2, <3>1, <3>2 DEF Tiene, Descontada, vars
    <3>4. Visible(r, Prod(r))' = Visible(r, Prod(r))
      BY <1>2, <3>1 DEF Visible, vars
    <3>5. QED
      BY <3>1, <3>3, <3>4 DEF Reserva, ReservaDe, LineasDistintas
  <2>4. QED
    BY <2>1, <2>2, <2>3
<1>3. QED
  BY <1>1, <1>2 DEF Next, Terminado

LEMMA StockInvSiempre == Spec => []StockInv
<1>1. Init => StockInv
  BY TiposIniciales, CandadosIniciales, ReservaInicial DEF StockInv
<1>2. QED
  BY <1>1, StockInvInductivo, PTL DEF Spec

(***************************************************************************)
(* An on-line sale with distinct products that commits leaves none of them *)
(* below zero, whatever the other requests do between its checks, its      *)
(* locks and its commit.                                                   *)
(***************************************************************************)
THEOREM NuncaSobrevende == Spec => EnLineaNuncaSobrevende
<1> DEFINE P == \A r \in Peticiones : EnLinea(r) /\ LineasDistintas(r) /\ ConfirmarVenta(r) =>
                    \A i \in DOMAIN Items(r) : stock'[Items(r)[i].p] >= 0
<1>1. StockInv /\ [Next]_vars => [P]_vars
  <2> SUFFICES ASSUME StockInv, NEW r \in Peticiones, EnLinea(r), LineasDistintas(r),
                      ConfirmarVenta(r), NEW i \in DOMAIN Items(r)
               PROVE  stock'[Items(r)[i].p] >= 0
    OBVIOUS
  <2>1. Descontada(r, i)
    BY DEF StockInv, Reserva, ReservaDe, ConfirmarVenta, Confirmar
  <2>2. Items(r)[i].p \in Productos
    BY ItemsForma DEF StockInv, TypeOK, ConLineas, EnLinea, EsVenta
  <2>3. stock'[Items(r)[i].p] = Visible(r, Items(r)[i].p)
    BY <2>2 DEF ConfirmarVenta, Confirmar, Visible
  <2>4. QED
    BY <2>1, <2>3 DEF Descontada
<1>2. QED
  BY <1>1, StockInvSiempre, PTL DEF Spec, EnLineaNuncaSobrevende

-----------------------------------------------------------------------------
(* Movements. *)

LEMMA ExactosPaso ==
    ASSUME StockInv, Exactos, NEW r \in Peticiones, Paso(r) \/ Fallo(r)
    PROVE  Exactos'
<1> USE DEF StockInv
<1>1. \A m : Exacto(m)' = Exacto(m)
  BY MismaOperacion DEF Exacto, LineasDistintas
<1>2. \A m \in movsTx[r] : Exacto(m)
  BY DEF Exactos
<1>3. \A m \in movsTx'[r] : Exacto(m)
  <2>1. CASE movsTx'[r] \subseteq movsTx[r]
    BY <1>2, <2>1
  <2>2. CASE DescontarHijo(r) /\ EsVenta(r)
    <3> DEFINE mov == Movimiento(r, "venta", -Cant(r), leido[r].stock,
                          Visible(r, Prod(r)) + (UnidadesGeneradas(r) - Cant(r)))
    <3>1. movsTx'[r] = movsTx[r] \cup {mov}
      BY <2>2 DEF DescontarHijo, TypeOK
    <3>2. mov.ref = r /\ mov.antes = leido[r].stock /\ mov.cantidad = -Cant(r)
          /\ mov.tras = Visible(r, Prod(r)) + (UnidadesGeneradas(r) - Cant(r))
          /\ mov.tipo = "venta"
      BY DEF Movimiento
    <3>3. EnLinea(r) /\ LineasDistintas(r) =>
              leido[r].stock = Visible(r, Prod(r)) /\ UnidadesGeneradas(r) = 0
      BY <2>2 DEF DescontarHijo, Reserva, ReservaDe, UnidadesGeneradas
    <3>4. Cant(r) \in Nat /\ Visible(r, Prod(r)) \in Int
      BY <2>2, Valores DEF Forma, ConLineas, EsVenta
    <3> HIDE DEF mov
    <3>5. Exacto(mov)
      BY <3>2, <3>3, <3>4 DEF Exacto
    <3>6. QED
      BY <1>2, <3>1, <3>5
  <2>3. CASE RestaurarLinea(r)
    <3> DEFINE mov == Movimiento(r, "restore_anulacion", Cant(r), Visible(r, Prod(r)),
                          Visible(r, Prod(r)) + Cant(r))
    <3>1. movsTx'[r] = movsTx[r] \cup {mov}
      BY <2>3 DEF RestaurarLinea, TypeOK
    <3>2. mov.antes + mov.cantidad = mov.tras
      BY DEF Movimiento
    <3> HIDE DEF mov
    <3>3. QED
      BY <1>2, <3>1, <3>2 DEF Exacto
  <2>4. QED
    BY <2>1, <2>2, <2>3
    DEF Paso, Fallo, TypeOK, base, tx, local, Iniciar, ValidarLinea, RechazarSolicitud,
        BloquearLinea, Insertar, Leer, Decidir, DesarmarPadre, DescontarHijo,
        ConfirmarVenta, ConfirmarAnulacion, ConfirmarDesarme, Confirmar, Soltar,
        Despachar, LeerVenta, LeerPadre, LeerProducto, AplicarAjuste, GuardarProducto,
        CambiarActivo, CerrarSesion, Abortar, CaerTrasConfirmar
<1>4. \A m \in movs' : Exacto(m)
  <2>1. CASE Confirmar(r)
    BY <1>2, <2>1 DEF Confirmar, Exactos
  <2>2. CASE AplicarAjuste(r)
    BY <2>2 DEF AplicarAjuste, Exactos, Exacto
  <2>3. CASE UNCHANGED movs
    BY <2>3 DEF Exactos
  <2>4. QED
    BY <2>1, <2>2, <2>3
    DEF Paso, Fallo, base, tx, local, Iniciar, ValidarLinea, RechazarSolicitud,
        BloquearLinea, Insertar, Leer, Decidir, DesarmarPadre, DescontarHijo,
        ConfirmarVenta, ConfirmarAnulacion, ConfirmarDesarme, RestaurarLinea,
        Despachar, LeerVenta, LeerPadre, LeerProducto, GuardarProducto,
        CambiarActivo, CerrarSesion, Abortar, CaerTrasConfirmar
<1>5. ASSUME NEW q \in Peticiones, q # r, NEW m \in movsTx'[q] PROVE Exacto(m)
  BY <1>5, Ajeno DEF Exactos
<1>6. QED
  BY <1>1, <1>3, <1>4, <1>5 DEF Exactos

(***************************************************************************)
(* A movement of a void, or of an on-line sale with distinct products,     *)
(* claims the stock that its statement really left, although stockAntes is *)
(* read by a statement of its own (venta_service.go:275).                  *)
(***************************************************************************)
THEOREM MovimientosExactos == Spec => []MovimientosConCandadoExactos
<1>1. Init => Exactos
  BY DEF Init, Exactos
<1>2. StockInv /\ Exactos /\ [Next]_vars => Exactos'
  <2> SUFFICES ASSUME StockInv, Exactos, [Next]_vars PROVE Exactos'
    OBVIOUS
  <2>1. CASE UNCHANGED vars
    <3>1. operacion' = operacion /\ movs' = movs /\ movsTx' = movsTx
      BY <2>1 DEF vars
    <3>2. \A r : EnLinea(r)' <=> EnLinea(r)
      BY <3>1 DEF EnLinea, EsVenta, Tipo
    <3>3. \A r : LineasDistintas(r)' <=> LineasDistintas(r)
      BY <3>1 DEF LineasDistintas, Items, EsVenta, Tipo
    <3>4. \A m : Exacto(m) => Exacto(m)'
      BY <3>2, <3>3 DEF Exacto
    <3>5. QED
      BY <3>1, <3>4 DEF Exactos
  <2>2. QED
    BY <2>1, ExactosPaso DEF Next, Terminado
<1>3. Exactos => MovimientosConCandadoExactos
  BY DEF Exactos, Exacto, MovimientosConCandadoExactos
<1>4. QED
  BY <1>1, <1>2, <1>3, StockInvSiempre, PTL DEF Spec

-----------------------------------------------------------------------------
(* Sales, their keys and their payments. *)

\* Only the end of a sale and the end of a void write the sale's row.
LEMMA VentasPaso ==
    ASSUME NEW r \in Peticiones, Paso(r) \/ Fallo(r)
    PROVE  ConfirmarVenta(r) \/ ConfirmarAnulacion(r) \/ UNCHANGED <<ventas, caja>>
BY DEF Paso, Fallo, base, Iniciar, ValidarLinea, RechazarSolicitud, BloquearLinea,
       Insertar, Leer, Decidir, DesarmarPadre, DescontarHijo, ConfirmarDesarme,
       RestaurarLinea, Despachar, LeerVenta, LeerPadre, LeerProducto, AplicarAjuste,
       GuardarProducto, CambiarActivo, CerrarSesion, Abortar, CaerTrasConfirmar

\* Where a step takes a sale or a void.
LEMMA CaminoVenta ==
    ASSUME TypeOK, Forma, NEW r \in Peticiones, Paso(r) \/ Fallo(r), EsVenta(r)
    PROVE  /\ pc'[r] \in {"leer", "decidir", "padre", "hijo", "confirmar"} =>
                  Insertada(r) \/ (Insertar(r) /\ pc'[r] = "leer")
           /\ pc[r] \notin Final
           /\ pc[r] = "despachar" => pc'[r] \in Final
           /\ ConfirmarVenta(r) => pc'[r] = "despachar"
<1>1. Tipo(r) = "venta" /\ Lugar(r) /\ pc \in [Peticiones -> {pc[q] : q \in Peticiones}]
  BY DEF EsVenta, Forma, TypeOK
<1>2. CASE \/ Iniciar(r) \/ ValidarLinea(r) \/ RechazarSolicitud(r) \/ BloquearLinea(r)
           \/ Despachar(r) \/ CaerTrasConfirmar(r) \/ Abortar(r) \/ Insertar(r)
  BY <1>1, <1>2
  DEF Iniciar, ValidarLinea, RechazarSolicitud, BloquearLinea, Insertar, Despachar,
      CaerTrasConfirmar, Abortar, EnTx, IrA, Final, ConfirmarVenta, Confirmar
<1>3. CASE Leer(r) \/ Decidir(r) \/ DesarmarPadre(r) \/ DescontarHijo(r) \/ ConfirmarVenta(r)
  BY <1>1, <1>3
  DEF Leer, Decidir, DesarmarPadre, DescontarHijo, ConfirmarVenta, Confirmar, Insertada,
      IrA, Final
<1>4. ~(\/ LeerVenta(r) \/ RestaurarLinea(r) \/ ConfirmarAnulacion(r) \/ LeerPadre(r)
        \/ ConfirmarDesarme(r) \/ LeerProducto(r) \/ AplicarAjuste(r)
        \/ GuardarProducto(r) \/ CambiarActivo(r) \/ CerrarSesion(r))
  BY <1>1
  DEF LeerVenta, RestaurarLinea, ConfirmarAnulacion, LeerPadre, ConfirmarDesarme,
      LeerProducto, AplicarAjuste, GuardarProducto, CambiarActivo, CerrarSesion, Lugar
<1>5. QED
  BY <1>2, <1>3, <1>4 DEF Paso, Fallo

LEMMA CaminoAnulacion ==
    ASSUME TypeOK, Forma, NEW r \in Peticiones, Paso(r) \/ Fallo(r), Tipo(r) = "anular",
           pc'[r] \in {"restaurar", "confirmar"}
    PROVE  /\ UNCHANGED <<ventas, caja>>
           /\ pc[r] \in {"restaurar", "confirmar"}
              \/ ventas[operacion[r].venta] = "completada"
<1>1. pc \in [Peticiones -> {pc[q] : q \in Peticiones}] /\ Lugar(r)
  BY DEF TypeOK, Forma
<1>2. CASE LeerVenta(r) \/ RestaurarLinea(r)
  BY <1>1, <1>2 DEF LeerVenta, RestaurarLinea, IrA, base
<1>3. ~(\/ Iniciar(r) \/ ValidarLinea(r) \/ RechazarSolicitud(r) \/ BloquearLinea(r)
        \/ Insertar(r) \/ Leer(r) \/ Decidir(r) \/ DesarmarPadre(r) \/ DescontarHijo(r)
        \/ ConfirmarVenta(r) \/ Despachar(r) \/ CaerTrasConfirmar(r) \/ LeerPadre(r)
        \/ ConfirmarDesarme(r) \/ LeerProducto(r) \/ AplicarAjuste(r)
        \/ GuardarProducto(r) \/ CambiarActivo(r) \/ CerrarSesion(r))
  BY <1>1
  DEF Iniciar, ValidarLinea, RechazarSolicitud, BloquearLinea, Insertar, Leer, Decidir,
      DesarmarPadre, DescontarHijo, ConfirmarVenta, Despachar, CaerTrasConfirmar,
      LeerPadre, ConfirmarDesarme, LeerProducto, AplicarAjuste, GuardarProducto,
      CambiarActivo, CerrarSesion, Lugar, EsVenta
<1>4. ~(ConfirmarAnulacion(r) \/ Abortar(r))
  BY <1>1 DEF ConfirmarAnulacion, Abortar, IrA
<1>5. QED
  BY <1>2, <1>3, <1>4 DEF Paso, Fallo

LEMMA UnicaFilaPaso ==
    ASSUME TypeOK, Forma, UnicaFila, NEW r \in Peticiones, Paso(r) \/ Fallo(r)
    PROVE  UnicaFila'
<1>1. \A q : /\ Tipo(q)' = Tipo(q) /\ EsVenta(q)' = EsVenta(q) /\ operacion' = operacion
  BY MismaOperacion
<1>2. \A x, y : MismaClave(x, y)' = MismaClave(x, y) /\ MismaClave(x, y) = MismaClave(y, x)
  BY <1>1 DEF MismaClave
<1>3. \A q \in Peticiones : Tipo(q) = "anular" => operacion[q].venta \in Peticiones
  BY OperacionForma DEF TypeOK
\* Only its own INSERT gives a sale a row, and only if no other has its key.
<1>4. ASSUME NEW q \in Peticiones, Ocupa(q)', ~Ocupa(q)
      PROVE  /\ q = r
             /\ \A x \in Peticiones : MismaClave(r, x) => ~Ocupa(x)
  <2>1. CASE q # r
    <3>1. Insertada(q)' = Insertada(q)
      BY <1>1, <2>1, Ajeno DEF Insertada
    <3>2. ventas[q] = Nada /\ ventas'[q] # Nada
      BY <1>4, <3>1 DEF Ocupa
    <3>3. ConfirmarAnulacion(r) /\ operacion[r].venta = q
      BY <2>1, <3>2, VentasPaso DEF ConfirmarVenta, ConfirmarAnulacion, TypeOK
    <3>4. ventas[operacion[r].venta] # Nada
      BY <3>3 DEF ConfirmarAnulacion, Confirmar, UnicaFila
    <3>5. QED
      BY <3>2, <3>3, <3>4
  <2>2. CASE q = r
    <3>1. ~Insertada(r) /\ ventas[r] = Nada
      BY <1>4, <2>2 DEF Ocupa
    <3>2. CASE Insertada(r)'
      <4>1. EsVenta(r) /\ Insertar(r) /\ pc'[r] = "leer"
        BY <1>1, <3>1, <3>2, CaminoVenta DEF Insertada
      <4>2. \A x \in Peticiones : MismaClave(r, x) => ~Insertada(x) /\ ventas[x] = Nada
        BY <4>1 DEF Insertar, IrA, TypeOK
      <4>3. QED
        BY <2>2, <4>2 DEF Ocupa
    <3>3. CASE ventas'[r] # Nada
      <4>1. ConfirmarVenta(r) \/ ConfirmarAnulacion(r)
        BY <3>1, <3>3, VentasPaso
      <4>2. ~ConfirmarVenta(r)
        BY <3>1 DEF ConfirmarVenta, Confirmar, Insertada
      <4>3. operacion[r].venta = r /\ Tipo(r) = "anular"
        BY <3>1, <3>3, <4>1, <4>2 DEF ConfirmarAnulacion, TypeOK
      <4>4. QED
        BY <4>3, OperacionForma DEF TypeOK
    <3>4. QED
      BY <1>4, <2>2, <3>2, <3>3 DEF Ocupa
  <2>3. QED
    BY <2>1, <2>2
<1>5. ASSUME NEW x \in Peticiones, NEW y \in Peticiones, MismaClave(x, y)', Ocupa(x)', Ocupa(y)'
      PROVE  FALSE
  <2>1. MismaClave(x, y) /\ MismaClave(y, x) /\ x # y
    BY <1>2, <1>5 DEF MismaClave
  <2>2. ~(Ocupa(x) /\ Ocupa(y))
    BY <2>1 DEF UnicaFila
  <2>3. QED
    BY <1>4, <1>5, <2>1, <2>2
<1>6. ASSUME NEW q \in Peticiones, Tipo(q)' = "anular", pc'[q] \in {"restaurar", "confirmar"}
      PROVE  ventas'[operacion'[q].venta] # Nada
  <2>1. ventas[operacion[q].venta] # Nada
    <3>1. CASE q = r
      BY <1>1, <1>6, <3>1, CaminoAnulacion, StockInicialValido DEF UnicaFila
    <3>2. CASE q # r
      BY <1>1, <1>6, <3>2, Ajeno DEF UnicaFila
    <3>3. QED
      BY <3>1, <3>2
  <2>2. \A v \in Peticiones : ventas[v] # Nada => ventas'[v] # Nada
    <3>1. CASE ConfirmarVenta(r)
      BY <3>1, StockInicialValido DEF ConfirmarVenta, TypeOK
    <3>2. CASE ConfirmarAnulacion(r)
      BY <3>2, StockInicialValido DEF ConfirmarAnulacion, TypeOK
    <3>3. QED
      BY <3>1, <3>2, VentasPaso
  <2>3. QED
    BY <1>1, <1>3, <1>6, <2>1, <2>2
<1>7. QED
  BY <1>5, <1>6 DEF UnicaFila

(***************************************************************************)
(* However often and however concurrently an offline sale is sent, it is   *)
(* registered at most once: the pre-check may miss an open transaction,    *)
(* the UNIQUE index on offline_id does not (venta_service.go:97, :245).    *)
(***************************************************************************)
THEOREM SincronizadaUnaVez == Spec => []OfflineUnaVez
<1>1. Init => UnicaFila
  BY DEF Init, UnicaFila, Ocupa, Insertada
<1>2. TypeOK /\ Forma /\ UnicaFila /\ [Next]_vars => UnicaFila'
  <2> SUFFICES ASSUME TypeOK, Forma, UnicaFila, [Next]_vars PROVE UnicaFila'
    OBVIOUS
  <2>1. CASE UNCHANGED vars
    BY <2>1 DEF UnicaFila, MismaClave, Ocupa, Insertada, EsVenta, Tipo, vars
  <2>2. QED
    BY <2>1, UnicaFilaPaso DEF Next, Terminado
<1>3. UnicaFila => OfflineUnaVez
  BY DEF UnicaFila, Ocupa, OfflineUnaVez
<1>4. QED
  BY <1>1, <1>2, <1>3, TiposIniciales, TiposInductivos, PTL DEF Spec

LEMMA PagosPaso ==
    ASSUME TypeOK, Forma, UnaAnulacionPorVenta, Pagos, NEW r \in Peticiones,
           Paso(r) \/ Fallo(r)
    PROVE  Pagos'
<1>1. /\ operacion' = operacion
      /\ \A q : Tipo(q)' = Tipo(q) /\ EsVenta(q)' = EsVenta(q)
  BY MismaOperacion
<1>2. \A q \in Peticiones : Tipo(q) = "anular" =>
          operacion[q].venta \in Peticiones /\ EsVenta(operacion[q].venta)
  BY OperacionForma DEF TypeOK, EsVenta
<1>3. CASE ConfirmarVenta(r)
  <2>1. EsVenta(r) /\ pc[r] = "confirmar" /\ ventas[r] = Nada /\ caja[r] = 0
    BY <1>3, StockInicialValido DEF ConfirmarVenta, Confirmar, Pagos, Final
  <2>2. /\ ventas' = [ventas EXCEPT ![r] = "completada"]
        /\ caja' = [caja EXCEPT ![r] = @ + 1]
        /\ pc' = [pc EXCEPT ![r] = "despachar"]
    BY <1>3 DEF ConfirmarVenta, IrA
  <2>3. \A q \in Peticiones : caja'[q] = IF ventas'[q] = "completada" THEN 1 ELSE 0
    BY <2>1, <2>2 DEF Pagos, TypeOK
  <2>4. QED
    BY <1>1, <1>2, <2>1, <2>2, <2>3 DEF Pagos, TypeOK, EsVenta
<1>4. CASE ConfirmarAnulacion(r)
  <2> DEFINE v == operacion[r].venta
  <2>1. /\ Tipo(r) = "anular" /\ pc[r] = "confirmar" /\ v \in Peticiones /\ EsVenta(v)
        /\ ventas[v] = "completada" /\ caja[v] = 1
    BY <1>2, <1>4 DEF ConfirmarAnulacion, Confirmar, Pagos
  <2>2. /\ ventas' = [ventas EXCEPT ![v] = "anulada"]
        /\ caja' = [caja EXCEPT ![v] = @ - 1]
        /\ pc' = [pc EXCEPT ![r] = "ok"]
    BY <1>4 DEF ConfirmarAnulacion, IrA
  <2>3. \A q \in Peticiones : caja'[q] = IF ventas'[q] = "completada" THEN 1 ELSE 0
    BY <2>1, <2>2 DEF Pagos, TypeOK
  <2>4. ASSUME NEW q \in Peticiones, EsVenta(q), pc'[q] \notin Final \cup {"despachar"}
        PROVE  ventas'[q] = Nada
    BY <2>1, <2>2, <2>4, StockInicialValido DEF Pagos, TypeOK, EsVenta
  <2>5. ASSUME NEW q \in Peticiones, Tipo(q) = "anular", pc'[q] \in {"restaurar", "confirmar"}
        PROVE  ventas'[operacion[q].venta] = "completada"
    <3>1. q # r
      BY <2>2, <2>5 DEF TypeOK
    <3>2. operacion[q].venta # v /\ operacion[q].venta \in Peticiones
      BY <1>2, <2>1, <2>5, <3>1 DEF UnaAnulacionPorVenta
    <3>3. QED
      BY <2>2, <2>5, <3>1, <3>2 DEF Pagos, TypeOK
  <2>6. QED
    BY <1>1, <2>3, <2>4, <2>5 DEF Pagos
<1>5. CASE UNCHANGED <<ventas, caja>>
  <2>1. ASSUME NEW q \in Peticiones, EsVenta(q), pc'[q] \notin Final \cup {"despachar"}
        PROVE  ventas[q] = Nada
    <3>1. pc[q] \notin Final \cup {"despachar"}
      BY <2>1, Ajeno, CaminoVenta
    <3>2. QED
      BY <2>1, <3>1 DEF Pagos
  <2>2. ASSUME NEW q \in Peticiones, Tipo(q) = "anular", pc'[q] \in {"restaurar", "confirmar"}
        PROVE  ventas[operacion[q].venta] = "completada"
    <3>1. CASE q = r
      BY <2>2, <3>1, CaminoAnulacion DEF Pagos
    <3>2. CASE q # r
      BY <2>2, <3>2, Ajeno DEF Pagos
    <3>3. QED
      BY <3>1, <3>2
  <2>3. QED
    BY <1>1, <1>5, <2>1, <2>2 DEF Pagos
<1>6. QED
  BY <1>3, <1>4, <1>5, VentasPaso

(***************************************************************************)
(* Where no sale is voided by two requests, the till holds the payments of *)
(* exactly the sales that stand: the estado that AnularVenta reads before  *)
(* its transaction is enough only under that condition.                    *)
(***************************************************************************)
THEOREM CajaCuadra == Spec => []CajaSigueAVentas
<1> DEFINE Inv == UnaAnulacionPorVenta => Pagos
<1>1. Init => Inv
  BY StockInicialValido DEF Init, Pagos, Final, EsVenta
<1>2. TypeOK /\ Forma /\ Inv /\ [Next]_vars => Inv'
  <2> SUFFICES ASSUME TypeOK, Forma, Inv, [Next]_vars, UnaAnulacionPorVenta' PROVE Pagos'
    OBVIOUS
  <2>1. operacion' = operacion
    BY DEF Next, Paso, Fallo, Terminado, vars
  <2>2. UnaAnulacionPorVenta
    BY <2>1 DEF UnaAnulacionPorVenta, Tipo
  <2>3. CASE UNCHANGED vars
    BY <2>2, <2>3 DEF Pagos, EsVenta, Tipo, vars
  <2>4. QED
    BY <2>2, <2>3, PagosPaso DEF Next, Terminado
<1>3. Inv => CajaSigueAVentas
  BY DEF Pagos, CajaSigueAVentas
<1>4. QED
  BY <1>1, <1>2, <1>3, TiposIniciales, TiposInductivos, PTL DEF Spec

-----------------------------------------------------------------------------
(* The units of stock. *)

\* What the first k lines of r are worth.
Renglones(r) == [i \in DOMAIN Items(r) |-> Peso(Items(r)[i].p) * Items(r)[i].n]
Hecho(r, k) == SumFunctionOnSet(Renglones(r), 1 .. k)

Escribe == {"leer", "decidir", "padre", "hijo", "restaurar", "confirmar"}

\* What the open transaction of r has changed is worth the lines it has done.
CuentaDe(r) ==
    /\ pc[r] \in {"inicio", "insertar"} => linea[r] = 1
    /\ pc[r] \notin Escribe => delta[r] = [p \in Productos |-> 0]
    /\ pc[r] \in {"leer", "decidir", "padre"} => Unidades(delta[r]) = -Hecho(r, linea[r] - 1)
    /\ pc[r] = "hijo" =>
           Unidades(delta[r]) = -Hecho(r, linea[r] - 1) - Peso(Prod(r)) * UnidadesGeneradas(r)
    /\ pc[r] = "restaurar" => Unidades(delta[r]) = Hecho(r, linea[r] - 1)
    /\ pc[r] = "confirmar" =>
           Unidades(delta[r]) = IF Tipo(r) = "anular" THEN Hecho(r, Len(Items(r)))
                                ELSE -Hecho(r, Len(Items(r)))

Cuentas == \A r \in Peticiones : CuentaDe(r)

-----------------------------------------------------------------------------

LEMMA PesoNat == ASSUME NEW p PROVE Peso(p) \in Nat
<1> DEFINE hijos == {h \in DOMAIN Vinculo : Vinculo[h].padre = p}
<1>1. CASE hijos = {}
  BY <1>1 DEF Peso
<1>2. CASE hijos # {}
  <2>1. PICK h \in hijos : h = CHOOSE x \in hijos : TRUE
    BY <1>2
  <2>2. Peso(p) = Vinculo[h].upp
    BY <1>2, <2>1 DEF Peso
  <2> QED BY <2>2, VinculosValidos
<1> QED BY <1>1, <1>2

LEMMA PesoPadre ==
    ASSUME VinculosSimples, NEW h \in DOMAIN Vinculo
    PROVE  Peso(h) = 1 /\ Peso(Vinculo[h].padre) = Vinculo[h].upp
<1>1. Peso(h) = 1
  <2>1. {k \in DOMAIN Vinculo : Vinculo[k].padre = h} = {}
    BY DEF VinculosSimples
  <2> QED BY <2>1 DEF Peso
<1>2. Peso(Vinculo[h].padre) = Vinculo[h].upp
  <2> DEFINE hijos == {k \in DOMAIN Vinculo : Vinculo[k].padre = Vinculo[h].padre}
  <2>1. h \in hijos
    OBVIOUS
  <2>2. PICK k \in hijos : k = CHOOSE x \in hijos : TRUE
    BY <2>1
  <2>3. Peso(Vinculo[h].padre) = Vinculo[k].upp
    BY <2>1, <2>2 DEF Peso
  <2> QED BY <2>3 DEF VinculosSimples
<1> QED BY <1>1, <1>2

LEMMA UnidadesEs ==
    ASSUME NEW e
    PROVE  Unidades(e) = SumFunctionOnSet([p \in Productos |-> Peso(p) * e[p]], Productos)
BY DEF Unidades, SumFunction

LEMMA UnidadesEnteras ==
    ASSUME IsFiniteSet(Productos), NEW e \in [Productos -> Int]
    PROVE  Unidades(e) \in Int
<1>1. \A p \in Productos : [q \in Productos |-> Peso(q) * e[q]][p] \in Int
  BY PesoNat
<1> QED BY <1>1, UnidadesEs, SumaEntera

LEMMA UnidadesMas ==
    ASSUME IsFiniteSet(Productos), NEW e \in [Productos -> Int], NEW d \in [Productos -> Int],
           NEW s, s = [p \in Productos |-> e[p] + d[p]]
    PROVE  Unidades(s) = Unidades(e) + Unidades(d)
<1> DEFINE F(x) == [p \in Productos |-> Peso(p) * x[p]]
<1>1. \A p \in Productos : F(e)[p] \in Int /\ F(d)[p] \in Int /\ F(s)[p] = F(e)[p] + F(d)[p]
  <2> TAKE p \in Productos
  <2>1. Peso(p) \in Int /\ e[p] \in Int /\ d[p] \in Int /\ s[p] = e[p] + d[p]
    BY PesoNat
  <2>2. \A a, b, c \in Int : a * b \in Int /\ a * (b + c) = a * b + a * c
    OBVIOUS
  <2> QED BY <2>1, <2>2
<1>2. Unidades(e) = SumFunctionOnSet(F(e), Productos) /\ Unidades(d) = SumFunctionOnSet(F(d), Productos)
      /\ Unidades(s) = SumFunctionOnSet(F(s), Productos)
  BY UnidadesEs
<1> HIDE DEF F
<1> QED BY <1>1, <1>2, SumaMas

LEMMA UnidadesCambian ==
    ASSUME IsFiniteSet(Productos), NEW e \in [Productos -> Int], NEW a \in Productos,
           NEW k \in Int, NEW s, s = [e EXCEPT ![a] = @ + k]
    PROVE  Unidades(s) = Unidades(e) + Peso(a) * k
<1> DEFINE d == [p \in Productos |-> IF p = a THEN k ELSE 0]
           z == [p \in Productos |-> 0]
           F(x) == [p \in Productos |-> Peso(p) * x[p]]
<1>1. Unidades(s) = Unidades(e) + Unidades(d)
  <2>1. s = [p \in Productos |-> e[p] + d[p]]
    <3>1. \A p \in Productos : s[p] = e[p] + d[p]
      OBVIOUS
    <3>2. s = [p \in Productos |-> s[p]]
      OBVIOUS
    <3> HIDE DEF d
    <3> QED BY <3>1, <3>2, Zenon
  <2>2. d \in [Productos -> Int]
    OBVIOUS
  <2> HIDE DEF d
  <2> QED BY <2>1, <2>2, UnidadesMas
<1>2. SumFunctionOnSet(F(z), Productos) = 0
  <2>1. \A p \in Productos : F(z)[p] = 0
    BY PesoNat
  <2> HIDE DEF F
  <2> QED BY <2>1, SumaCero
<1>3. SumFunctionOnSet(F(d), Productos) = SumFunctionOnSet(F(z), Productos) + (F(d)[a] - F(z)[a])
  <2>1. \A p \in Productos : F(z)[p] \in Int /\ F(d)[p] \in Int
    BY PesoNat
  <2>2. \A p \in Productos : p # a => F(d)[p] = F(z)[p]
    OBVIOUS
  <2> HIDE DEF F, d, z
  <2> QED BY <2>1, <2>2, SumaCambia
<1>4. F(d)[a] = Peso(a) * k /\ F(z)[a] = 0 /\ Peso(a) * k \in Int
  BY PesoNat
<1>5. Unidades(d) = SumFunctionOnSet(F(d), Productos)
  BY UnidadesEs
<1> HIDE DEF F, d, z
<1> QED BY <1>1, <1>2, <1>3, <1>4, <1>5

LEMMA UnidadesNinguna ==
    ASSUME IsFiniteSet(Productos)
    PROVE  Unidades([p \in Productos |-> 0]) = 0
<1> DEFINE z == [p \in Productos |-> 0]
<1>1. z = [p \in Productos |-> z[p] + z[p]] /\ z \in [Productos -> Int]
  OBVIOUS
<1> HIDE DEF z
<1>2. Unidades(z) = Unidades(z) + Unidades(z)
  BY <1>1, UnidadesMas
<1>3. Unidades(z) \in Int
  BY <1>1, UnidadesEnteras
<1>4. \A k \in Int : k = k + k => k = 0
  OBVIOUS
<1> QED BY <1>2, <1>3, <1>4 DEF z

LEMMA HechoPaso ==
    ASSUME operacion \in Cargas, NEW r \in Peticiones, ConLineas(r),
           NEW k \in Nat, k + 1 \in 1 .. Len(Items(r))
    PROVE  /\ Hecho(r, k + 1) = Hecho(r, k) + Peso(Items(r)[k + 1].p) * Items(r)[k + 1].n
           /\ Hecho(r, k) \in Int
           /\ Hecho(r, 0) = 0
<1>1. DOMAIN Items(r) = 1 .. Len(Items(r)) /\ Len(Items(r)) \in Nat
  BY ItemsForma
<1>2. \A i \in DOMAIN Items(r) : Renglones(r)[i] \in Int
  BY ItemsForma, PesoNat DEF Renglones
<1>3. \A i \in 1 .. (k + 1) : Renglones(r)[i] \in Int
  BY <1>1, <1>2
<1>4. Renglones(r)[k + 1] = Peso(Items(r)[k + 1].p) * Items(r)[k + 1].n
  BY <1>1 DEF Renglones
<1>5. /\ Hecho(r, k + 1) = Hecho(r, k) + Renglones(r)[k + 1]
      /\ Hecho(r, k) \in Int
  BY <1>3, SumaTramo DEF Hecho
<1>6. Hecho(r, 0) = 0
  <2>1. 1 .. 0 = {}
    OBVIOUS
  <2> QED BY <2>1, SumaVacia DEF Hecho
<1> QED BY <1>4, <1>5, <1>6

LEMMA UnidadesPrima ==
    ASSUME NEW r
    PROVE  /\ Unidades(delta[r])' = Unidades(delta'[r])
           /\ Unidades(stock)' = Unidades(stock')
BY DEF Unidades, SumFunction, Peso

LEMMA RenglonesPrima ==
    ASSUME NEW r \in Peticiones, Paso(r) \/ Fallo(r)
    PROVE  \A q : Renglones(q)' = Renglones(q)
<1> TAKE q
<1>1. Items(q)' = Items(q)
  BY MismaOperacion
<1> QED BY <1>1 DEF Renglones, Peso

LEMMA CuentaIgual ==
    ASSUME NEW q, CuentaDe(q), operacion' = operacion, pc'[q] = pc[q], linea'[q] = linea[q],
           padres'[q] = padres[q], delta'[q] = delta[q]
    PROVE  CuentaDe(q)'
<1>1. Tipo(q)' = Tipo(q) /\ Items(q)' = Items(q)
  BY DEF Tipo, Items, EsVenta
<1>2. Prod(q)' = Prod(q)
  BY <1>1 DEF Prod
<1>3. Peso(Prod(q))' = Peso(Prod(q)) /\ UnidadesGeneradas(q)' = UnidadesGeneradas(q)
  BY <1>2 DEF Peso, UnidadesGeneradas
<1>4. Unidades(delta[q])' = Unidades(delta[q])
  BY UnidadesPrima
<1>5. Renglones(q)' = Renglones(q)
  BY <1>1 DEF Renglones, Peso
<1>6. /\ Hecho(q, linea[q] - 1)' = Hecho(q, linea[q] - 1)
      /\ Hecho(q, Len(Items(q)))' = Hecho(q, Len(Items(q)))
  BY <1>1, <1>5 DEF Hecho
<1> QED BY <1>1, <1>3, <1>4, <1>6 DEF CuentaDe

LEMMA CuentaAjena ==
    ASSUME TypeOK, Forma, NEW r \in Peticiones, NEW q \in Peticiones, q # r,
           Paso(r) \/ Fallo(r), CuentaDe(q)
    PROVE  CuentaDe(q)'
BY Ajeno, MismaOperacion, CuentaIgual

LEMMA SoltarCuenta ==
    ASSUME TypeOK, NEW r \in Peticiones, Soltar(r), pc'[r] \notin Escribe \cup {"inicio", "insertar"}
    PROVE  CuentaDe(r)'
<1>1. delta'[r] = [p \in Productos |-> 0]
  BY DEF Soltar, TypeOK
<1> QED BY <1>1 DEF CuentaDe, Escribe

\* A step of r that only moves it, outside its writes or within them.
LEMMA MismaCuenta ==
    ASSUME TypeOK, NEW r \in Peticiones, Paso(r) \/ Fallo(r), CuentaDe(r),
           delta' = delta,
           \/ /\ pc[r] \notin Escribe /\ pc'[r] \notin Escribe
              /\ pc'[r] \in {"inicio", "insertar"} => linea'[r] = 1
           \/ /\ pc[r] \in {"leer", "decidir"} /\ pc'[r] \in {"leer", "decidir", "padre"}
              /\ linea'[r] = linea[r]
    PROVE  CuentaDe(r)'
<1>1. operacion' = operacion
  BY MismaOperacion
<1>2. CASE pc[r] \notin Escribe
  BY <1>2 DEF CuentaDe, Escribe
<1>3. CASE pc[r] \in Escribe
  <2>1. Hecho(r, linea[r] - 1)' = Hecho(r, linea[r] - 1)
    <3>1. linea'[r] = linea[r]
      BY <1>3 DEF Escribe
    <3> QED BY <1>1, <3>1, RenglonesPrima DEF Hecho
  <2>2. Unidades(delta[r])' = Unidades(delta[r])
    BY UnidadesPrima
  <2> QED BY <1>3, <2>1, <2>2 DEF CuentaDe, Escribe
<1> QED BY <1>2, <1>3

\* The sums before and after the line r is at.
LEMMA LineaCuenta ==
    ASSUME TypeOK, NEW r \in Peticiones, Lugar(r), ConLineas(r)
    PROVE  /\ Hecho(r, linea[r] - 1) \in Int
           /\ Hecho(r, linea[r]) = Hecho(r, linea[r] - 1) + Peso(Prod(r)) * Cant(r)
           /\ Hecho(r, 0) = 0
           /\ Peso(Prod(r)) * Cant(r) \in Int
<1>1. linea[r] \in 1 .. Len(Items(r)) /\ Len(Items(r)) \in Nat /\ Cant(r) \in Nat
  BY Valores
<1>2. linea[r] - 1 \in Nat /\ (linea[r] - 1) + 1 = linea[r]
  BY <1>1
<1>3. /\ Hecho(r, linea[r]) = Hecho(r, linea[r] - 1) + Peso(Items(r)[linea[r]].p) * Items(r)[linea[r]].n
      /\ Hecho(r, linea[r] - 1) \in Int /\ Hecho(r, 0) = 0
  <2> DEFINE k == linea[r] - 1
  <2>1. k \in Nat /\ k + 1 \in 1 .. Len(Items(r)) /\ k + 1 = linea[r] /\ operacion \in Cargas
    BY <1>1, <1>2 DEF TypeOK
  <2> HIDE DEF k
  <2>2. /\ Hecho(r, k + 1) = Hecho(r, k) + Peso(Items(r)[k + 1].p) * Items(r)[k + 1].n
        /\ Hecho(r, k) \in Int /\ Hecho(r, 0) = 0
    BY <2>1, HechoPaso
  <2>3. Hecho(r, linea[r] - 1) = Hecho(r, k)
    BY DEF k
  <2> QED BY <2>1, <2>2, <2>3
<1>4. Peso(Prod(r)) * Cant(r) \in Int
  BY <1>1, PesoNat
<1> QED BY <1>3, <1>4 DEF Prod, Cant

LEMMA CuentaPadre ==
    ASSUME IsFiniteSet(Productos), VinculosSimples,
           TypeOK, Forma, NEW r \in Peticiones, Paso(r), CuentaDe(r), DesarmarPadre(r)
    PROVE  CuentaDe(r)'
<1> DEFINE p == Vinculo[Prod(r)].padre
           u == UnidadesGeneradas(r)
<1>1. /\ pc[r] = "padre" /\ pc'[r] = "hijo" /\ linea' = linea /\ padres' = padres
      /\ operacion' = operacion /\ delta' = [delta EXCEPT ![r][p] = @ - padres[r]]
  BY MismaOperacion DEF DesarmarPadre, IrA, TypeOK
<1>2. Lugar(r) /\ ConLineas(r) /\ Prod(r) \in DOMAIN Vinculo /\ padres[r] \in Nat /\ padres[r] > 0
  BY <1>1 DEF Forma, Lugar, ConLineas, TypeOK
<1>3. p \in Productos /\ delta[r] \in [Productos -> Int]
  BY <1>2, VinculosValidos DEF TypeOK
<1>4. delta'[r] = [delta[r] EXCEPT ![p] = @ + (-padres[r])]
  BY <1>1, <1>2, <1>3 DEF TypeOK
<1>5. Unidades(delta'[r]) = Unidades(delta[r]) + Peso(p) * (-padres[r])
  <2>1. -padres[r] \in Int
    BY <1>2
  <2> HIDE DEF p
  <2> QED BY <1>3, <1>4, <2>1, UnidadesCambian
<1>6. Peso(p) = Vinculo[Prod(r)].upp /\ Peso(Prod(r)) = 1 /\ Vinculo[Prod(r)].upp \in Nat
  BY <1>2, PesoPadre, VinculosValidos
<1>7. Peso(p) * (-padres[r]) = -(Peso(Prod(r)) * u)
  <2>1. u = padres[r] * Vinculo[Prod(r)].upp
    BY <1>2 DEF UnidadesGeneradas
  <2>2. \A i, j \in Nat : i * (-j) = -(1 * (j * i))
    OBVIOUS
  <2> QED BY <1>2, <1>6, <2>1, <2>2
<1>8. Unidades(delta[r]) = -Hecho(r, linea[r] - 1)
  BY <1>1 DEF CuentaDe
<1>9. Hecho(r, linea[r] - 1) \in Int /\ Peso(Prod(r)) * u \in Int
  BY <1>1, <1>2, <1>6, LineaCuenta, Valores
<1>10. Unidades(delta'[r]) = -Hecho(r, linea[r] - 1) - Peso(Prod(r)) * u
  <2> HIDE DEF u, p
  <2> QED BY <1>5, <1>7, <1>8, <1>9
<1>11. /\ Unidades(delta[r])' = Unidades(delta'[r])
       /\ Hecho(r, linea[r] - 1)' = Hecho(r, linea[r] - 1)
       /\ (Peso(Prod(r)) * UnidadesGeneradas(r))' = Peso(Prod(r)) * u
  <2>1. Unidades(delta[r])' = Unidades(delta'[r])
    BY UnidadesPrima
  <2>2. Hecho(r, linea[r] - 1)' = Hecho(r, linea[r] - 1)
    BY <1>1, RenglonesPrima DEF Hecho
  <2>3. Prod(r)' = Prod(r)
    BY <1>1, MismaOperacion DEF Prod
  <2>4. (Peso(Prod(r)) * UnidadesGeneradas(r))' = Peso(Prod(r)) * u
    BY <1>1, <2>3 DEF Peso, UnidadesGeneradas
  <2> QED BY <2>1, <2>2, <2>4
<1> QED BY <1>1, <1>10, <1>11 DEF CuentaDe, Escribe

LEMMA CuentaHijo ==
    ASSUME IsFiniteSet(Productos),
           TypeOK, Forma, NEW r \in Peticiones, Paso(r), CuentaDe(r), DescontarHijo(r)
    PROVE  CuentaDe(r)'
<1> DEFINE p == Prod(r)
           u == UnidadesGeneradas(r)
           k == u - Cant(r)
<1>1. /\ pc[r] = "hijo" /\ operacion' = operacion /\ delta' = [delta EXCEPT ![r][p] = @ + k]
      /\ \/ UltimaLinea(r) /\ pc'[r] = "confirmar" /\ linea' = linea
         \/ ~UltimaLinea(r) /\ pc'[r] = "leer" /\ linea'[r] = linea[r] + 1
  BY MismaOperacion DEF DescontarHijo, IrA, Linea, TypeOK
<1>2. Lugar(r) /\ ConLineas(r) /\ Tipo(r) # "anular"
  BY <1>1 DEF Forma, Lugar, ConLineas, EsVenta
<1>3. /\ p \in Productos /\ Cant(r) \in Nat /\ u \in Int /\ delta[r] \in [Productos -> Int]
      /\ linea[r] \in 1 .. Len(Items(r)) /\ Len(Items(r)) \in Nat
  BY <1>1, <1>2, Valores DEF TypeOK
<1>4. delta'[r] = [delta[r] EXCEPT ![p] = @ + k]
  BY <1>1, <1>3 DEF TypeOK
<1>5. Unidades(delta'[r]) = Unidades(delta[r]) + Peso(p) * k
  <2>1. k \in Int
    BY <1>3
  <2> HIDE DEF p, k
  <2> QED BY <1>3, <1>4, <2>1, UnidadesCambian
<1>6. Peso(p) * k = Peso(p) * u - Peso(p) * Cant(r) /\ Peso(p) * u \in Int
  <2>1. \A a, b, c \in Int : a * (b - c) = a * b - a * c /\ a * b \in Int
    OBVIOUS
  <2>2. Peso(p) \in Int
    BY PesoNat
  <2> QED BY <1>3, <2>1, <2>2
<1>7. /\ Hecho(r, linea[r] - 1) \in Int /\ Peso(p) * Cant(r) \in Int
      /\ Hecho(r, linea[r]) = Hecho(r, linea[r] - 1) + Peso(p) * Cant(r)
  BY <1>2, LineaCuenta
<1>8. Unidades(delta[r]) = -Hecho(r, linea[r] - 1) - Peso(p) * u
  BY <1>1 DEF CuentaDe
<1>9. Unidades(delta'[r]) = -Hecho(r, linea[r])
  <2> HIDE DEF p, u, k
  <2> QED BY <1>5, <1>6, <1>7, <1>8
<1>10. Unidades(delta[r])' = Unidades(delta'[r])
  BY UnidadesPrima
<1>11. CASE UltimaLinea(r)
  <2>1. pc'[r] = "confirmar" /\ linea[r] = Len(Items(r))
    BY <1>1, <1>11 DEF UltimaLinea
  <2>2. Hecho(r, Len(Items(r)))' = Hecho(r, linea[r])
    BY <2>1, RenglonesPrima, MismaOperacion DEF Hecho
  <2>3. Tipo(r)' # "anular"
    BY <1>2, MismaOperacion
  <2> QED BY <1>9, <1>10, <2>1, <2>2, <2>3 DEF CuentaDe, Escribe
<1>12. CASE ~UltimaLinea(r)
  <2>1. pc'[r] = "leer" /\ linea'[r] = linea[r] + 1
    BY <1>1, <1>12
  <2>2. linea'[r] - 1 = linea[r]
    BY <1>3, <2>1
  <2>3. Hecho(r, linea[r] - 1)' = Hecho(r, linea[r])
    BY <1>1, <2>2, RenglonesPrima DEF Hecho
  <2> QED BY <1>9, <1>10, <2>1, <2>3 DEF CuentaDe, Escribe
<1> QED BY <1>11, <1>12

LEMMA CuentaRestaurada ==
    ASSUME IsFiniteSet(Productos),
           TypeOK, Forma, NEW r \in Peticiones, Paso(r), CuentaDe(r), RestaurarLinea(r)
    PROVE  CuentaDe(r)'
<1> DEFINE p == Prod(r)
<1>1. /\ pc[r] = "restaurar" /\ operacion' = operacion
      /\ delta' = [delta EXCEPT ![r][p] = @ + Cant(r)]
      /\ \/ UltimaLinea(r) /\ pc'[r] = "confirmar" /\ linea' = linea
         \/ ~UltimaLinea(r) /\ pc'[r] = "restaurar" /\ linea'[r] = linea[r] + 1
  BY MismaOperacion DEF RestaurarLinea, IrA, Linea, TypeOK
<1>2. Lugar(r) /\ ConLineas(r) /\ Tipo(r) = "anular"
  BY <1>1 DEF Forma, Lugar, ConLineas
<1>3. /\ p \in Productos /\ Cant(r) \in Nat /\ delta[r] \in [Productos -> Int]
      /\ linea[r] \in 1 .. Len(Items(r)) /\ Len(Items(r)) \in Nat
  BY <1>1, <1>2, Valores DEF TypeOK
<1>4. delta'[r] = [delta[r] EXCEPT ![p] = @ + Cant(r)]
  BY <1>1, <1>3 DEF TypeOK
<1>5. Unidades(delta'[r]) = Unidades(delta[r]) + Peso(p) * Cant(r)
  <2> HIDE DEF p
  <2> QED BY <1>3, <1>4, UnidadesCambian
<1>6. /\ Hecho(r, linea[r] - 1) \in Int /\ Peso(p) * Cant(r) \in Int
      /\ Hecho(r, linea[r]) = Hecho(r, linea[r] - 1) + Peso(p) * Cant(r)
  BY <1>2, LineaCuenta
<1>7. Unidades(delta'[r]) = Hecho(r, linea[r])
  BY <1>1, <1>5, <1>6 DEF CuentaDe
<1>8. Unidades(delta[r])' = Unidades(delta'[r])
  BY UnidadesPrima
<1>9. CASE UltimaLinea(r)
  <2>1. pc'[r] = "confirmar" /\ linea[r] = Len(Items(r))
    BY <1>1, <1>9 DEF UltimaLinea
  <2>2. Hecho(r, Len(Items(r)))' = Hecho(r, linea[r])
    BY <2>1, RenglonesPrima, MismaOperacion DEF Hecho
  <2>3. Tipo(r)' = "anular"
    BY <1>2, MismaOperacion
  <2> QED BY <1>7, <1>8, <2>1, <2>2, <2>3 DEF CuentaDe, Escribe
<1>10. CASE ~UltimaLinea(r)
  <2>1. pc'[r] = "restaurar" /\ linea'[r] = linea[r] + 1
    BY <1>1, <1>10
  <2>2. linea'[r] - 1 = linea[r]
    BY <1>3, <2>1
  <2>3. Hecho(r, linea[r] - 1)' = Hecho(r, linea[r])
    BY <1>1, <2>2, RenglonesPrima DEF Hecho
  <2> QED BY <1>7, <1>8, <2>1, <2>3 DEF CuentaDe, Escribe
<1> QED BY <1>9, <1>10

\* A transaction that begins has changed nothing and done no line.
LEMMA CuentaNueva ==
    ASSUME IsFiniteSet(Productos), TypeOK, Forma', NEW r \in Peticiones, Paso(r), CuentaDe(r),
           pc[r] \in {"inicio", "insertar"}, pc'[r] \in {"leer", "padre", "restaurar"},
           delta' = delta, linea' = linea
    PROVE  CuentaDe(r)'
<1>1. linea[r] = 1 /\ delta[r] = [p \in Productos |-> 0]
  BY DEF CuentaDe, Escribe
<1>2. Unidades(delta[r]) = 0
  BY <1>1, UnidadesNinguna
<1>3. Unidades(delta[r])' = 0
  BY <1>2, UnidadesPrima
<1>4. Hecho(r, linea[r] - 1)' = 0
  <2>1. linea'[r] - 1 = 0
    BY <1>1
  <2>2. 1 .. 0 = {}
    OBVIOUS
  <2> QED BY <2>1, <2>2, SumaVacia DEF Hecho
<1> QED BY <1>3, <1>4 DEF CuentaDe, Escribe

LEMMA CuentaPropia ==
    ASSUME IsFiniteSet(Productos), VinculosSimples,
           TypeOK, Forma, Forma', NEW r \in Peticiones, Paso(r) \/ Fallo(r), CuentaDe(r)
    PROVE  CuentaDe(r)'
<1> USE DEF IrA, tx
<1>a. pc \in [Peticiones -> {pc[q] : q \in Peticiones}] /\ linea \in [Peticiones -> Nat]
      /\ padres \in [Peticiones -> Nat]
  BY DEF TypeOK
<1>b. operacion' = operacion
  BY MismaOperacion
<1>1. CASE Iniciar(r)
  BY <1>a, <1>1, MismaCuenta DEF Iniciar, Escribe
<1>2. CASE ValidarLinea(r)
  BY <1>a, <1>2, MismaCuenta DEF ValidarLinea, Linea, Escribe
<1>3. CASE RechazarSolicitud(r)
  BY <1>a, <1>3, MismaCuenta DEF RechazarSolicitud, Escribe
<1>4. CASE BloquearLinea(r)
  <2>1. CASE Soltar(r) /\ pc'[r] = "rechazada"
    BY <2>1, SoltarCuenta DEF Escribe
  <2>2. CASE delta' = delta /\ pc[r] = "bloqueo"
             /\ (pc'[r] = "bloqueo" \/ (pc'[r] = "insertar" /\ linea'[r] = 1))
    BY <2>2, MismaCuenta DEF Escribe
  <2> QED BY <1>a, <1>4, <2>1, <2>2 DEF BloquearLinea, Linea
<1>5. CASE Insertar(r)
  <2>1. CASE Soltar(r) /\ pc'[r] = "error"
    BY <2>1, SoltarCuenta DEF Escribe
  <2>2. CASE delta' = delta /\ pc[r] = "insertar" /\ pc'[r] = "leer" /\ linea' = linea
    <3>1. Paso(r)
      BY <1>b, <1>5 DEF Paso
    <3> QED BY <2>2, <3>1, CuentaNueva
  <2> QED BY <1>a, <1>5, <2>1, <2>2 DEF Insertar
<1>6. CASE Leer(r)
  BY <1>a, <1>6, MismaCuenta DEF Leer, Escribe
<1>7. CASE Decidir(r)
  <2>1. CASE PadresADesarmar(r) > 0
    BY <1>a, <1>7, <2>1, MismaCuenta DEF Decidir, Escribe
  <2>2. CASE ~(PadresADesarmar(r) > 0)
    <3>1. /\ pc[r] = "decidir" /\ pc'[r] = "hijo" /\ linea' = linea /\ delta' = delta
          /\ padres'[r] = PadresADesarmar(r)
      BY <1>a, <1>7, <2>2 DEF Decidir
    <3>2. ~(padres'[r] > 0)
      BY <2>2, <3>1
    <3>3. UnidadesGeneradas(r)' = 0
      BY <3>2 DEF UnidadesGeneradas
    <3>4. (Peso(Prod(r)) * UnidadesGeneradas(r))' = 0
      <4>1. Peso(Prod(r))' \in Nat
        <5>1. Peso(Prod(r)') \in Nat
          BY PesoNat
        <5> QED BY <5>1 DEF Peso
      <4> QED BY <3>3, <4>1
    <3>5. Hecho(r, linea[r] - 1)' = Hecho(r, linea[r] - 1)
      BY <3>1, RenglonesPrima DEF Hecho
    <3>6. Unidades(delta[r])' = Unidades(delta[r])
      BY <3>1, UnidadesPrima
    <3>7. Unidades(delta[r]) = -Hecho(r, linea[r] - 1)
      BY <3>1 DEF CuentaDe
    <3>8. Hecho(r, linea[r] - 1) \in Int
      <4>1. Lugar(r) /\ ConLineas(r)
        BY <3>1 DEF Forma, Lugar, ConLineas, EsVenta
      <4> QED BY <4>1, LineaCuenta
    <3>9. -Hecho(r, linea[r] - 1) = -Hecho(r, linea[r] - 1) - 0
      BY <3>8
    <3> QED BY <3>1, <3>4, <3>5, <3>6, <3>7, <3>9 DEF CuentaDe, Escribe
  <2> QED BY <2>1, <2>2
<1>8. CASE DesarmarPadre(r)
  <2>1. Paso(r)
    BY <1>b, <1>8 DEF Paso
  <2> QED BY <1>8, <2>1, CuentaPadre
<1>9. CASE DescontarHijo(r)
  <2>1. Paso(r)
    BY <1>b, <1>9 DEF Paso
  <2> QED BY <1>9, <2>1, CuentaHijo
<1>10. CASE RestaurarLinea(r)
  <2>1. Paso(r)
    BY <1>b, <1>10 DEF Paso
  <2> QED BY <1>10, <2>1, CuentaRestaurada
<1>11. CASE ConfirmarVenta(r) \/ ConfirmarAnulacion(r) \/ ConfirmarDesarme(r)
  <2>1. Soltar(r) /\ pc'[r] \in {"despachar", "ok"}
    BY <1>a, <1>11 DEF ConfirmarVenta, ConfirmarAnulacion, ConfirmarDesarme, Confirmar
  <2> QED BY <2>1, SoltarCuenta DEF Escribe
<1>12. CASE Despachar(r) \/ CaerTrasConfirmar(r)
  BY <1>a, <1>12, MismaCuenta DEF Despachar, CaerTrasConfirmar, Escribe
<1>13. CASE LeerVenta(r)
  <2>1. CASE pc'[r] = "restaurar"
    <3>1. Paso(r)
      BY <1>b, <1>13 DEF Paso
    <3> QED BY <1>13, <2>1, <3>1, CuentaNueva DEF LeerVenta
  <2>2. CASE pc'[r] # "restaurar"
    BY <1>a, <1>13, <2>2, MismaCuenta DEF LeerVenta, Escribe
  <2> QED BY <2>1, <2>2
<1>14. CASE LeerPadre(r)
  <2>1. CASE pc'[r] = "padre"
    <3>1. Paso(r)
      BY <1>b, <1>14 DEF Paso
    <3> QED BY <1>14, <2>1, <3>1, CuentaNueva DEF LeerPadre
  <2>2. CASE pc'[r] # "padre"
    BY <1>a, <1>14, <2>2, MismaCuenta DEF LeerPadre, Escribe
  <2> QED BY <2>1, <2>2
<1>15. CASE LeerProducto(r) \/ AplicarAjuste(r) \/ GuardarProducto(r)
  BY <1>a, <1>15, MismaCuenta DEF LeerProducto, AplicarAjuste, GuardarProducto, Escribe
<1>16. CASE CambiarActivo(r) \/ CerrarSesion(r)
  BY <1>a, <1>16, MismaCuenta DEF CambiarActivo, CerrarSesion, Escribe
<1>17. CASE Abortar(r)
  <2>1. Soltar(r) /\ pc'[r] = "error"
    BY <1>a, <1>17 DEF Abortar
  <2> QED BY <2>1, SoltarCuenta DEF Escribe
<1> QED
  BY <1>1, <1>2, <1>3, <1>4, <1>5, <1>6, <1>7, <1>8, <1>9, <1>10, <1>11, <1>12, <1>13,
     <1>14, <1>15, <1>16, <1>17 DEF Paso, Fallo

-----------------------------------------------------------------------------
(* The committed stock. *)

\* Units sold by the sales of S, and adjusted by the requests of S.
Vendidas(S) == SumFunctionOnSet([r \in S |-> UnidadesVendidas(r)], S)
Ajustadas(S) == SumFunctionOnSet([r \in S |-> UnidadesAjustadas(r)], S)

Balance ==
    Unidades(stock) = Unidades(StockInicial) - Vendidas(EnPie) + Ajustadas(Ajustados)

SoloVentas == \A r \in Peticiones : ventas[r] # Nada => EsVenta(r)

LEMMA BalanceEs ==
    ASSUME SinEdiciones, UnaAnulacionPorVenta
    PROVE  UnidadesConservadas <=> Balance
BY DEF UnidadesConservadas, Balance, Vendidas, Ajustadas, SumFunction

LEMMA VendidasHecho ==
    ASSUME operacion \in Cargas, NEW r \in Peticiones, EsVenta(r)
    PROVE  UnidadesVendidas(r) \in Int /\ Hecho(r, Len(Items(r))) = UnidadesVendidas(r)
<1>1. ConLineas(r) /\ Items(r) = operacion[r].items
  BY DEF ConLineas, EsVenta, Items
<1>2. Len(Items(r)) \in Nat \ {0} /\ DOMAIN Items(r) = 1 .. Len(Items(r))
  BY <1>1, ItemsForma
<1>3. UnidadesVendidas(r) = SumFunctionOnSet(Renglones(r), DOMAIN Items(r))
  BY <1>1 DEF UnidadesVendidas, SumFunction, Renglones
<1>4. Hecho(r, Len(Items(r))) = UnidadesVendidas(r)
  BY <1>2, <1>3 DEF Hecho
<1>5. \A i \in DOMAIN Items(r) : Renglones(r)[i] \in Int
  BY <1>1, ItemsForma, PesoNat DEF Renglones
<1>6. IsFiniteSet(DOMAIN Items(r))
  BY <1>2, FS_Interval
<1> QED BY <1>3, <1>4, <1>5, <1>6, SumaEntera

LEMMA AnuladasHecho ==
    ASSUME operacion \in Cargas, NEW r \in Peticiones, Tipo(r) = "anular"
    PROVE  Hecho(r, Len(Items(r))) = UnidadesVendidas(operacion[r].venta)
<1> DEFINE v == operacion[r].venta
<1>1. v \in Peticiones /\ EsVenta(v)
  BY OperacionForma DEF EsVenta
<1>2. Items(r) = Items(v)
  BY <1>1 DEF Items, EsVenta
<1>3. Hecho(r, Len(Items(r))) = Hecho(v, Len(Items(v)))
  BY <1>2 DEF Hecho, Renglones
<1> QED BY <1>1, <1>3, VendidasHecho

LEMMA VendidasCrecen ==
    ASSUME operacion \in Cargas, NEW S, IsFiniteSet(S),
           \A r \in S : r \in Peticiones /\ EsVenta(r),
           NEW a \in Peticiones, EsVenta(a), a \notin S
    PROVE  /\ Vendidas(S \cup {a}) = Vendidas(S) + UnidadesVendidas(a)
           /\ Vendidas(S) \in Int
<1> DEFINE f == [r \in S |-> UnidadesVendidas(r)]
           g == [r \in S \cup {a} |-> UnidadesVendidas(r)]
<1>1. \A r \in S : f[r] \in Int /\ g[r] = f[r]
  BY VendidasHecho
<1>2. g[a] = UnidadesVendidas(a) /\ g[a] \in Int
  BY VendidasHecho
<1> HIDE DEF f, g
<1>3. SumFunctionOnSet(g, S \cup {a}) = SumFunctionOnSet(f, S) + g[a]
  <2>1. SumFunctionOnSet(g, S) = SumFunctionOnSet(f, S)
    BY <1>1, SumaIgual
  <2>2. \A r \in S \cup {a} : g[r] \in Int
    BY <1>1, <1>2
  <2>3. SumFunctionOnSet(g, S \cup {a}) = SumFunctionOnSet(g, S) + g[a]
    BY <2>2, SumaAgrega
  <2> QED BY <2>1, <2>3
<1>4. SumFunctionOnSet(f, S) \in Int
  BY <1>1, SumaEntera
<1> QED BY <1>2, <1>3, <1>4 DEF Vendidas, f, g

LEMMA AjustadasCrecen ==
    ASSUME operacion \in Cargas, NEW S, IsFiniteSet(S),
           \A r \in S : r \in Peticiones /\ Tipo(r) = "ajuste",
           NEW a \in Peticiones, Tipo(a) = "ajuste", a \notin S
    PROVE  /\ Ajustadas(S \cup {a}) = Ajustadas(S) + UnidadesAjustadas(a)
           /\ Ajustadas(S) \in Int
<1> DEFINE f == [r \in S |-> UnidadesAjustadas(r)]
           g == [r \in S \cup {a} |-> UnidadesAjustadas(r)]
<1>0. \A r \in S \cup {a} : UnidadesAjustadas(r) \in Int
  BY OperacionForma, PesoNat DEF UnidadesAjustadas
<1>1. \A r \in S : f[r] \in Int /\ g[r] = f[r]
  BY <1>0
<1>2. g[a] = UnidadesAjustadas(a) /\ g[a] \in Int
  BY <1>0
<1> HIDE DEF f, g
<1>3. SumFunctionOnSet(g, S \cup {a}) = SumFunctionOnSet(f, S) + g[a]
  <2>1. SumFunctionOnSet(g, S) = SumFunctionOnSet(f, S)
    BY <1>1, SumaIgual
  <2>2. \A r \in S \cup {a} : g[r] \in Int
    BY <1>1, <1>2
  <2>3. SumFunctionOnSet(g, S \cup {a}) = SumFunctionOnSet(g, S) + g[a]
    BY <2>2, SumaAgrega
  <2> QED BY <2>1, <2>3
<1>4. SumFunctionOnSet(f, S) \in Int
  BY <1>1, SumaEntera
<1> QED BY <1>2, <1>3, <1>4 DEF Ajustadas, f, g

\* Every sum of the balance is a number.
LEMMA SumasEnteras ==
    ASSUME IsFiniteSet(Productos), IsFiniteSet(Peticiones), TypeOK, SoloVentas
    PROVE  /\ Unidades(stock) \in Int /\ Unidades(StockInicial) \in Int
           /\ Vendidas(EnPie) \in Int /\ Ajustadas(Ajustados) \in Int
           /\ IsFiniteSet(EnPie) /\ IsFiniteSet(Ajustados)
<1>1. IsFiniteSet(EnPie) /\ IsFiniteSet(Ajustados)
  BY FS_Subset DEF EnPie, Ajustados
<1>2. Unidades(stock) \in Int /\ Unidades(StockInicial) \in Int
  BY UnidadesEnteras, StockInicialValido DEF TypeOK
<1>3. Vendidas(EnPie) \in Int
  <2> DEFINE f == [r \in EnPie |-> UnidadesVendidas(r)]
  <2>1. \A r \in EnPie : f[r] \in Int
    BY VendidasHecho, StockInicialValido DEF EnPie, SoloVentas, TypeOK
  <2> HIDE DEF f
  <2>2. SumFunctionOnSet(f, EnPie) \in Int
    BY <1>1, <2>1, SumaEntera
  <2> QED BY <2>2 DEF f, Vendidas
<1>4. Ajustadas(Ajustados) \in Int
  <2> DEFINE f == [r \in Ajustados |-> UnidadesAjustadas(r)]
  <2>1. \A r \in Ajustados : f[r] \in Int
    BY OperacionForma, PesoNat DEF Ajustados, UnidadesAjustadas, TypeOK
  <2> HIDE DEF f
  <2>2. SumFunctionOnSet(f, Ajustados) \in Int
    BY <1>1, <2>1, SumaEntera
  <2> QED BY <2>2 DEF f, Ajustadas
<1> QED BY <1>1, <1>2, <1>3, <1>4

LEMMA BalancePrima ==
    ASSUME operacion' = operacion,
           Unidades(stock') = Unidades(StockInicial) - Vendidas(EnPie') + Ajustadas(Ajustados')
    PROVE  Balance'
<1>1. Unidades(stock)' = Unidades(stock') /\ Unidades(StockInicial)' = Unidades(StockInicial)
  BY DEF Unidades, SumFunction, Peso
<1>2. Vendidas(EnPie)' = Vendidas(EnPie')
  <2>1. \A r : UnidadesVendidas(r)' = UnidadesVendidas(r)
    BY DEF UnidadesVendidas, SumFunction, Peso
  <2> QED BY <2>1 DEF Vendidas
<1>3. Ajustadas(Ajustados)' = Ajustadas(Ajustados')
  <2>1. \A r : UnidadesAjustadas(r)' = UnidadesAjustadas(r)
    BY DEF UnidadesAjustadas, Peso
  <2> QED BY <2>1 DEF Ajustadas
<1> QED BY <1>1, <1>2, <1>3 DEF Balance

\* Committing adds the private changes.
LEMMA ConfirmarUnidades ==
    ASSUME IsFiniteSet(Productos), TypeOK, NEW r \in Peticiones, Confirmar(r)
    PROVE  Unidades(stock') = Unidades(stock) + Unidades(delta[r])
<1>1. stock' = [p \in Productos |-> stock[p] + delta[r][p]]
  BY DEF Confirmar
<1>2. stock \in [Productos -> Int] /\ delta[r] \in [Productos -> Int]
  BY DEF TypeOK
<1> QED BY <1>1, <1>2, UnidadesMas

\* The other steps touch neither the stock nor what it is compared with.
LEMMA BalanceQuieto ==
    ASSUME TypeOK, Forma, SinEdiciones, NEW r \in Peticiones, Paso(r) \/ Fallo(r),
           ~(ConfirmarVenta(r) \/ ConfirmarAnulacion(r) \/ ConfirmarDesarme(r)
             \/ AplicarAjuste(r))
    PROVE  stock' = stock /\ ventas' = ventas /\ Ajustados' = Ajustados
<1>1. ~GuardarProducto(r)
  BY DEF GuardarProducto, SinEdiciones
<1>2. stock' = stock /\ ventas' = ventas
  BY <1>1 DEF Paso, Fallo, base, Iniciar, ValidarLinea, RechazarSolicitud, BloquearLinea,
     Insertar, Leer, Decidir, DesarmarPadre, DescontarHijo, Despachar, LeerVenta,
     RestaurarLinea, LeerPadre, LeerProducto, CambiarActivo, CerrarSesion, Abortar,
     CaerTrasConfirmar
<1>3. Tipo(r) = "ajuste" => pc'[r] # "ok" /\ pc[r] # "ok"
  <2> SUFFICES ASSUME Tipo(r) = "ajuste" PROVE pc'[r] # "ok" /\ pc[r] # "ok"
    OBVIOUS
  <2>1. Lugar(r) /\ pc \in [Peticiones -> {pc[q] : q \in Peticiones}]
    BY DEF Forma, TypeOK
  <2>2. \/ Iniciar(r) \/ ValidarLinea(r) \/ RechazarSolicitud(r) \/ BloquearLinea(r)
        \/ Insertar(r) \/ Leer(r) \/ Decidir(r) \/ DesarmarPadre(r) \/ DescontarHijo(r)
        \/ Despachar(r) \/ LeerVenta(r) \/ RestaurarLinea(r) \/ LeerPadre(r)
        \/ LeerProducto(r) \/ CambiarActivo(r) \/ CerrarSesion(r) \/ Abortar(r)
        \/ CaerTrasConfirmar(r)
    BY <1>1 DEF Paso, Fallo
  <2> QED BY <2>1, <2>2
      DEF Iniciar, ValidarLinea, RechazarSolicitud, BloquearLinea, Insertar, Leer, Decidir,
          DesarmarPadre, DescontarHijo, Despachar, LeerVenta, RestaurarLinea, LeerPadre,
          LeerProducto, CambiarActivo, CerrarSesion, Abortar, CaerTrasConfirmar, EnTx, Lugar,
          IrA, EsVenta
<1>4. \A q \in Peticiones : q # r => pc'[q] = pc[q]
  BY Ajeno
<1>5. \A q : Tipo(q)' = Tipo(q)
  BY MismaOperacion
<1>6. Ajustados' = Ajustados
  BY <1>3, <1>4, <1>5 DEF Ajustados
<1> QED BY <1>2, <1>6

LEMMA BalancePaso ==
    ASSUME IsFiniteSet(Productos), IsFiniteSet(Peticiones), TypeOK, Forma, SinEdiciones,
           Pagos, SoloVentas, Cuentas, Balance, NEW r \in Peticiones, Paso(r) \/ Fallo(r)
    PROVE  Balance'
<1>1. operacion' = operacion /\ operacion \in Cargas
  BY MismaOperacion DEF TypeOK
<1>2. /\ Unidades(stock) \in Int /\ Unidades(StockInicial) \in Int
      /\ Vendidas(EnPie) \in Int /\ Ajustadas(Ajustados) \in Int
      /\ IsFiniteSet(EnPie) /\ IsFiniteSet(Ajustados)
  BY SumasEnteras
<1>3. \A q \in EnPie : q \in Peticiones /\ EsVenta(q)
  BY StockInicialValido DEF EnPie, SoloVentas
<1>4. \A q : Tipo(q)' = Tipo(q)
  BY MismaOperacion
<1>5. \A q \in Peticiones : q # r => pc'[q] = pc[q]
  BY Ajeno
<1>6. CuentaDe(r) /\ Lugar(r)
  BY DEF Cuentas, Forma
<1>7. CASE ConfirmarVenta(r)
  <2>1. /\ EsVenta(r) /\ Tipo(r) = "venta" /\ pc[r] = "confirmar" /\ Confirmar(r)
        /\ ventas' = [ventas EXCEPT ![r] = "completada"] /\ pc'[r] = "despachar"
    BY <1>7 DEF ConfirmarVenta, Confirmar, EsVenta, IrA, TypeOK
  <2>2. ventas[r] = Nada
    BY <2>1 DEF Pagos, Final
  <2>3. EnPie' = EnPie \cup {r} /\ r \notin EnPie
    BY <2>1, <2>2, StockInicialValido DEF EnPie, TypeOK
  <2>4. Ajustados' = Ajustados
    BY <1>4, <1>5, <2>1 DEF Ajustados
  <2>5. Unidades(stock') = Unidades(stock) + Unidades(delta[r])
    BY <2>1, ConfirmarUnidades
  <2>6. Unidades(delta[r]) = -UnidadesVendidas(r) /\ UnidadesVendidas(r) \in Int
    BY <1>1, <1>6, <2>1, VendidasHecho DEF CuentaDe
  <2>7. Vendidas(EnPie') = Vendidas(EnPie) + UnidadesVendidas(r)
    BY <1>1, <1>2, <1>3, <2>1, <2>3, VendidasCrecen
  <2>8. Unidades(stock') = Unidades(StockInicial) - Vendidas(EnPie') + Ajustadas(Ajustados')
    BY <1>2, <2>4, <2>5, <2>6, <2>7 DEF Balance
  <2> QED BY <1>1, <2>8, BalancePrima
<1>8. CASE ConfirmarAnulacion(r)
  <2> DEFINE v == operacion[r].venta
  <2>1. /\ Tipo(r) = "anular" /\ pc[r] = "confirmar" /\ Confirmar(r)
        /\ ventas' = [ventas EXCEPT ![v] = "anulada"]
    BY <1>8 DEF ConfirmarAnulacion, Confirmar
  <2>2. v \in Peticiones /\ EsVenta(v) /\ ventas[v] = "completada"
    BY <1>1, <2>1, OperacionForma DEF EsVenta, Pagos
  <2>3. EnPie = EnPie' \cup {v} /\ v \notin EnPie'
    BY <2>1, <2>2 DEF EnPie, TypeOK
  <2>4. Ajustados' = Ajustados
    BY <1>4, <1>5, <2>1 DEF Ajustados
  <2>5. Unidades(stock') = Unidades(stock) + Unidades(delta[r])
    BY <2>1, ConfirmarUnidades
  <2>6. Unidades(delta[r]) = UnidadesVendidas(v) /\ UnidadesVendidas(v) \in Int
    BY <1>1, <1>6, <2>1, <2>2, AnuladasHecho, VendidasHecho DEF CuentaDe
  <2>7. Vendidas(EnPie) = Vendidas(EnPie') + UnidadesVendidas(v) /\ Vendidas(EnPie') \in Int
    <3> DEFINE S == EnPie'
    <3>1. IsFiniteSet(S) /\ \A q \in S : q \in Peticiones /\ EsVenta(q)
      BY <1>2, <1>3, <2>3, FS_Subset
    <3>2. EnPie = S \cup {v} /\ v \notin S
      BY <2>3
    <3> HIDE DEF S, v
    <3>3. Vendidas(S \cup {v}) = Vendidas(S) + UnidadesVendidas(v) /\ Vendidas(S) \in Int
      BY <1>1, <2>2, <3>1, <3>2, VendidasCrecen
    <3> QED BY <3>2, <3>3 DEF S
  <2>8. Unidades(stock') = Unidades(StockInicial) - Vendidas(EnPie') + Ajustadas(Ajustados')
    <3> HIDE DEF v
    <3> QED BY <1>2, <2>4, <2>5, <2>6, <2>7 DEF Balance
  <2> QED BY <1>1, <2>8, BalancePrima
<1>9. CASE ConfirmarDesarme(r)
  <2>1. /\ Tipo(r) = "desarme" /\ pc[r] = "confirmar" /\ Confirmar(r) /\ ventas' = ventas
    BY <1>9 DEF ConfirmarDesarme, Confirmar
  <2>2. Unidades(stock') = Unidades(stock) + Unidades(delta[r])
    BY <2>1, ConfirmarUnidades
  <2>3. Hecho(r, Len(Items(r))) = 0
    <3>1. ConLineas(r) /\ Items(r) = <<[p |-> operacion[r].hijo, n |-> 0]>>
      BY <2>1 DEF ConLineas, Items, EsVenta
    <3>2. Len(Items(r)) = 1 /\ Items(r)[1].n = 0
      BY <3>1
    <3>3. Hecho(r, 0 + 1) = Hecho(r, 0) + Peso(Items(r)[0 + 1].p) * Items(r)[0 + 1].n /\ Hecho(r, 0) = 0
      <4>1. 0 \in Nat /\ 0 + 1 \in 1 .. Len(Items(r))
        BY <3>2
      <4> QED BY <1>1, <3>1, <4>1, HechoPaso
    <3>4. Peso(Items(r)[1].p) * 0 = 0
      BY PesoNat
    <3>5. 0 + 1 = 1
      OBVIOUS
    <3> QED BY <3>2, <3>3, <3>4, <3>5
  <2>4. Unidades(delta[r]) = 0
    BY <1>6, <2>1, <2>3 DEF CuentaDe
  <2>5. EnPie' = EnPie /\ Ajustados' = Ajustados
    BY <1>4, <1>5, <2>1 DEF EnPie, Ajustados
  <2>6. Unidades(stock') = Unidades(StockInicial) - Vendidas(EnPie') + Ajustadas(Ajustados')
    BY <1>2, <2>2, <2>4, <2>5 DEF Balance
  <2> QED BY <1>1, <2>6, BalancePrima
<1>10. CASE AplicarAjuste(r)
  <2> DEFINE p == operacion[r].p
             d == operacion[r].delta
  <2>1. Tipo(r) = "ajuste" /\ p \in Productos /\ d \in Int /\ pc[r] = "aplicar" /\ ventas' = ventas
    BY <1>1, <1>10, OperacionForma DEF AplicarAjuste
  <2>2. EnPie' = EnPie
    BY <2>1 DEF EnPie
  <2>3. CASE activo[p]
    <3>1. stock' = [stock EXCEPT ![p] = @ + d] /\ pc'[r] = "ok"
      BY <1>10, <2>3 DEF AplicarAjuste, IrA, TypeOK
    <3>2. Ajustados' = Ajustados \cup {r} /\ r \notin Ajustados
      BY <1>4, <1>5, <2>1, <3>1 DEF Ajustados
    <3>3. Unidades(stock') = Unidades(stock) + Peso(p) * d
      <4>1. stock \in [Productos -> Int]
        BY DEF TypeOK
      <4> HIDE DEF p, d
      <4> QED BY <2>1, <3>1, <4>1, UnidadesCambian
    <3>4. UnidadesAjustadas(r) = Peso(p) * d /\ Peso(p) * d \in Int
      BY <2>1, PesoNat DEF UnidadesAjustadas
    <3>5. Ajustadas(Ajustados') = Ajustadas(Ajustados) + UnidadesAjustadas(r)
      <4>1. \A q \in Ajustados : q \in Peticiones /\ Tipo(q) = "ajuste"
        BY DEF Ajustados
      <4> HIDE DEF p, d
      <4> QED BY <1>1, <1>2, <2>1, <3>2, <4>1, AjustadasCrecen
    <3>6. Unidades(stock') = Unidades(StockInicial) - Vendidas(EnPie') + Ajustadas(Ajustados')
      <4> DEFINE m == Peso(p) * d
      <4>1. /\ Unidades(stock') = Unidades(stock) + m /\ m \in Int
            /\ Ajustadas(Ajustados') = Ajustadas(Ajustados) + m
        BY <3>3, <3>4, <3>5
      <4> HIDE DEF m
      <4> QED BY <1>2, <2>2, <4>1 DEF Balance
    <3> QED BY <1>1, <3>6, BalancePrima
  <2>4. CASE ~activo[p]
    <3>1. stock' = stock /\ pc'[r] = "rechazada"
      BY <1>10, <2>4 DEF AplicarAjuste, IrA, TypeOK
    <3>2. Ajustados' = Ajustados
      BY <1>4, <1>5, <2>1, <3>1 DEF Ajustados
    <3> QED BY <1>1, <2>2, <3>1, <3>2, BalancePrima DEF Balance
  <2> QED BY <2>3, <2>4
<1>11. CASE ~(ConfirmarVenta(r) \/ ConfirmarAnulacion(r) \/ ConfirmarDesarme(r)
              \/ AplicarAjuste(r))
  <2>1. stock' = stock /\ ventas' = ventas /\ Ajustados' = Ajustados
    BY <1>11, BalanceQuieto
  <2>2. EnPie' = EnPie
    BY <2>1 DEF EnPie
  <2> QED BY <1>1, <2>1, <2>2, BalancePrima DEF Balance
<1> QED BY <1>7, <1>8, <1>9, <1>10, <1>11

LEMMA SoloVentasPaso ==
    ASSUME TypeOK, SoloVentas, NEW r \in Peticiones, Paso(r) \/ Fallo(r)
    PROVE  SoloVentas'
<1>1. \A q : EsVenta(q)' = EsVenta(q)
  BY MismaOperacion
<1>2. CASE ConfirmarVenta(r)
  BY <1>1, <1>2 DEF ConfirmarVenta, SoloVentas, TypeOK
<1>3. CASE ConfirmarAnulacion(r)
  <2>1. EsVenta(operacion[r].venta)
    BY <1>3, OperacionForma DEF ConfirmarAnulacion, EsVenta, TypeOK
  <2> QED BY <1>1, <1>3, <2>1 DEF ConfirmarAnulacion, SoloVentas, TypeOK
<1> QED BY <1>1, <1>2, <1>3, VentasPaso DEF SoloVentas

\* The balance, what the open transactions account for, and what it rests on.
ConservaInv ==
    /\ SoloVentas
    /\ Cuentas
    /\ UnaAnulacionPorVenta => Pagos
    /\ SinEdiciones /\ UnaAnulacionPorVenta => Balance

LEMMA ConservaInicial ==
    ASSUME IsFiniteSet(Productos), Init
    PROVE  ConservaInv
<1>1. SoloVentas /\ Pagos
  BY StockInicialValido DEF Init, SoloVentas, Pagos, Final, EsVenta
<1>2. Cuentas
  BY DEF Init, Cuentas, CuentaDe, Escribe
<1>3. Balance
  <2>1. EnPie = {} /\ stock = StockInicial
    BY StockInicialValido DEF Init, EnPie
  <2>2. Ajustados = {}
    BY DEF Init, Ajustados
  <2>3. Vendidas({}) = 0 /\ Ajustadas({}) = 0
    BY SumaVacia DEF Vendidas, Ajustadas
  <2>4. Unidades(StockInicial) \in Int
    BY UnidadesEnteras, StockInicialValido
  <2> QED BY <2>1, <2>2, <2>3, <2>4 DEF Balance
<1> QED BY <1>1, <1>2, <1>3 DEF ConservaInv

LEMMA ConservaPaso ==
    ASSUME IsFiniteSet(Productos), IsFiniteSet(Peticiones), VinculosSimples,
           TypeOK, Forma, Forma', ConservaInv, NEW r \in Peticiones, Paso(r) \/ Fallo(r)
    PROVE  ConservaInv'
<1>1. operacion' = operacion
  BY MismaOperacion
<1>2. SoloVentas'
  BY SoloVentasPaso DEF ConservaInv
<1>3. Cuentas'
  <2>1. ASSUME NEW q \in Peticiones PROVE CuentaDe(q)'
    <3>1. CuentaDe(q)
      BY DEF ConservaInv, Cuentas
    <3>2. CASE q = r
      BY <3>1, <3>2, CuentaPropia
    <3>3. CASE q # r
      BY <3>1, <3>3, CuentaAjena
    <3> QED BY <3>2, <3>3
  <2> QED BY <2>1 DEF Cuentas
<1>4. UnaAnulacionPorVenta' => UnaAnulacionPorVenta
  BY <1>1 DEF UnaAnulacionPorVenta, Tipo
<1>5. SinEdiciones' => SinEdiciones
  BY <1>1 DEF SinEdiciones, Tipo
<1>6. UnaAnulacionPorVenta' => Pagos'
  BY <1>4, PagosPaso DEF ConservaInv
<1>7. SinEdiciones' /\ UnaAnulacionPorVenta' => Balance'
  BY <1>4, <1>5, BalancePaso DEF ConservaInv
<1> QED BY <1>2, <1>3, <1>6, <1>7 DEF ConservaInv

LEMMA ConservaQuieta == ConservaInv /\ UNCHANGED vars => ConservaInv'
<1> SUFFICES ASSUME ConservaInv, UNCHANGED vars PROVE ConservaInv'
  OBVIOUS
<1>1. /\ operacion' = operacion /\ stock' = stock /\ ventas' = ventas /\ caja' = caja
      /\ delta' = delta /\ pc' = pc /\ linea' = linea /\ padres' = padres
  BY DEF vars
<1>2. SoloVentas'
  BY <1>1 DEF ConservaInv, SoloVentas, EsVenta, Tipo
<1>3. Cuentas'
  <2>1. ASSUME NEW q \in Peticiones PROVE CuentaDe(q)'
    BY <1>1, CuentaIgual DEF ConservaInv, Cuentas
  <2> QED BY <2>1 DEF Cuentas
<1>4. UnaAnulacionPorVenta' => Pagos'
  BY <1>1 DEF ConservaInv, UnaAnulacionPorVenta, Pagos, EsVenta, Tipo
<1>5. SinEdiciones' /\ UnaAnulacionPorVenta' => Balance'
  <2>1. (SinEdiciones' /\ UnaAnulacionPorVenta') => (SinEdiciones /\ UnaAnulacionPorVenta)
    BY <1>1 DEF SinEdiciones, UnaAnulacionPorVenta, Tipo
  <2>2. EnPie' = EnPie /\ Ajustados' = Ajustados
    BY <1>1 DEF EnPie, Ajustados, Tipo
  <2> QED BY <1>1, <2>1, <2>2, BalancePrima DEF ConservaInv, Balance
<1> QED BY <1>2, <1>3, <1>4, <1>5 DEF ConservaInv

(***************************************************************************)
(* Stock is conserved, for any finite set of products, with links that do  *)
(* not chain, and any finite set of requests: what is on the shelves,      *)
(* counted in units, is the initial stock, minus the sales that stand,     *)
(* plus the adjustments, unless a product is edited or a sale voided by    *)
(* two requests (venta_service.go DescontarStockTx and AnularVenta,        *)
(* inventario_service.go, AjustarStock).                                   *)
(***************************************************************************)
THEOREM StockConservado ==
    ASSUME IsFiniteSet(Productos), IsFiniteSet(Peticiones), VinculosSimples
    PROVE  Spec => []UnidadesConservadas
<1>1. Init => ConservaInv
  BY ConservaInicial
<1>2. TypeOK /\ Forma /\ ConservaInv /\ [Next]_vars => ConservaInv'
  <2> SUFFICES ASSUME TypeOK, Forma, ConservaInv, [Next]_vars PROVE ConservaInv'
    OBVIOUS
  <2>1. Forma'
    BY TiposInductivos
  <2>2. CASE UNCHANGED vars
    BY <2>2, ConservaQuieta
  <2>3. QED
    BY <2>1, <2>2, ConservaPaso DEF Next, Terminado
<1>3. ConservaInv => UnidadesConservadas
  BY BalanceEs DEF ConservaInv, UnidadesConservadas
<1>4. QED
  BY <1>1, <1>2, <1>3, TiposIniciales, TiposInductivos, PTL DEF Spec
=============================================================================
