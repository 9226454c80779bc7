-------------------------- MODULE OfflineSyncProofs --------------------------
(***************************************************************************)
(* Proofs about OfflineSync, for any finite set of sales, any set of       *)
(* overlapping calls, any batch size and any limit of attempts.            *)
(***************************************************************************)
EXTENDS OfflineSync, FiniteSetTheorems, WellFoundedInduction, TLAPS

\* An item, or a copy of one: it is in error when its attempts are used up, and
\* each of them was an answer that did not accept the sale, unless the server
\* has it.
Bien(q) ==
    /\ q.status = "error" <=> q.tries >= MaxIntentos
    /\ q.tries <= fallos[q.venta] \/ q.venta \in registradas

ItemsBien ==
    /\ \A i \in DOMAIN cola : Bien(cola[i])
    /\ \A c \in Llamadas : \A i \in DOMAIN lote[c] : Bien(lote[c][i])

\* The item i, or a copy of it in some call, is of sale v.
De(i, v) ==
    \/ i \in DOMAIN cola /\ cola[i].venta = v
    \/ \E c \in Llamadas : i \in DOMAIN lote[c] /\ lote[c][i].venta = v

\* All copies of an item are of the same sale, whoever holds them.
MismaVenta ==
    \A i \in 1..(siguiente - 1) : \A u, v \in Ventas : De(i, u) /\ De(i, v) => u = v

\* A batch under way: its items were pending, and what was answered "completada"
\* is registered.
LoteBien(c) ==
    /\ resto[c] \subseteq DOMAIN lote[c]
    /\ pc[c] = "insertar" => resto[c] # {}
    /\ pc[c] \notin {"servidor", "insertar"} => resto[c] = {}
    /\ pc[c] \in {"servidor", "insertar"} =>
           \A i \in DOMAIN lote[c] : lote[c][i].status = "pending"
    /\ \A r \in resultados[c] : r.estado = "completada" => r.venta \in registradas

LotesBien == \A c \in Llamadas : LoteBien(c)

ColaInv == TypeOK /\ ItemsBien /\ MismaVenta /\ LotesBien

-----------------------------------------------------------------------------
(* Items. *)

\* Counting failures only raises them, and by one for each sale of the batch
\* that has not reached the limit.
LEMMA ContarSube ==
    ASSUME TypeOK, NEW ids, NEW l, Contar(ids, l)
    PROVE  /\ fallos' \in [Ventas -> 0..MaxIntentos]
           /\ \A v \in Ventas : fallos[v] <= fallos'[v]
           /\ \A i \in ids : l[i].venta \in Ventas =>
                  \/ fallos'[l[i].venta] = fallos[l[i].venta] + 1
                  \/ fallos'[l[i].venta] = MaxIntentos
<1>1. MaxIntentos \in Nat \ {0}
  BY OfflineConstantes
<1>2. fallos \in [Ventas -> 0..MaxIntentos]
  BY DEF TypeOK
<1>3. \A v \in Ventas : fallos'[v] \in {fallos[v], fallos[v] + 1} /\ fallos'[v] \in 0..MaxIntentos
  BY <1>1, <1>2 DEF Contar
<1>4. fallos' \in [Ventas -> 0..MaxIntentos]
  BY <1>3 DEF Contar
<1>5. \A i \in ids : l[i].venta \in Ventas =>
          \/ fallos'[l[i].venta] = fallos[l[i].venta] + 1
          \/ fallos'[l[i].venta] = MaxIntentos
  BY <1>1, <1>2 DEF Contar
<1>6. QED
  BY <1>1, <1>2, <1>3, <1>4, <1>5

LEMMA NuevoItem ==
    ASSUME NEW v \in Ventas
    PROVE  /\ Nuevo(v) \in Item /\ Nuevo(v).venta = v
           /\ Nuevo(v).status = "pending" /\ Nuevo(v).tries = 0
BY DEF Nuevo, Item

LEMMA FallidaItem ==
    ASSUME NEW q \in Item
    PROVE  /\ Fallida(q) \in Item /\ Fallida(q).venta = q.venta
           /\ Fallida(q).tries = q.tries + 1
           /\ Fallida(q).status = "error" <=> q.tries + 1 >= MaxIntentos
<1> DEFINE estado == IF q.tries + 1 >= MaxIntentos THEN "error" ELSE "pending"
<1>1. q = [venta |-> q.venta, status |-> q.status, tries |-> q.tries]
      /\ q.venta \in Ventas /\ q.tries \in Nat
  BY DEF Item
<1>2. Fallida(q) = [venta |-> q.venta, status |-> estado, tries |-> q.tries + 1]
  <2>1. DOMAIN q = {"venta", "status", "tries"}
    BY <1>1
  <2>2. Fallida(q) = [f \in DOMAIN q |->
                         IF f = "status" THEN estado
                         ELSE IF f = "tries" THEN q.tries + 1 ELSE q[f]]
    BY <2>1 DEF Fallida
  <2>3. QED
    BY <2>1, <2>2
<1>3. QED
  BY <1>1, <1>2 DEF Item

-----------------------------------------------------------------------------
(* How a step may move items. *)

\* Calls keep the copies they have, drop them, or take new ones from the queue.
CopiasDeCola ==
    \A c \in Llamadas : \A i \in DOMAIN lote'[c] :
        \/ i \in DOMAIN lote[c] /\ lote'[c][i] = lote[c][i]
        \/ i \in DOMAIN cola /\ lote'[c][i] = cola[i]

\* What is written to the queue is well formed, if it was not there before.
EscrituraBien ==
    \A i \in DOMAIN cola' :
        \/ i \in DOMAIN cola /\ cola'[i] = cola[i]
        \/ /\ cola'[i].status = "error" <=> cola'[i].tries >= MaxIntentos
           /\ cola'[i].tries <= fallos'[cola'[i].venta] \/ cola'[i].venta \in registradas'

\* It has a new key, or is of the sale its key stands for.
EscrituraDeVenta ==
    \A i \in DOMAIN cola' :
        i < siguiente => cola'[i].venta \in Ventas /\ De(i, cola'[i].venta)

LEMMA ItemsBienPaso ==
    ASSUME TypeOK, ItemsBien, EscrituraBien, CopiasDeCola,
           fallos' \in [Ventas -> 0..MaxIntentos],
           \A v \in Ventas : fallos[v] <= fallos'[v],
           registradas \subseteq registradas'
    PROVE  ItemsBien'
<1>1. ASSUME NEW q \in Item, Bien(q)
      PROVE  /\ q.status = "error" <=> q.tries >= MaxIntentos
             /\ q.tries <= fallos'[q.venta] \/ q.venta \in registradas'
  <2>1. q.venta \in Ventas /\ q.tries \in Nat
    BY DEF Item
  <2>2. fallos[q.venta] <= fallos'[q.venta] /\ fallos[q.venta] \in Nat /\ fallos'[q.venta] \in Nat
    <3>1. MaxIntentos \in Nat
      BY OfflineConstantes
    <3>2. fallos \in [Ventas -> 0..MaxIntentos]
      BY DEF TypeOK
    <3>3. QED
      BY <2>1, <3>1, <3>2
  <2>3. QED
    BY <1>1, <2>1, <2>2 DEF Bien
<1>2. \A i \in DOMAIN cola : cola[i] \in Item /\ Bien(cola[i])
  BY DEF TypeOK, EsCola, ItemsBien
<1>3. \A c \in Llamadas : \A i \in DOMAIN lote[c] : lote[c][i] \in Item /\ Bien(lote[c][i])
  BY DEF TypeOK, EsCola, ItemsBien
<1>4. \A i \in DOMAIN cola' : Bien(cola[i])'
  BY <1>1, <1>2 DEF EscrituraBien, Bien
<1>5. \A c \in Llamadas : \A i \in DOMAIN lote'[c] : Bien(lote[c][i])'
  BY <1>1, <1>2, <1>3 DEF CopiasDeCola, Bien
<1>6. QED
  BY <1>4, <1>5 DEF ItemsBien

LEMMA MismaVentaPaso ==
    ASSUME TypeOK, MismaVenta, EscrituraDeVenta, CopiasDeCola, TypeOK'
    PROVE  MismaVenta'
<1>1. siguiente \in Nat /\ siguiente' \in Nat
  BY DEF TypeOK
<1>2. ASSUME NEW c \in Llamadas, NEW i \in DOMAIN lote'[c]
      PROVE  i \in 1..(siguiente - 1) /\ De(i, lote'[c][i].venta)
  BY <1>2 DEF CopiasDeCola, De, TypeOK, EsCola
<1>3. ASSUME NEW i \in 1..(siguiente' - 1), NEW u \in Ventas, NEW v \in Ventas,
             De(i, u)', De(i, v)'
      PROVE  u = v
  <2>1. CASE i < siguiente
    <3>1. De(i, u) /\ De(i, v)
      BY <1>2, <1>3, <2>1 DEF De, EscrituraDeVenta
    <3>2. QED
      BY <1>1, <2>1, <3>1 DEF MismaVenta
  <2>2. CASE ~(i < siguiente)
    <3>1. \A c \in Llamadas : i \notin DOMAIN lote'[c]
      BY <1>1, <1>2, <2>2
    <3>2. QED
      BY <1>3, <3>1 DEF De
  <2>3. QED
    BY <2>1, <2>2
<1>4. QED
  BY <1>3 DEF MismaVenta
-----------------------------------------------------------------------------
(* Keys: the least of a batch, and those recoverLostSales adds. *)

LEMMA Minimo ==
    ASSUME NEW S \in SUBSET Nat, IsFiniteSet(S), S # {}
    PROVE  \E i \in S : \A j \in S : i <= j
<1> DEFINE Antes(i) == {j \in S : j < i}
           Todos == {Antes(i) : i \in S}
<1>1. Todos \subseteq FiniteSubsetsOf(S) /\ Todos # {}
  <2>1. \A i \in S : IsFiniteSet(Antes(i))
    BY FS_Subset
  <2>2. QED
    BY <2>1 DEF FiniteSubsetsOf
<1>2. IsWellFoundedOn(StrictSubsetOrdering(S), FiniteSubsetsOf(S))
  BY FS_StrictSubsetOrderingWellFounded
<1>3. \E T \in Todos : \A U \in Todos : <<U, T>> \notin StrictSubsetOrdering(S)
  <2> HIDE DEF Todos
  <2> QED
    BY <1>1, <1>2, WFMin
<1>4. PICK i \in S : \A j \in S : <<Antes(j), Antes(i)>> \notin StrictSubsetOrdering(S)
  BY <1>3
<1>5. ASSUME NEW j \in S, j < i
      PROVE  FALSE
  <2>1. \A k \in S : k \in Nat
    OBVIOUS
  <2>2. ASSUME NEW k \in Antes(j)
        PROVE  k \in Antes(i)
    <3>1. i \in Nat /\ j \in Nat /\ k \in Nat /\ k \in S /\ k < j
      BY <2>1
    <3>2. k < i
      BY <1>5, <3>1
    <3>3. QED
      BY <3>1, <3>2
  <2>3. j \in Antes(i) /\ j \notin Antes(j)
    BY <1>5, <2>1
  <2>4. QED
    BY <1>4, <2>2, <2>3 DEF StrictSubsetOrdering
<1>6. QED
  BY <1>5

\* The next sale of the batch is one of those that are left.
LEMMA PrimeroEnResto ==
    ASSUME TypeOK, NEW c \in Llamadas, resto[c] # {}
    PROVE  Primero(c) \in resto[c]
<1>1. siguiente \in Nat \ {0} /\ resto[c] \subseteq 1..(siguiente - 1)
  BY DEF TypeOK
<1>2. IsFiniteSet(resto[c])
  BY <1>1, FS_Interval, FS_Subset
<1>3. \E i \in resto[c] : \A j \in resto[c] : i <= j
  BY <1>1, <1>2, Minimo
<1>4. QED
  BY <1>3 DEF Primero

\* The keys of a list of sales are new and distinct.
LEMMA IdsNuevos ==
    ASSUME siguiente \in Nat, NEW lista \in SUBSET Ventas
    PROVE  /\ Cardinality(lista) \in Nat
           /\ \A v \in lista : Id(lista, v) \in siguiente..(siguiente + Cardinality(lista) - 1)
           /\ \A u, v \in lista : Id(lista, u) = Id(lista, v) => u = v
<1> DEFINE Antes(v) == {u \in lista : u < v}
<1>1. IsFiniteSet(lista) /\ lista \subseteq Nat /\ Cardinality(lista) \in Nat
  BY OfflineConstantes, FS_Subset, FS_CardinalityType
<1>2. ASSUME NEW v \in lista
      PROVE  IsFiniteSet(Antes(v)) /\ Cardinality(Antes(v)) \in Nat
  BY <1>1, FS_Subset, FS_CardinalityType
<1>3. ASSUME NEW v \in lista, NEW T \in SUBSET lista, Antes(v) \cup {v} \subseteq T
      PROVE  Cardinality(Antes(v)) + 1 <= Cardinality(T)
  <2>1. v \notin Antes(v)
    BY <1>1
  <2>2. Cardinality(Antes(v) \cup {v}) = Cardinality(Antes(v)) + 1
    <3> HIDE DEF Antes
    <3> QED
      BY <1>2, <2>1, FS_AddElement
  <2>3. IsFiniteSet(T)
    BY <1>1, FS_Subset
  <2>4. Cardinality(Antes(v) \cup {v}) <= Cardinality(T)
    <3> HIDE DEF Antes
    <3> QED
      BY <1>3, <2>3, FS_Subset
  <2>5. QED
    BY <2>2, <2>4
<1>4. \A v \in lista : Id(lista, v) = siguiente + Cardinality(Antes(v))
  BY DEF Id
<1>5. ASSUME NEW v \in lista
      PROVE  Id(lista, v) \in siguiente..(siguiente + Cardinality(lista) - 1)
  <2>1. Cardinality(Antes(v)) + 1 <= Cardinality(lista)
    BY <1>3
  <2> HIDE DEF Antes
  <2>2. QED
    BY <1>1, <1>2, <1>4, <2>1
<1>6. ASSUME NEW u \in lista, NEW v \in lista, u < v
      PROVE  Id(lista, u) < Id(lista, v)
  <2>1. ASSUME NEW w \in Antes(u) \cup {u}
        PROVE  w \in Antes(v)
    <3>1. u \in Nat /\ v \in Nat /\ w \in Nat /\ w \in lista /\ (w < u \/ w = u)
      BY <1>1
    <3>2. w < v
      BY <1>6, <3>1
    <3>3. QED
      BY <3>1, <3>2
  <2>2. Cardinality(Antes(u)) + 1 <= Cardinality(Antes(v))
    BY <1>3, <2>1
  <2> HIDE DEF Antes
  <2>3. QED
    BY <1>2, <1>4, <2>2
<1>7. ASSUME NEW u \in lista, NEW v \in lista, Id(lista, u) = Id(lista, v)
      PROVE  u = v
  <2>1. Id(lista, u) \in Nat /\ u \in Nat /\ v \in Nat
    BY <1>1, <1>5
  <2>2. ~(u < v) /\ ~(v < u)
    BY <1>6, <1>7, <2>1
  <2>3. QED
    BY <2>1, <2>2
<1>8. QED
  BY <1>1, <1>5, <1>7
-----------------------------------------------------------------------------
(* The batches. *)

\* A step of call c leaves the others alone, and no sale loses its row.
LEMMA LotesBienPaso ==
    ASSUME LotesBien, NEW c, registradas \subseteq registradas',
           \A d \in Llamadas \ {c} :
               /\ lote'[d] = lote[d] /\ pc'[d] = pc[d]
               /\ resto'[d] = resto[d] /\ resultados'[d] = resultados[d],
           c \in Llamadas => LoteBien(c)'
    PROVE  LotesBien'
<1>1. ASSUME NEW d \in Llamadas, d # c
      PROVE  LoteBien(d)'
  BY <1>1 DEF LotesBien, LoteBien
<1>2. QED
  BY <1>1 DEF LotesBien

\* Ended, a call has nothing under way.
LEMMA TerminarPaso ==
    ASSUME TypeOK, NEW c \in Llamadas, Terminar(c), siguiente' = siguiente
    PROVE  /\ pc' \in [Llamadas -> Estados]
           /\ DOMAIN lote' = Llamadas /\ \A d \in Llamadas : EsCola(lote'[d])
           /\ resto' \in [Llamadas -> SUBSET (1..(siguiente' - 1))]
           /\ resultados' \in [Llamadas -> SUBSET [venta : Ventas,
                                    estado : {"completada", "error"}, eco : BOOLEAN]]
           /\ \A d \in Llamadas : lote'[d] = IF d = c THEN <<>> ELSE lote[d]
           /\ LoteBien(c)'
           /\ \A d \in Llamadas \ {c} :
                  /\ lote'[d] = lote[d] /\ pc'[d] = pc[d]
                  /\ resto'[d] = resto[d] /\ resultados'[d] = resultados[d]
<1>1. pc' \in [Llamadas -> Estados] /\ pc'[c] = "libre"
  BY DEF Terminar, IrA, TypeOK, Estados
<1>2. /\ DOMAIN lote' = Llamadas
      /\ \A d \in Llamadas : lote'[d] = IF d = c THEN <<>> ELSE lote[d]
  BY DEF Terminar, TypeOK
<1>3. DOMAIN <<>> = {}
  OBVIOUS
<1>4. \A d \in Llamadas : EsCola(lote'[d])
  BY <1>2, <1>3 DEF TypeOK, EsCola
<1>5. /\ resto' \in [Llamadas -> SUBSET (1..(siguiente' - 1))]
      /\ resultados' \in [Llamadas -> SUBSET [venta : Ventas,
                               estado : {"completada", "error"}, eco : BOOLEAN]]
      /\ resto'[c] = {} /\ resultados'[c] = {}
  BY DEF Terminar, TypeOK
<1>6. LoteBien(c)'
  BY <1>1, <1>2, <1>3, <1>5 DEF LoteBien
<1>7. \A d \in Llamadas \ {c} :
          /\ pc'[d] = pc[d] /\ resto'[d] = resto[d] /\ resultados'[d] = resultados[d]
  BY DEF Terminar, IrA, TypeOK
<1>8. QED
  BY <1>1, <1>2, <1>4, <1>5, <1>6, <1>7

\* A call that has nothing with the server goes on from one of its other places.
LEMMA FueraPaso ==
    ASSUME ColaInv, NEW c \in Llamadas, NEW lugar \in Estados \ {"servidor", "insertar"},
           pc[c] \notin {"servidor", "insertar"}, pc' = [pc EXCEPT ![c] = lugar],
           DOMAIN lote' = Llamadas, \A d \in Llamadas \ {c} : lote'[d] = lote[d],
           UNCHANGED <<resto, resultados, registradas>>
    PROVE  LotesBien'
<1>1. LoteBien(c)'
  BY DEF LoteBien, LotesBien, ColaInv, TypeOK
<1>2. \A d \in Llamadas \ {c} : pc'[d] = pc[d]
  BY DEF ColaInv, TypeOK
<1>3. QED
  BY <1>1, <1>2, LotesBienPaso DEF ColaInv

-----------------------------------------------------------------------------
(* Every action keeps ColaInv. *)

LEMMA InitColaInv == Init => ColaInv
<1> SUFFICES ASSUME Init PROVE ColaInv
  OBVIOUS
<1>1. DOMAIN cola = {} /\ \A c \in Llamadas : DOMAIN lote[c] = {}
  BY DEF Init
<1>2. TypeOK
  BY <1>1, OfflineConstantes DEF Init, TypeOK, EsCola, Estados
<1>3. ItemsBien /\ MismaVenta
  BY <1>1 DEF ItemsBien, MismaVenta, De
<1>4. LotesBien
  BY <1>1 DEF Init, LotesBien, LoteBien
<1>5. QED
  BY <1>2, <1>3, <1>4 DEF ColaInv

LEMMA VenderPaso ==
    ASSUME ColaInv, NEW v \in Ventas, Vender(v)
    PROVE  ColaInv'
<1>1. siguiente \in Nat \ {0} /\ siguiente' = siguiente + 1
  BY DEF ColaInv, TypeOK, Vender
<1>2. /\ DOMAIN cola' = DOMAIN cola \cup {siguiente}
      /\ \A i \in DOMAIN cola : i # siguiente /\ cola'[i] = cola[i]
      /\ cola'[siguiente] = Nuevo(v)
  BY <1>1 DEF ColaInv, TypeOK, EsCola, Vender
<1>3. TypeOK'
  <2>1. EsCola(cola)'
    BY <1>1, <1>2, NuevoItem DEF ColaInv, TypeOK, EsCola
  <2>2. DOMAIN lote' = Llamadas /\ \A c \in Llamadas : EsCola(lote[c])'
    BY <1>1 DEF ColaInv, TypeOK, EsCola, Vender, llamada
  <2>3. resto' \in [Llamadas -> SUBSET (1..(siguiente' - 1))]
    BY <1>1 DEF ColaInv, TypeOK, Vender, llamada
  <2>4. ventas' \in [Ventas -> {"no", "sin", "si"}]
    BY DEF ColaInv, TypeOK, Vender
  <2>5. QED
    BY <1>1, <2>1, <2>2, <2>3, <2>4 DEF ColaInv, TypeOK, Vender, llamada, servidor
<1>4. CopiasDeCola
  BY DEF CopiasDeCola, Vender, llamada
<1>5. ItemsBien'
  <2>1. EscrituraBien
    BY <1>2, NuevoItem, OfflineConstantes DEF EscrituraBien, ColaInv, TypeOK, Vender
  <2>2. QED
    BY <1>4, <2>1, ItemsBienPaso DEF ColaInv, TypeOK, Vender, servidor
<1>6. MismaVenta'
  <2>1. EscrituraDeVenta
    BY <1>1, <1>2 DEF EscrituraDeVenta, De, ColaInv, TypeOK, EsCola, Item
  <2>2. QED
    BY <1>3, <1>4, <2>1, MismaVentaPaso DEF ColaInv
<1>7. LotesBien'
  BY DEF ColaInv, LotesBien, LoteBien, Vender, llamada, servidor
<1>8. QED
  BY <1>3, <1>5, <1>6, <1>7 DEF ColaInv

LEMMA EnviarPaso ==
    ASSUME ColaInv, NEW c \in Llamadas, Enviar(c)
    PROVE  ColaInv'
<1>1. PICK ids \in Lotes :
          /\ lote' = [lote EXCEPT ![c] = [i \in ids |-> cola[i]]]
          /\ resto' = [resto EXCEPT ![c] = Elegidos([i \in ids |-> cola[i]])]
  BY DEF Enviar
<1>2. ids \subseteq DOMAIN cola /\ \A i \in ids : cola[i].status = "pending"
  BY DEF Lotes, Pendientes
<1>3. /\ DOMAIN lote' = Llamadas
      /\ DOMAIN lote'[c] = ids /\ \A i \in ids : lote'[c][i] = cola[i]
      /\ \A d \in Llamadas \ {c} : lote'[d] = lote[d]
  BY <1>1 DEF ColaInv, TypeOK
<1>4. /\ resto' = [resto EXCEPT ![c] = resto'[c]] /\ resto'[c] \subseteq ids
      /\ pc' = [pc EXCEPT ![c] = "servidor"] /\ resultados' = [resultados EXCEPT ![c] = {}]
      /\ UNCHANGED <<ventas, cola, siguiente, enLinea, perdidas, sesion, registradas,
                     fallos, percances>>
  BY <1>1 DEF Enviar, IrA, Elegidos, ColaInv, TypeOK, local, servidor
<1>5. TypeOK'
  <2>1. \A d \in Llamadas : EsCola(lote[d])'
    BY <1>2, <1>3, <1>4 DEF ColaInv, TypeOK, EsCola
  <2>2. resto' \in [Llamadas -> SUBSET (1..(siguiente' - 1))]
    BY <1>2, <1>4 DEF ColaInv, TypeOK, EsCola
  <2>3. pc' \in [Llamadas -> Estados]
    BY <1>4 DEF ColaInv, TypeOK, Estados
  <2>4. resultados' \in [Llamadas -> SUBSET [venta : Ventas,
                             estado : {"completada", "error"}, eco : BOOLEAN]]
    BY <1>4 DEF ColaInv, TypeOK
  <2>5. EsCola(cola)'
    BY <1>4 DEF ColaInv, TypeOK, EsCola
  <2>6. QED
    BY <1>3, <1>4, <2>1, <2>2, <2>3, <2>4, <2>5 DEF ColaInv, TypeOK
<1>6. CopiasDeCola
  BY <1>2, <1>3 DEF CopiasDeCola
<1>7. ItemsBien'
  <2>1. EscrituraBien
    BY <1>4 DEF EscrituraBien
  <2>2. QED
    BY <1>4, <1>6, <2>1, ItemsBienPaso DEF ColaInv, TypeOK
<1>8. MismaVenta'
  <2>1. EscrituraDeVenta
    BY <1>4 DEF EscrituraDeVenta, De, ColaInv, TypeOK, EsCola, Item
  <2>2. QED
    BY <1>5, <1>6, <2>1, MismaVentaPaso DEF ColaInv
<1>9. LotesBien'
  <2>1. LoteBien(c)'
    BY <1>2, <1>3, <1>4 DEF LoteBien, ColaInv, TypeOK
  <2>2. \A d \in Llamadas \ {c} :
            pc'[d] = pc[d] /\ resto'[d] = resto[d] /\ resultados'[d] = resultados[d]
    BY <1>4 DEF ColaInv, TypeOK
  <2>3. QED
    BY <1>3, <1>4, <2>1, <2>2, LotesBienPaso DEF ColaInv
<1>10. QED
  BY <1>5, <1>7, <1>8, <1>9 DEF ColaInv
LEMMA NadaQueEnviarPaso ==
    ASSUME ColaInv, NEW c \in Llamadas, NadaQueEnviar(c)
    PROVE  ColaInv'
<1>1. /\ pc[c] = "sincronizar" /\ pc' = [pc EXCEPT ![c] = "libre"]
      /\ UNCHANGED <<ventas, cola, siguiente, enLinea, lote, resto, resultados, perdidas,
                     sesion, registradas, fallos, percances>>
  BY DEF NadaQueEnviar, IrA, local, servidor
<1>2. TypeOK'
  BY <1>1 DEF ColaInv, TypeOK, EsCola, Estados
<1>3. ItemsBien' /\ MismaVenta'
  BY <1>1 DEF ColaInv, ItemsBien, MismaVenta, Bien, De
<1>4. LotesBien'
  BY <1>1, FueraPaso DEF ColaInv, TypeOK, Estados
<1>5. QED
  BY <1>2, <1>3, <1>4 DEF ColaInv

\* A failed item of a batch, against the failures counted with it: it is counted,
\* or of a sale the server has.
LEMMA FallidaBien ==
    ASSUME ColaInv, NEW c \in Llamadas, pc[c] \in {"servidor", "insertar"},
           NEW ids \in SUBSET DOMAIN lote[c], Contar(ids, lote[c]),
           registradas' = registradas, NEW i \in DOMAIN lote[c],
           i \in ids \/ lote[c][i].venta \in registradas
    PROVE  LET q == Fallida(lote[c][i]) IN
           /\ q \in Item /\ q.venta = lote[c][i].venta
           /\ q.status = "error" <=> q.tries >= MaxIntentos
           /\ q.tries <= fallos'[q.venta] \/ q.venta \in registradas'
<1> DEFINE it == lote[c][i]
<1>1. it \in Item /\ it.venta \in Ventas /\ it.tries \in Nat
  BY DEF ColaInv, TypeOK, EsCola, Item
<1>2. Bien(it) /\ it.status = "pending"
  BY DEF ColaInv, ItemsBien, LotesBien, LoteBien
<1>3. MaxIntentos \in Nat /\ fallos[it.venta] \in Nat
  <2>1. MaxIntentos \in Nat /\ fallos \in [Ventas -> 0..MaxIntentos]
    BY OfflineConstantes DEF ColaInv, TypeOK
  <2>2. QED
    BY <1>1, <2>1
<1>4. it.tries + 1 <= fallos'[it.venta] \/ it.venta \in registradas'
  <2>1. CASE it.venta \notin registradas
    <3>1. fallos'[it.venta] = fallos[it.venta] + 1 \/ fallos'[it.venta] = MaxIntentos
      BY <1>1, <2>1, ContarSube DEF ColaInv
    <3>2. it.tries < MaxIntentos /\ it.tries <= fallos[it.venta]
      BY <1>1, <1>2, <1>3, <2>1 DEF Bien
    <3>3. QED
      BY <1>1, <1>3, <3>1, <3>2
  <2>2. QED
    BY <2>1
<1>5. QED
  BY <1>1, <1>4, FallidaItem

\* What is left of the queue and the written back items of a batch.
LEMMA DevolverPaso ==
    ASSUME ColaInv, NEW c \in Llamadas, Terminar(c),
           NEW mal \in SUBSET DOMAIN lote[c],
           \A i \in DOMAIN cola' :
               \/ i \in DOMAIN cola /\ cola'[i] = cola[i]
               \/ /\ i \in mal
                  /\ cola'[i] \in Item /\ cola'[i].venta = lote[c][i].venta
                  /\ cola'[i].status = "error" <=> cola'[i].tries >= MaxIntentos
                  /\ \/ cola'[i].tries <= fallos'[cola'[i].venta]
                     \/ cola'[i].venta \in registradas',
           fallos' \in [Ventas -> 0..MaxIntentos],
           \A v \in Ventas : fallos[v] <= fallos'[v],
           ventas' \in [Ventas -> {"no", "sin", "si"}], percances' \in 0..MaxPercances,
           UNCHANGED <<siguiente, enLinea, perdidas, sesion, registradas>>
    PROVE  ColaInv'
<1>1. siguiente' = siguiente /\ registradas' = registradas
  OBVIOUS
<1>2. TypeOK'
  <2>1. EsCola(cola)'
    BY <1>1 DEF ColaInv, TypeOK, EsCola
  <2>2. \A d \in Llamadas : EsCola(lote[d])'
    BY <1>1, TerminarPaso DEF ColaInv, EsCola
  <2>3. QED
    BY <1>1, <2>1, <2>2, TerminarPaso DEF ColaInv, TypeOK
<1>3. CopiasDeCola
  BY <1>1, TerminarPaso DEF CopiasDeCola, ColaInv
<1>4. ItemsBien'
  <2>1. EscrituraBien
    BY DEF EscrituraBien
  <2>2. QED
    BY <1>1, <1>3, <2>1, ItemsBienPaso DEF ColaInv
<1>5. MismaVenta'
  <2>1. EscrituraDeVenta
    BY DEF EscrituraDeVenta, De, ColaInv, TypeOK, EsCola, Item
  <2>2. QED
    BY <1>2, <1>3, <2>1, MismaVentaPaso DEF ColaInv
<1>6. LotesBien'
  BY <1>1, TerminarPaso, LotesBienPaso DEF ColaInv
<1>7. QED
  BY <1>2, <1>4, <1>5, <1>6 DEF ColaInv

LEMMA ResponderPaso ==
    ASSUME ColaInv, NEW c \in Llamadas, Responder(c)
    PROVE  ColaInv'
<1> DEFINE ok == {i \in Elegidos(lote[c]) : Aceptada(c, lote[c][i].venta)}
           mal == Elegidos(lote[c]) \ ok
           contados == {i \in mal : ~Admitida(c, lote[c][i].venta)}
<1>1. /\ mal \in SUBSET DOMAIN lote[c] /\ contados \in SUBSET DOMAIN lote[c]
      /\ Contar(contados, lote[c]) /\ Terminar(c) /\ pc[c] \in {"servidor", "insertar"}
  BY DEF Responder, Elegidos
<1>2. cola' = [i \in (DOMAIN cola \ ok) \cup mal |->
                  IF i \in mal THEN Fallida(lote[c][i]) ELSE cola[i]]
  BY DEF Responder
<1>3. ventas' \in [Ventas -> {"no", "sin", "si"}]
  BY DEF Responder, ColaInv, TypeOK
<1>4. UNCHANGED <<siguiente, enLinea, perdidas, sesion, registradas, percances>>
  BY DEF Responder, servidor
<1>5. \A i \in mal : i \in contados \/ lote[c][i].venta \in registradas
  BY DEF Admitida, ColaInv, LotesBien, LoteBien
<1> HIDE DEF ok, mal, contados
<1>6. /\ fallos' \in [Ventas -> 0..MaxIntentos]
      /\ \A v \in Ventas : fallos[v] <= fallos'[v]
  BY <1>1, ContarSube DEF ColaInv
<1>7. \A i \in DOMAIN cola' :
          \/ i \in DOMAIN cola /\ cola'[i] = cola[i]
          \/ /\ i \in mal
             /\ cola'[i] \in Item /\ cola'[i].venta = lote[c][i].venta
             /\ cola'[i].status = "error" <=> cola'[i].tries >= MaxIntentos
             /\ cola'[i].tries <= fallos'[cola'[i].venta] \/ cola'[i].venta \in registradas'
  BY <1>1, <1>2, <1>4, <1>5, FallidaBien
<1>8. percances' \in 0..MaxPercances
  BY <1>4 DEF ColaInv, TypeOK
<1>9. QED
  BY <1>1, <1>3, <1>4, <1>6, <1>7, <1>8, DevolverPaso

LEMMA ErrorHttpPaso ==
    ASSUME ColaInv, NEW c \in Llamadas, ErrorHttp(c)
    PROVE  ColaInv'
<1> DEFINE mal == DOMAIN lote[c]
<1>1. mal \in SUBSET DOMAIN lote[c] /\ Contar(mal, lote[c]) /\ Terminar(c)
      /\ pc[c] \in {"servidor", "insertar"}
  BY DEF ErrorHttp
<1>2. cola' = [i \in DOMAIN cola \cup mal |->
                  IF i \in mal THEN Fallida(lote[c][i]) ELSE cola[i]]
  BY DEF ErrorHttp
<1>3. UNCHANGED <<ventas, siguiente, enLinea, perdidas, sesion, registradas, percances>>
  BY DEF ErrorHttp, servidor
<1> HIDE DEF mal
<1>4. /\ fallos' \in [Ventas -> 0..MaxIntentos]
      /\ \A v \in Ventas : fallos[v] <= fallos'[v]
  BY <1>1, ContarSube DEF ColaInv
<1>5. \A i \in DOMAIN cola' :
          \/ i \in DOMAIN cola /\ cola'[i] = cola[i]
          \/ /\ i \in mal
             /\ cola'[i] \in Item /\ cola'[i].venta = lote[c][i].venta
             /\ cola'[i].status = "error" <=> cola'[i].tries >= MaxIntentos
             /\ cola'[i].tries <= fallos'[cola'[i].venta] \/ cola'[i].venta \in registradas'
  BY <1>1, <1>2, <1>3, FallidaBien
<1>6. percances' \in 0..MaxPercances /\ ventas' \in [Ventas -> {"no", "sin", "si"}]
  BY <1>3 DEF ColaInv, TypeOK
<1>7. QED
  BY <1>1, <1>3, <1>4, <1>5, <1>6, DevolverPaso

LEMMA CaerPaso ==
    ASSUME ColaInv, NEW c \in Llamadas, Caer(c)
    PROVE  ColaInv'
<1> DEFINE mal == DOMAIN lote[c]
<1>1. cola' = [i \in DOMAIN cola \cup mal |-> IF i \in mal THEN lote[c][i] ELSE cola[i]]
  BY DEF Caer, Aplazada
<1>2. Terminar(c) /\ UNCHANGED <<ventas, siguiente, enLinea, perdidas, sesion, registradas,
                                 fallos>>
  BY DEF Caer, servidor
<1>3. /\ fallos' \in [Ventas -> 0..MaxIntentos]
      /\ \A v \in Ventas : fallos[v] \in Nat /\ fallos'[v] = fallos[v]
      /\ ventas' \in [Ventas -> {"no", "sin", "si"}]
  BY <1>2, OfflineConstantes DEF ColaInv, TypeOK
<1>4. percances' \in 0..MaxPercances
  BY OfflineConstantes DEF Caer, ColaInv, TypeOK
<1>5. \A i \in DOMAIN cola' :
          \/ i \in DOMAIN cola /\ cola'[i] = cola[i]
          \/ /\ i \in mal
             /\ cola'[i] \in Item /\ cola'[i].venta = lote[c][i].venta
             /\ cola'[i].status = "error" <=> cola'[i].tries >= MaxIntentos
             /\ cola'[i].tries <= fallos'[cola'[i].venta] \/ cola'[i].venta \in registradas'
  BY <1>1, <1>2 DEF ColaInv, TypeOK, EsCola, ItemsBien, Bien
<1>6. QED
  BY <1>2, <1>3, <1>4, <1>5, DevolverPaso
LEMMA ResultadoCampos ==
    ASSUME NEW v \in Ventas, NEW e \in {"completada", "error"}
    PROVE  /\ Resultado(v, e) \in [venta : Ventas, estado : {"completada", "error"}, eco : BOOLEAN]
           /\ Resultado(v, e).venta = v /\ Resultado(v, e).estado = e
<1>1. (e = "error") \in BOOLEAN
  OBVIOUS
<1>2. QED
  BY <1>1 DEF Resultado

\* SyncBatch answers the next sale of c, and may insert it.
LEMMA ServidorPaso ==
    ASSUME ColaInv, NEW c \in Llamadas, Comprobar(c) \/ Insertar(c)
    PROVE  ColaInv'
<1> DEFINE v == lote[c][Primero(c)].venta
<1>1. v \in Ventas
  <2>1. resto[c] # {}
    BY DEF Comprobar, Insertar, ColaInv, LotesBien, LoteBien
  <2>2. Primero(c) \in DOMAIN lote[c]
    BY <2>1, PrimeroEnResto DEF ColaInv, LotesBien, LoteBien
  <2>3. QED
    BY <2>2 DEF ColaInv, TypeOK, EsCola, Item
<1> HIDE DEF v
<1>2. /\ UNCHANGED <<ventas, cola, siguiente, enLinea, lote, perdidas, sesion, fallos, percances>>
      /\ registradas' \in {registradas, registradas \cup {v}}
      /\ pc' \in {pc, [pc EXCEPT ![c] = "servidor"], [pc EXCEPT ![c] = "insertar"]}
      /\ resto' \in {resto, [resto EXCEPT ![c] = resto[c] \ {Primero(c)}]}
  BY DEF Comprobar, Insertar, Contestar, IrA, local, servidor, v
<1>3. \/ resultados' = resultados
      \/ resultados' = [resultados EXCEPT ![c] = resultados[c] \cup {Resultado(v, "error")}]
      \/ /\ resultados' = [resultados EXCEPT ![c] = resultados[c] \cup {Resultado(v, "completada")}]
         /\ v \in registradas'
  <2>1. CASE Comprobar(c)
    <3>1. v \in registradas' \/ ~(sesion /\ v \in registradas)
      BY <2>1 DEF Comprobar, servidor
    <3>2. CASE sesion /\ v \notin registradas
      BY <2>1, <3>2 DEF Comprobar, v
    <3>3. CASE ~sesion
      BY <2>1, <3>3 DEF Comprobar, Contestar, v
    <3>4. CASE sesion /\ v \in registradas
      BY <2>1, <3>1, <3>4 DEF Comprobar, Contestar, v
    <3>5. QED
      BY <3>2, <3>3, <3>4
  <2>2. CASE Insertar(c)
    BY <2>2 DEF Insertar, Contestar, v
  <2>3. QED
    BY <2>1, <2>2
<1>4. /\ pc[c] \in {"servidor", "insertar"} /\ resto[c] # {}
      /\ pc'[c] \in {"servidor", "insertar"}
      /\ pc'[c] = "insertar" => resto'[c] # {}
  BY DEF Comprobar, Insertar, Contestar, IrA, ColaInv, TypeOK, LotesBien, LoteBien
<1>5. \A e \in {"completada", "error"} :
          /\ Resultado(v, e) \in [venta : Ventas, estado : {"completada", "error"}, eco : BOOLEAN]
          /\ Resultado(v, e).venta = v /\ Resultado(v, e).estado = e
  BY <1>1, ResultadoCampos
<1>6. TypeOK'
  <2>1. \A d \in Llamadas : EsCola(lote[d])'
    BY <1>2 DEF ColaInv, TypeOK, EsCola
  <2>2. resto' \in [Llamadas -> SUBSET (1..(siguiente' - 1))]
    BY <1>2 DEF ColaInv, TypeOK
  <2>3. pc' \in [Llamadas -> Estados]
    BY <1>2 DEF ColaInv, TypeOK, Estados
  <2>4. resultados' \in [Llamadas -> SUBSET [venta : Ventas,
                             estado : {"completada", "error"}, eco : BOOLEAN]]
    <3>1. resultados \in [Llamadas -> SUBSET [venta : Ventas,
                             estado : {"completada", "error"}, eco : BOOLEAN]]
      BY DEF ColaInv, TypeOK
    <3>2. QED
      BY <1>3, <1>5, <3>1
  <2>5. EsCola(cola)'
    BY <1>2 DEF ColaInv, TypeOK, EsCola
  <2>6. registradas' \subseteq Ventas
    BY <1>1, <1>2 DEF ColaInv, TypeOK
  <2>7. QED
    BY <1>2, <2>1, <2>2, <2>3, <2>4, <2>5, <2>6 DEF ColaInv, TypeOK
<1>7. ItemsBien' /\ MismaVenta'
  <2>1. registradas \subseteq registradas' /\ UNCHANGED <<cola, lote, fallos, siguiente>>
    BY <1>2
  <2>2. QED
    BY <2>1 DEF ColaInv, ItemsBien, MismaVenta, Bien, De
<1>8. LotesBien'
  <2>1. registradas \subseteq registradas' /\ LoteBien(c)
    BY <1>2 DEF ColaInv, LotesBien
  <2>2. \A r \in resultados'[c] : r.estado = "completada" => r.venta \in registradas'
    BY <1>3, <1>5, <2>1 DEF LoteBien, ColaInv, TypeOK
  <2>3. resto'[c] \subseteq DOMAIN lote'[c]
    BY <1>2, <2>1 DEF LoteBien, ColaInv, TypeOK
  <2>4. LoteBien(c)'
    <3>1. lote' = lote /\ \A i \in DOMAIN lote[c] : lote[c][i].status = "pending"
      BY <1>2, <1>4, <2>1 DEF LoteBien
    <3>2. QED
      BY <1>4, <2>2, <2>3, <3>1 DEF LoteBien
  <2>5. \A d \in Llamadas \ {c} :
            pc'[d] = pc[d] /\ resto'[d] = resto[d] /\ resultados'[d] = resultados[d]
    BY <1>2, <1>3 DEF ColaInv, TypeOK
  <2>6. QED
    BY <1>2, <2>1, <2>4, <2>5, LotesBienPaso DEF ColaInv
<1>9. QED
  BY <1>6, <1>7, <1>8 DEF ColaInv
LEMMA LeerErroresPaso ==
    ASSUME ColaInv, NEW c \in Llamadas, LeerErrores(c)
    PROVE  ColaInv'
<1> DEFINE ids == {j \in DOMAIN cola : cola[j].status = "error"}
<1>1. /\ DOMAIN lote' = Llamadas
      /\ DOMAIN lote'[c] = ids /\ \A i \in ids : lote'[c][i] = cola[i]
      /\ \A d \in Llamadas \ {c} : lote'[d] = lote[d]
  BY DEF LeerErrores, ColaInv, TypeOK
<1>2. /\ pc[c] \in {"libre", "arrancar"} /\ pc' = [pc EXCEPT ![c] = "purgar"]
      /\ UNCHANGED <<ventas, cola, siguiente, enLinea, resto, resultados, perdidas,
                     sesion, registradas, fallos, percances>>
  BY DEF LeerErrores, IrA, local, servidor
<1>3. ids \subseteq DOMAIN cola
  OBVIOUS
<1> HIDE DEF ids
<1>4. TypeOK'
  <2>1. \A d \in Llamadas : EsCola(lote[d])'
    BY <1>1, <1>2, <1>3 DEF ColaInv, TypeOK, EsCola
  <2>2. pc' \in [Llamadas -> Estados]
    BY <1>2 DEF ColaInv, TypeOK, Estados
  <2>3. EsCola(cola)'
    BY <1>2 DEF ColaInv, TypeOK, EsCola
  <2>4. QED
    BY <1>1, <1>2, <2>1, <2>2, <2>3 DEF ColaInv, TypeOK
<1>5. CopiasDeCola
  BY <1>1, <1>3 DEF CopiasDeCola
<1>6. ItemsBien'
  <2>1. EscrituraBien
    BY <1>2 DEF EscrituraBien
  <2>2. \A v \in Ventas : fallos[v] <= fallos'[v]
    BY <1>2, OfflineConstantes DEF ColaInv, TypeOK
  <2>3. QED
    BY <1>2, <1>5, <2>1, <2>2, ItemsBienPaso DEF ColaInv, TypeOK
<1>7. MismaVenta'
  <2>1. EscrituraDeVenta
    BY <1>2 DEF EscrituraDeVenta, De, ColaInv, TypeOK, EsCola, Item
  <2>2. QED
    BY <1>4, <1>5, <2>1, MismaVentaPaso DEF ColaInv
<1>8. LotesBien'
  BY <1>1, <1>2, FueraPaso DEF Estados
<1>9. QED
  BY <1>4, <1>6, <1>7, <1>8 DEF ColaInv

LEMMA PurgarPaso ==
    ASSUME ColaInv, NEW c \in Llamadas, Purgar(c)
    PROVE  ColaInv'
<1> DEFINE reinicia == {i \in DOMAIN lote[c] : lote[c][i].tries < MaxIntentos}
           purga == DOMAIN lote[c] \ reinicia
<1>1. cola' = [i \in (DOMAIN cola \ purga) \cup reinicia |->
                  IF i \in reinicia THEN Nuevo(lote[c][i].venta) ELSE cola[i]]
  BY DEF Purgar
<1>2. /\ DOMAIN lote' = Llamadas
      /\ lote'[c] = <<>> /\ DOMAIN <<>> = {}
      /\ \A d \in Llamadas \ {c} : lote'[d] = lote[d]
  BY DEF Purgar, ColaInv, TypeOK
<1>3. /\ pc[c] = "purgar" /\ pc' = [pc EXCEPT ![c] = "releer"]
      /\ UNCHANGED <<ventas, siguiente, enLinea, resto, resultados, perdidas,
                     sesion, registradas, fallos, percances>>
  BY DEF Purgar, IrA, servidor
<1>4. reinicia \subseteq DOMAIN lote[c]
  OBVIOUS
<1>5. \A i \in reinicia : /\ i \in 1..(siguiente - 1)
                          /\ lote[c][i].venta \in Ventas
                          /\ Nuevo(lote[c][i].venta) \in Item
                          /\ Nuevo(lote[c][i].venta).venta = lote[c][i].venta
                          /\ Nuevo(lote[c][i].venta).status = "pending"
                          /\ Nuevo(lote[c][i].venta).tries = 0
  BY <1>4, NuevoItem DEF ColaInv, TypeOK, EsCola, Item
<1>6. \A i \in DOMAIN cola' :
          \/ i \in DOMAIN cola /\ cola'[i] = cola[i]
          \/ i \in reinicia /\ cola'[i] = Nuevo(lote[c][i].venta)
  BY <1>1
<1> HIDE DEF reinicia
<1>7. TypeOK'
  <2>1. \A d \in Llamadas : EsCola(lote[d])'
    BY <1>2, <1>3 DEF ColaInv, TypeOK, EsCola
  <2>2. pc' \in [Llamadas -> Estados]
    BY <1>3 DEF ColaInv, TypeOK, Estados
  <2>3. EsCola(cola)'
    BY <1>3, <1>5, <1>6 DEF ColaInv, TypeOK, EsCola
  <2>4. QED
    BY <1>2, <1>3, <2>1, <2>2, <2>3 DEF ColaInv, TypeOK
<1>8. CopiasDeCola
  BY <1>2 DEF CopiasDeCola
<1>9. ItemsBien'
  <2>1. MaxIntentos \in Nat \ {0} /\ fallos \in [Ventas -> 0..MaxIntentos] /\ fallos' = fallos
    BY <1>3, OfflineConstantes DEF ColaInv, TypeOK
  <2>2. EscrituraBien
    BY <1>5, <1>6, <2>1 DEF EscrituraBien
  <2>3. QED
    BY <1>3, <1>8, <2>1, <2>2, ItemsBienPaso DEF ColaInv
<1>10. MismaVenta'
  <2>1. EscrituraDeVenta
    BY <1>4, <1>5, <1>6 DEF EscrituraDeVenta, De, ColaInv, TypeOK, EsCola, Item
  <2>2. QED
    BY <1>7, <1>8, <2>1, MismaVentaPaso DEF ColaInv
<1>11. LotesBien'
  BY <1>2, <1>3, FueraPaso DEF Estados
<1>12. QED
  BY <1>7, <1>9, <1>10, <1>11 DEF ColaInv

LEMMA ReleerPaso ==
    ASSUME ColaInv, NEW c \in Llamadas, Releer(c)
    PROVE  ColaInv'
<1>1. /\ pc[c] = "releer" /\ pc' = [pc EXCEPT ![c] = "reencolar"]
      /\ UNCHANGED <<ventas, cola, siguiente, enLinea, lote, resto, resultados,
                     sesion, registradas, fallos, percances>>
  BY DEF Releer, IrA, local, servidor
<1>2. perdidas' \in [Llamadas -> SUBSET Ventas]
  BY DEF Releer, ColaInv, TypeOK
<1>3. TypeOK'
  BY <1>1, <1>2 DEF ColaInv, TypeOK, EsCola, Estados
<1>4. ItemsBien' /\ MismaVenta'
  BY <1>1 DEF ColaInv, ItemsBien, MismaVenta, Bien, De
<1>5. LotesBien'
  BY <1>1, FueraPaso DEF ColaInv, TypeOK, Estados
<1>6. QED
  BY <1>3, <1>4, <1>5 DEF ColaInv

LEMMA ReencolarPaso ==
    ASSUME ColaInv, NEW c \in Llamadas, Reencolar(c)
    PROVE  ColaInv'
<1> DEFINE lista == perdidas[c]
           nuevas == {Id(lista, v) : v \in lista}
<1>1. lista \in SUBSET Ventas /\ siguiente \in Nat \ {0} /\ Cardinality(lista) \in Nat
  BY IdsNuevos DEF ColaInv, TypeOK
<1>2. /\ siguiente' = siguiente + Cardinality(lista)
      /\ ventas' \in [Ventas -> {"no", "sin", "si"}]
      /\ perdidas' \in [Llamadas -> SUBSET Ventas]
      /\ pc[c] = "reencolar" /\ pc' = [pc EXCEPT ![c] = "sincronizar"]
      /\ UNCHANGED <<enLinea, lote, resto, resultados, sesion, registradas, fallos, percances>>
  BY DEF Reencolar, IrA, servidor, ColaInv, TypeOK
<1>3. DOMAIN cola' = DOMAIN cola \cup nuevas
  BY DEF Reencolar
<1>4. ASSUME NEW i \in DOMAIN cola'
      PROVE  \/ i \in DOMAIN cola /\ cola'[i] = cola[i]
             \/ /\ i \in siguiente..(siguiente' - 1)
                /\ \E v \in lista : cola'[i] = Nuevo(v)
  <2>1. CASE i \in DOMAIN cola
    BY <2>1 DEF Reencolar
  <2>2. CASE i \notin DOMAIN cola
    <3>1. PICK v \in lista : i = Id(lista, v)
      BY <1>3, <2>2
    <3>2. cola'[i] = Nuevo(CHOOSE u \in lista : Id(lista, u) = i)
      BY <1>3, <2>2 DEF Reencolar
    <3>3. (CHOOSE u \in lista : Id(lista, u) = i) \in lista
      BY <3>1
    <3>4. i \in siguiente..(siguiente' - 1)
      BY <1>1, <1>2, <3>1, IdsNuevos
    <3>5. QED
      BY <3>2, <3>3, <3>4
  <2>3. QED
    BY <2>1, <2>2
<1> HIDE DEF lista, nuevas
<1>5. TypeOK'
  <2>1. siguiente' \in Nat \ {0} /\ siguiente <= siguiente'
    BY <1>1, <1>2
  <2>2. ASSUME NEW i \in DOMAIN cola'
        PROVE  i \in 1..(siguiente' - 1) /\ cola'[i] \in Item
    <3>1. CASE i \in DOMAIN cola /\ cola'[i] = cola[i]
      BY <1>1, <2>1, <3>1 DEF ColaInv, TypeOK, EsCola
    <3>2. CASE i \in siguiente..(siguiente' - 1) /\ \E v \in lista : cola'[i] = Nuevo(v)
      BY <1>1, <2>1, <3>2, NuevoItem
    <3>3. QED
      BY <1>4, <3>1, <3>2
  <2>3. \A d \in Llamadas : EsCola(lote[d])'
    BY <1>1, <1>2, <2>1 DEF ColaInv, TypeOK, EsCola
  <2>4. resto' \in [Llamadas -> SUBSET (1..(siguiente' - 1))]
    BY <1>1, <1>2, <2>1 DEF ColaInv, TypeOK
  <2>5. pc' \in [Llamadas -> Estados]
    BY <1>2 DEF ColaInv, TypeOK, Estados
  <2>6. EsCola(cola)'
    BY <2>2 DEF EsCola
  <2>7. QED
    BY <1>2, <2>1, <2>3, <2>4, <2>5, <2>6 DEF ColaInv, TypeOK
<1>6. CopiasDeCola
  BY <1>2 DEF CopiasDeCola
<1>7. ItemsBien'
  <2>1. MaxIntentos \in Nat \ {0} /\ fallos \in [Ventas -> 0..MaxIntentos] /\ fallos' = fallos
    BY <1>2, OfflineConstantes DEF ColaInv, TypeOK
  <2>2. \A v \in lista : /\ v \in Ventas /\ Nuevo(v).venta = v
                         /\ Nuevo(v).status = "pending" /\ Nuevo(v).tries = 0
    BY <1>1, NuevoItem
  <2>3. EscrituraBien
    BY <1>4, <2>1, <2>2 DEF EscrituraBien
  <2>4. QED
    BY <1>2, <1>6, <2>1, <2>3, ItemsBienPaso DEF ColaInv
<1>8. MismaVenta'
  <2>1. EscrituraDeVenta
    BY <1>1, <1>4 DEF EscrituraDeVenta, De, ColaInv, TypeOK, EsCola, Item
  <2>2. QED
    BY <1>5, <1>6, <2>1, MismaVentaPaso DEF ColaInv
<1>9. LotesBien'
  BY <1>2, FueraPaso DEF ColaInv, TypeOK, Estados
<1>10. QED
  BY <1>5, <1>7, <1>8, <1>9 DEF ColaInv

LEMMA RecargarPaso ==
    ASSUME ColaInv, Recargar
    PROVE  ColaInv'
<1>1. /\ \A c \in Llamadas : DOMAIN lote'[c] = {} /\ resto'[c] = {} /\ resultados'[c] = {}
      /\ \A c \in Llamadas : pc'[c] \in {"libre", "arrancar"}
      /\ UNCHANGED <<ventas, cola, siguiente, enLinea, sesion, registradas, fallos>>
  BY DEF Recargar, local, servidor
<1>2. TypeOK'
  <2>1. \A d \in Llamadas : EsCola(lote[d])'
    BY <1>1 DEF EsCola
  <2>2. pc' \in [Llamadas -> Estados]
    BY DEF Recargar, Estados
  <2>3. percances' \in 0..MaxPercances
    BY OfflineConstantes DEF Recargar, ColaInv, TypeOK
  <2>4. EsCola(cola)'
    BY <1>1 DEF ColaInv, TypeOK, EsCola
  <2>5. QED
    BY <1>1, <2>1, <2>2, <2>3, <2>4 DEF Recargar, ColaInv, TypeOK
<1>3. ItemsBien'
  BY <1>1 DEF ColaInv, ItemsBien, Bien
<1>4. MismaVenta'
  BY <1>1 DEF ColaInv, MismaVenta, De
<1>5. LotesBien'
  BY <1>1 DEF LotesBien, LoteBien
<1>6. QED
  BY <1>2, <1>3, <1>4, <1>5 DEF ColaInv

\* The till session, the network, and steps that change nothing.
LEMMA EntornoPaso ==
    ASSUME ColaInv, CerrarSesion \/ Desconectar \/ Reconectar \/ UNCHANGED vars
    PROVE  ColaInv'
<1>1. /\ UNCHANGED <<ventas, cola, siguiente, pc, lote, resto, resultados, perdidas,
                     registradas, fallos>>
      /\ enLinea' \in BOOLEAN /\ sesion' \in BOOLEAN /\ percances' \in 0..MaxPercances
  <2>1. CASE CerrarSesion
    BY <2>1 DEF CerrarSesion, local, llamada, ColaInv, TypeOK
  <2>2. CASE Desconectar
    <3>1. percances \in 0..MaxPercances /\ MaxPercances \in Nat /\ sesion \in BOOLEAN
      BY OfflineConstantes DEF ColaInv, TypeOK
    <3>2. percances < MaxPercances /\ percances' = percances + 1 /\ enLinea' = FALSE
      BY <2>2 DEF Desconectar
    <3>3. UNCHANGED <<ventas, cola, siguiente, pc, lote, resto, resultados, perdidas,
                      registradas, fallos, sesion>>
      BY <2>2 DEF Desconectar, local, llamada, servidor
    <3>4. percances' \in 0..MaxPercances
      BY <3>1, <3>2
    <3>5. QED
      BY <3>1, <3>2, <3>3, <3>4
  <2>3. CASE Reconectar
    BY <2>3 DEF Reconectar, local, llamada, servidor, ColaInv, TypeOK
  <2>4. CASE UNCHANGED vars
    BY <2>4 DEF vars, ColaInv, TypeOK
  <2>5. QED
    BY <2>1, <2>2, <2>3, <2>4
<1>2. TypeOK'
  BY <1>1 DEF ColaInv, TypeOK, EsCola
<1>3. ItemsBien' /\ MismaVenta' /\ LotesBien'
  BY <1>1 DEF ColaInv, ItemsBien, MismaVenta, LotesBien, LoteBien, Bien, De
<1>4. QED
  BY <1>2, <1>3 DEF ColaInv

LEMMA NextColaInv == ColaInv /\ [Next]_vars => ColaInv'
<1> SUFFICES ASSUME ColaInv, [Next]_vars PROVE ColaInv'
  OBVIOUS
<1>1. CASE \E v \in Ventas : Vender(v)
  BY <1>1, VenderPaso
<1>2. CASE \E c \in Llamadas : Sigue(c) \/ LeerErrores(c)
  BY <1>2, EnviarPaso, NadaQueEnviarPaso, ResponderPaso, ErrorHttpPaso, CaerPaso,
     ServidorPaso, LeerErroresPaso, PurgarPaso, ReleerPaso, ReencolarPaso DEF Sigue
<1>3. CASE CerrarSesion \/ Desconectar \/ Reconectar \/ UNCHANGED vars
  BY <1>3, EntornoPaso
<1>4. CASE Recargar
  BY <1>4, RecargarPaso
<1>5. QED
  BY <1>1, <1>2, <1>3, <1>4 DEF Next

\* The inductive invariant holds in every reachable state.
THEOREM ColaSiempre == Spec => []ColaInv
BY InitColaInv, NextColaInv, PTL DEF Spec

\* The till's queue, the batches under way and the server's rows are well typed,
\* whatever the number of overlapping calls.
THEOREM TiposCorrectos == Spec => []TypeOK
<1>1. ColaInv => TypeOK
  BY DEF ColaInv
<1>2. QED
  BY <1>1, ColaSiempre, PTL

\* No attempt is counted without an answer that did not accept the sale, unless
\* the server already has it, for any number of calls with stale copies.
THEOREM IntentosSiempreJustificados == Spec => []IntentosJustificados
<1>1. ColaInv => IntentosJustificados
  BY DEF ColaInv, ItemsBien, Bien, IntentosJustificados
<1>2. QED
  BY <1>1, ColaSiempre, PTL
-----------------------------------------------------------------------------
(* A sale leaves the queue unregistered only when its attempts are used up. *)

\* A copy of an item that is in the queue is of the same sale.
LEMMA CopiaMismaVenta ==
    ASSUME ColaInv, NEW c \in Llamadas, NEW i \in DOMAIN lote[c]
    PROVE  /\ lote[c][i].venta \in Ventas
           /\ i \in DOMAIN cola => cola[i].venta = lote[c][i].venta
<1>1. i \in 1..(siguiente - 1) /\ lote[c][i].venta \in Ventas
  BY DEF ColaInv, TypeOK, EsCola, Item
<1>2. De(i, lote[c][i].venta)
  BY DEF De
<1>3. CASE i \in DOMAIN cola
  <2>1. cola[i].venta \in Ventas /\ De(i, cola[i].venta)
    BY <1>3 DEF De, ColaInv, TypeOK, EsCola, Item
  <2>2. QED
    BY <1>1, <1>2, <2>1 DEF ColaInv, MismaVenta
<1>4. QED
  BY <1>1, <1>3

\* A step takes the items of a sale out of the queue only when the server has
\* the sale or its attempts are used up.
NoPierde ==
    \A v \in Ventas :
        EnCola(v) => EnCola(v)' \/ v \in registradas' \/ fallos'[v] = MaxIntentos

\* What a step must do besides: account for the sales it marks unsynchronised.
LEMMA SoloSePierdePaso ==
    ASSUME ColaInv, ColaInv', SoloSePierdeTrasRechazos,
           registradas \subseteq registradas',
           \A v \in Ventas : fallos[v] <= fallos'[v],
           \A v \in Ventas :
               \/ ventas'[v] = "sin" => ventas[v] = "sin"
               \/ EnCola(v)' \/ v \in registradas',
           NoPierde
    PROVE  SoloSePierdeTrasRechazos'
<1>1. MaxIntentos \in Nat /\ fallos' \in [Ventas -> 0..MaxIntentos]
  BY OfflineConstantes DEF ColaInv, TypeOK
<1>2. ASSUME NEW v \in Ventas, fallos[v] = MaxIntentos
      PROVE  fallos'[v] = MaxIntentos
  BY <1>1, <1>2
<1>3. QED
  BY <1>2 DEF SoloSePierdeTrasRechazos, NoPierde

\* Items that are written back under their keys keep their sales in the queue.
LEMMA EnColaSeMantiene ==
    ASSUME ColaInv, NEW c \in Llamadas, NEW v \in Ventas, EnCola(v),
           \A i \in DOMAIN cola :
               /\ i \in DOMAIN cola'
               /\ \/ cola'[i] = cola[i]
                  \/ i \in DOMAIN lote[c] /\ cola'[i].venta = lote[c][i].venta
    PROVE  EnCola(v)'
BY CopiaMismaVenta DEF EnCola

LEMMA FallosIguales ==
    ASSUME TypeOK, fallos' = fallos
    PROVE  \A v \in Ventas : fallos[v] <= fallos'[v]
<1>1. MaxIntentos \in Nat /\ fallos \in [Ventas -> 0..MaxIntentos]
  BY OfflineConstantes DEF TypeOK
<1>2. QED
  BY <1>1

LEMMA ResponderNoPierde ==
    ASSUME ColaInv, ColaInv', SoloSePierdeTrasRechazos, NEW c \in Llamadas, Responder(c)
    PROVE  NoPierde /\ SoloSePierdeTrasRechazos'
<1> DEFINE ok == {i \in Elegidos(lote[c]) : Aceptada(c, lote[c][i].venta)}
           mal == Elegidos(lote[c]) \ ok
           contados == {i \in mal : ~Admitida(c, lote[c][i].venta)}
<1>1. mal \in SUBSET DOMAIN lote[c] /\ Contar(contados, lote[c]) /\ pc[c] = "servidor"
      /\ ok \in SUBSET DOMAIN lote[c]
  BY DEF Responder, Elegidos
<1>2. cola' = [i \in (DOMAIN cola \ ok) \cup mal |->
                  IF i \in mal THEN Fallida(lote[c][i]) ELSE cola[i]]
  BY DEF Responder
<1>3. \A v \in Ventas : ventas'[v] = "sin" => ventas[v] = "sin"
  BY DEF Responder
<1>4. registradas' = registradas
  BY DEF Responder, servidor
<1>5. \A i \in ok : lote[c][i].venta \in registradas
  BY <1>1 DEF Aceptada, ColaInv, LotesBien, LoteBien
<1> HIDE DEF ok, mal, contados
<1>6. \A v \in Ventas : fallos[v] <= fallos'[v]
  BY <1>1, ContarSube DEF ColaInv
<1>7. \A i \in mal : Fallida(lote[c][i]).venta = lote[c][i].venta
  BY <1>1, FallidaItem DEF ColaInv, TypeOK, EsCola
<1>8. ASSUME NEW v \in Ventas, EnCola(v), v \notin registradas
      PROVE  EnCola(v)'
  <2>1. PICK i \in DOMAIN cola : cola[i].venta = v
    BY <1>8 DEF EnCola
  <2>2. i \notin ok
    BY <1>1, <1>5, <1>8, <2>1, CopiaMismaVenta
  <2>3. i \in DOMAIN cola' /\ cola'[i].venta = v
    BY <1>1, <1>2, <1>7, <2>1, <2>2, CopiaMismaVenta
  <2>4. QED
    BY <2>3 DEF EnCola
<1>9. NoPierde
  BY <1>4, <1>8 DEF NoPierde
<1>10. QED
  BY <1>3, <1>4, <1>6, <1>9, SoloSePierdePaso

LEMMA ErrorHttpNoPierde ==
    ASSUME ColaInv, ColaInv', SoloSePierdeTrasRechazos, NEW c \in Llamadas, ErrorHttp(c)
    PROVE  NoPierde /\ SoloSePierdeTrasRechazos'
<1>1. /\ cola' = [i \in DOMAIN cola \cup DOMAIN lote[c] |->
                     IF i \in DOMAIN lote[c] THEN Fallida(lote[c][i]) ELSE cola[i]]
      /\ Contar(DOMAIN lote[c], lote[c]) /\ ventas' = ventas /\ registradas' = registradas
  BY DEF ErrorHttp, servidor
<1>2. \A i \in DOMAIN lote[c] : Fallida(lote[c][i]).venta = lote[c][i].venta
  BY FallidaItem DEF ColaInv, TypeOK, EsCola
<1>3. \A v \in Ventas : EnCola(v) => EnCola(v)'
  BY <1>1, <1>2, EnColaSeMantiene
<1>4. \A v \in Ventas : fallos[v] <= fallos'[v]
  BY <1>1, ContarSube DEF ColaInv
<1>5. NoPierde
  BY <1>3 DEF NoPierde
<1>6. QED
  BY <1>1, <1>4, <1>5, SoloSePierdePaso

LEMMA CaerNoPierde ==
    ASSUME ColaInv, ColaInv', SoloSePierdeTrasRechazos, NEW c \in Llamadas, Caer(c)
    PROVE  NoPierde /\ SoloSePierdeTrasRechazos'
<1>1. /\ cola' = [i \in DOMAIN cola \cup DOMAIN lote[c] |->
                     IF i \in DOMAIN lote[c] THEN lote[c][i] ELSE cola[i]]
      /\ UNCHANGED <<ventas, registradas, fallos>>
  BY DEF Caer, Aplazada, servidor
<1>2. \A v \in Ventas : EnCola(v) => EnCola(v)'
  BY <1>1, EnColaSeMantiene
<1>3. \A v \in Ventas : fallos[v] <= fallos'[v]
  BY <1>1, FallosIguales DEF ColaInv
<1>4. NoPierde
  BY <1>2 DEF NoPierde
<1>5. QED
  BY <1>1, <1>3, <1>4, SoloSePierdePaso

LEMMA PurgarNoPierde ==
    ASSUME ColaInv, ColaInv', SoloSePierdeTrasRechazos, NEW c \in Llamadas, Purgar(c)
    PROVE  NoPierde /\ SoloSePierdeTrasRechazos'
<1> DEFINE reinicia == {i \in DOMAIN lote[c] : lote[c][i].tries < MaxIntentos}
           purga == DOMAIN lote[c] \ reinicia
<1>1. cola' = [i \in (DOMAIN cola \ purga) \cup reinicia |->
                  IF i \in reinicia THEN Nuevo(lote[c][i].venta) ELSE cola[i]]
  BY DEF Purgar
<1>2. UNCHANGED <<ventas, registradas, fallos>>
  BY DEF Purgar, servidor
<1>3. MaxIntentos \in Nat /\ fallos \in [Ventas -> 0..MaxIntentos]
  BY OfflineConstantes DEF ColaInv, TypeOK
<1>4. ASSUME NEW i \in purga
      PROVE  fallos[lote[c][i].venta] = MaxIntentos \/ lote[c][i].venta \in registradas
  <2>1. lote[c][i].venta \in Ventas /\ lote[c][i].tries \in Nat /\ Bien(lote[c][i])
    BY DEF ColaInv, TypeOK, EsCola, Item, ItemsBien
  <2>2. lote[c][i].tries >= MaxIntentos /\ fallos[lote[c][i].venta] \in 0..MaxIntentos
    BY <1>3, <2>1
  <2>3. QED
    BY <1>3, <2>1, <2>2 DEF Bien
<1>5. \A i \in reinicia : Nuevo(lote[c][i].venta).venta = lote[c][i].venta
  BY CopiaMismaVenta, NuevoItem
<1>6. reinicia \subseteq DOMAIN lote[c] /\ purga \subseteq DOMAIN lote[c]
  OBVIOUS
<1> HIDE DEF reinicia, purga
<1>7. ASSUME NEW v \in Ventas, EnCola(v), fallos[v] # MaxIntentos, v \notin registradas
      PROVE  EnCola(v)'
  <2>1. PICK i \in DOMAIN cola : cola[i].venta = v
    BY <1>7 DEF EnCola
  <2>2. i \notin purga
    BY <1>4, <1>6, <1>7, <2>1, CopiaMismaVenta
  <2>3. i \in DOMAIN cola' /\ cola'[i].venta = v
    BY <1>1, <1>5, <1>6, <2>1, <2>2, CopiaMismaVenta
  <2>4. QED
    BY <2>3 DEF EnCola
<1>8. \A v \in Ventas : fallos[v] <= fallos'[v]
  BY <1>2, <1>3
<1>9. NoPierde
  BY <1>2, <1>7 DEF NoPierde
<1>10. QED
  BY <1>2, <1>8, <1>9, SoloSePierdePaso

LEMMA ReencolarNoPierde ==
    ASSUME ColaInv, ColaInv', SoloSePierdeTrasRechazos, NEW c \in Llamadas, Reencolar(c)
    PROVE  NoPierde /\ SoloSePierdeTrasRechazos'
<1> DEFINE lista == perdidas[c]
<1>1. /\ siguiente \in Nat \ {0} /\ lista \in SUBSET Ventas
      /\ DOMAIN cola \subseteq 1..(siguiente - 1)
  BY DEF ColaInv, TypeOK, EsCola
<1>2. /\ cola' = [i \in DOMAIN cola \cup {Id(lista, v) : v \in lista} |->
                     IF i \in DOMAIN cola THEN cola[i]
                     ELSE Nuevo(CHOOSE v \in lista : Id(lista, v) = i)]
      /\ \A v \in Ventas : v \notin lista => ventas'[v] = ventas[v]
      /\ UNCHANGED <<registradas, fallos>>
  BY DEF Reencolar, servidor
<1> HIDE DEF lista
<1>3. ASSUME NEW v \in lista
      PROVE  EnCola(v)'
  <2>1. /\ Id(lista, v) \in siguiente..(siguiente + Cardinality(lista) - 1)
        /\ \A u \in lista : Id(lista, u) = Id(lista, v) => u = v
        /\ Cardinality(lista) \in Nat
    BY <1>1, IdsNuevos
  <2>2. Id(lista, v) \notin DOMAIN cola
    BY <1>1, <2>1
  <2>3. (CHOOSE u \in lista : Id(lista, u) = Id(lista, v)) = v
    BY <2>1
  <2>4. Id(lista, v) \in DOMAIN cola' /\ cola'[Id(lista, v)] = Nuevo(v)
    BY <1>2, <2>2, <2>3
  <2>5. Nuevo(v).venta = v
    BY <1>1, NuevoItem
  <2>6. QED
    BY <2>4, <2>5 DEF EnCola
<1>4. \A v \in Ventas : EnCola(v) => EnCola(v)'
  BY <1>2 DEF EnCola
<1>5. \A v \in Ventas : fallos[v] <= fallos'[v]
  BY <1>2, FallosIguales DEF ColaInv
<1>6. NoPierde
  BY <1>4 DEF NoPierde
<1>7. QED
  BY <1>2, <1>3, <1>5, <1>6, SoloSePierdePaso

LEMMA VenderNoPierde ==
    ASSUME ColaInv, ColaInv', SoloSePierdeTrasRechazos, NEW v \in Ventas, Vender(v)
    PROVE  SoloSePierdeTrasRechazos'
<1>1. siguiente \notin DOMAIN cola
  BY DEF ColaInv, TypeOK, EsCola
<1>2. /\ DOMAIN cola' = DOMAIN cola \cup {siguiente}
      /\ \A i \in DOMAIN cola : cola'[i] = cola[i]
      /\ cola'[siguiente] = Nuevo(v)
      /\ \A u \in Ventas \ {v} : ventas'[u] = ventas[u]
      /\ UNCHANGED <<registradas, fallos>>
  BY <1>1 DEF Vender, servidor
<1>3. EnCola(v)'
  BY <1>2, NuevoItem DEF EnCola
<1>4. \A u \in Ventas : EnCola(u) => EnCola(u)'
  BY <1>2 DEF EnCola
<1>5. \A u \in Ventas : fallos[u] <= fallos'[u]
  BY <1>2, FallosIguales DEF ColaInv
<1>6. NoPierde
  BY <1>4 DEF NoPierde
<1>7. QED
  BY <1>2, <1>3, <1>5, <1>6, SoloSePierdePaso

\* Steps that leave the queue, the flags and the counts alone.
LEMMA AjenoNoPierde ==
    ASSUME ColaInv, ColaInv', SoloSePierdeTrasRechazos,
           UNCHANGED <<ventas, cola, fallos>>, registradas \subseteq registradas'
    PROVE  SoloSePierdeTrasRechazos'
BY DEF SoloSePierdeTrasRechazos, EnCola

LEMMA NextNoPierde ==
    ColaInv /\ SoloSePierdeTrasRechazos /\ [Next]_vars => SoloSePierdeTrasRechazos'
<1> SUFFICES ASSUME ColaInv, SoloSePierdeTrasRechazos, [Next]_vars
             PROVE  SoloSePierdeTrasRechazos'
  OBVIOUS
<1>1. ColaInv'
  BY NextColaInv
<1>2. CASE \E v \in Ventas : Vender(v)
  BY <1>1, <1>2, VenderNoPierde
<1>3. ASSUME NEW c \in Llamadas, Sigue(c) \/ LeerErrores(c)
      PROVE  SoloSePierdeTrasRechazos'
  <2>1. CASE Responder(c)
    BY <1>1, <2>1, ResponderNoPierde
  <2>2. CASE ErrorHttp(c)
    BY <1>1, <2>2, ErrorHttpNoPierde
  <2>3. CASE Caer(c)
    BY <1>1, <2>3, CaerNoPierde
  <2>4. CASE Purgar(c)
    BY <1>1, <2>4, PurgarNoPierde
  <2>5. CASE Reencolar(c)
    BY <1>1, <2>5, ReencolarNoPierde
  <2>6. CASE Enviar(c) \/ NadaQueEnviar(c) \/ Comprobar(c) \/ Insertar(c)
             \/ Releer(c) \/ LeerErrores(c)
    <3>1. UNCHANGED <<ventas, cola, fallos>> /\ registradas \subseteq registradas'
      BY <2>6 DEF Enviar, NadaQueEnviar, Comprobar, Insertar, Releer, LeerErrores,
         local, servidor
    <3>2. QED
      BY <1>1, <3>1, AjenoNoPierde
  <2>7. QED
    BY <1>3, <2>1, <2>2, <2>3, <2>4, <2>5, <2>6 DEF Sigue
<1>4. CASE CerrarSesion \/ Desconectar \/ Reconectar \/ Recargar \/ UNCHANGED vars
  <2>1. UNCHANGED <<ventas, cola, fallos, registradas>>
    BY <1>4 DEF CerrarSesion, Desconectar, Reconectar, Recargar, vars, local, servidor
  <2>2. QED
    BY <1>1, <2>1, AjenoNoPierde
<1>5. QED
  BY <1>2, <1>3, <1>4 DEF Next

\* However the calls overlap, whatever fails and whenever the page reloads: a
\* sale that is in neither place was refused MaxIntentos times.
THEOREM NoPierdeSinRechazos == Spec => []SoloSePierdeTrasRechazos
<1>1. Init => SoloSePierdeTrasRechazos
  BY DEF Init, SoloSePierdeTrasRechazos
<1>2. QED
  BY <1>1, ColaSiempre, NextNoPierde, PTL DEF Spec

-----------------------------------------------------------------------------
(***************************************************************************)
(* OfflineSync implements Entrega: every step of the queue, of a call, of  *)
(* the server or of the browser is a step of store and forward, or none.   *)
(***************************************************************************)

\* What waits, travels or is about to be queued again are sales that were made.
SoloHechas ==
    /\ \A i \in DOMAIN cola : ventas[cola[i].venta] # "no"
    /\ \A c \in Llamadas : \A i \in DOMAIN lote[c] : ventas[lote[c][i].venta] # "no"
    /\ \A c \in Llamadas : \A v \in perdidas[c] : ventas[v] # "no"

-----------------------------------------------------------------------------
(* SoloHechas is kept. *)

\* No sale is unmade, and what a step writes to the queue, or reads in order to
\* queue it, was made.
VentasCrecen == \A v \in Ventas : ventas[v] # "no" => ventas'[v] # "no"

EscrituraHecha ==
    \A i \in DOMAIN cola' :
        \/ i \in DOMAIN cola /\ cola'[i] = cola[i]
        \/ ventas'[cola'[i].venta] # "no"

PerdidasHechas ==
    \A c \in Llamadas : \A v \in perdidas'[c] :
        v \in perdidas[c] \/ (v \in Ventas /\ ventas[v] # "no")

LEMMA SoloHechasPaso ==
    ASSUME ColaInv, SoloHechas, CopiasDeCola, VentasCrecen, EscrituraHecha, PerdidasHechas
    PROVE  SoloHechas'
<1>1. /\ \A i \in DOMAIN cola : cola[i].venta \in Ventas
      /\ \A c \in Llamadas : \A i \in DOMAIN lote[c] : lote[c][i].venta \in Ventas
      /\ \A c \in Llamadas : perdidas[c] \subseteq Ventas
  BY DEF ColaInv, TypeOK, EsCola, Item
<1>2. \A i \in DOMAIN cola' : ventas'[cola'[i].venta] # "no"
  BY <1>1 DEF SoloHechas, VentasCrecen, EscrituraHecha
<1>3. \A c \in Llamadas : \A i \in DOMAIN lote'[c] : ventas'[lote'[c][i].venta] # "no"
  BY <1>1 DEF SoloHechas, CopiasDeCola, VentasCrecen
<1>4. \A c \in Llamadas : \A v \in perdidas'[c] : ventas'[v] # "no"
  BY <1>1 DEF SoloHechas, VentasCrecen, PerdidasHechas
<1>5. QED
  BY <1>2, <1>3, <1>4 DEF SoloHechas

\* A call that ends keeps no copies.
LEMMA TerminarCopias ==
    ASSUME ColaInv, NEW c \in Llamadas, Terminar(c), siguiente' = siguiente
    PROVE  CopiasDeCola
BY TerminarPaso DEF CopiasDeCola, ColaInv

\* The steps that write the items of a batch back.
LEMMA DevolverHechas ==
    ASSUME ColaInv, SoloHechas, NEW c \in Llamadas,
           Responder(c) \/ ErrorHttp(c) \/ Caer(c)
    PROVE  /\ SoloHechas'
           /\ \A v \in Ventas : ventas'[v] # "no" <=> ventas[v] # "no"
<1> DEFINE ok == {i \in Elegidos(lote[c]) : Aceptada(c, lote[c][i].venta)}
           mal == Elegidos(lote[c]) \ ok
<1>1. Terminar(c) /\ siguiente' = siguiente /\ perdidas' = perdidas
  BY DEF Responder, ErrorHttp, Caer
<1>2. /\ \A i \in DOMAIN lote[c] : Fallida(lote[c][i]).venta = lote[c][i].venta
      /\ \A i \in DOMAIN lote[c] : lote[c][i].venta \in Ventas
  BY FallidaItem DEF ColaInv, TypeOK, EsCola, Item
<1>3. \A i \in DOMAIN cola' :
          \/ i \in DOMAIN cola /\ cola'[i] = cola[i]
          \/ i \in DOMAIN lote[c] /\ cola'[i].venta = lote[c][i].venta
  <2>1. CASE Responder(c)
    <3>1. /\ cola' = [i \in (DOMAIN cola \ ok) \cup mal |->
                         IF i \in mal THEN Fallida(lote[c][i]) ELSE cola[i]]
          /\ mal \subseteq DOMAIN lote[c]
      BY <2>1 DEF Responder, Elegidos
    <3> HIDE DEF ok, mal
    <3>2. QED
      BY <1>2, <3>1
  <2>2. CASE ErrorHttp(c)
    BY <1>2, <2>2 DEF ErrorHttp
  <2>3. CASE Caer(c)
    BY <1>2, <2>3 DEF Caer, Aplazada
  <2>4. QED
    BY <2>1, <2>2, <2>3
<1>4. \A v \in Ventas : ventas'[v] # "no" <=> ventas[v] # "no"
  <2>1. CASE Responder(c)
    <3>1. ventas' = [v \in Ventas |-> IF \E i \in ok : lote[c][i].venta = v THEN "si" ELSE ventas[v]]
          /\ ok \subseteq DOMAIN lote[c]
      BY <2>1 DEF Responder, Elegidos
    <3> HIDE DEF ok
    <3>2. \A v \in Ventas : (\E i \in ok : lote[c][i].venta = v) => ventas[v] # "no"
      BY <3>1 DEF SoloHechas
    <3>3. QED
      BY <3>1, <3>2
  <2>2. CASE ErrorHttp(c) \/ Caer(c)
    BY <2>2 DEF ErrorHttp, Caer
  <2>3. QED
    BY <2>1, <2>2
<1>5. CopiasDeCola
  BY <1>1, TerminarCopias
<1>6. EscrituraHecha
  BY <1>2, <1>3, <1>4 DEF EscrituraHecha, SoloHechas
<1>7. VentasCrecen /\ PerdidasHechas
  BY <1>1, <1>4 DEF VentasCrecen, PerdidasHechas
<1>8. QED
  BY <1>4, <1>5, <1>6, <1>7, SoloHechasPaso

LEMMA PurgarHechas ==
    ASSUME ColaInv, SoloHechas, NEW c \in Llamadas, Purgar(c)
    PROVE  SoloHechas' /\ ventas' = ventas
<1>1. /\ \A i \in DOMAIN cola' :
             \/ i \in DOMAIN cola /\ cola'[i] = cola[i]
             \/ i \in DOMAIN lote[c] /\ cola'[i] = Nuevo(lote[c][i].venta)
      /\ lote' = [lote EXCEPT ![c] = <<>>]
      /\ ventas' = ventas /\ perdidas' = perdidas
  BY DEF Purgar
<1>2. \A i \in DOMAIN lote[c] : Nuevo(lote[c][i].venta).venta = lote[c][i].venta
  BY CopiaMismaVenta, NuevoItem
<1>3. CopiasDeCola
  BY <1>1 DEF CopiasDeCola, ColaInv, TypeOK
<1>4. EscrituraHecha
  BY <1>1, <1>2 DEF EscrituraHecha, SoloHechas
<1>5. VentasCrecen /\ PerdidasHechas
  BY <1>1 DEF VentasCrecen, PerdidasHechas
<1>6. QED
  BY <1>1, <1>3, <1>4, <1>5, SoloHechasPaso

LEMMA ReencolarHechas ==
    ASSUME ColaInv, SoloHechas, NEW c \in Llamadas, Reencolar(c)
    PROVE  /\ SoloHechas'
           /\ \A v \in Ventas : ventas'[v] # "no" <=> ventas[v] # "no"
<1> DEFINE lista == perdidas[c]
<1>1. /\ ventas' = [v \in Ventas |-> IF v \in lista THEN "sin" ELSE ventas[v]]
      /\ cola' = [i \in DOMAIN cola \cup {Id(lista, v) : v \in lista} |->
                     IF i \in DOMAIN cola THEN cola[i]
                     ELSE Nuevo(CHOOSE v \in lista : Id(lista, v) = i)]
      /\ lote' = lote /\ perdidas' = [perdidas EXCEPT ![c] = {}]
  BY DEF Reencolar
<1>2. lista \subseteq Ventas /\ \A v \in lista : ventas[v] # "no"
  BY DEF SoloHechas, ColaInv, TypeOK
<1>3. \A d \in Llamadas : \A v \in perdidas'[d] : v \in perdidas[d]
  BY <1>1 DEF ColaInv, TypeOK
<1> HIDE DEF lista
<1>4. \A v \in Ventas : ventas'[v] # "no" <=> ventas[v] # "no"
  BY <1>1, <1>2
<1>5. ASSUME NEW i \in DOMAIN cola', i \notin DOMAIN cola
      PROVE  ventas'[cola'[i].venta] # "no"
  <2>1. PICK u \in lista : Id(lista, u) = i
    BY <1>1, <1>5
  <2>2. (CHOOSE v \in lista : Id(lista, v) = i) \in lista
    BY <2>1
  <2>3. PICK w \in lista : cola'[i] = Nuevo(w)
    BY <1>1, <1>5, <2>2
  <2>4. cola'[i].venta = w /\ w \in Ventas
    BY <1>2, <2>3, NuevoItem
  <2>5. ventas'[w] # "no"
    BY <1>2, <1>4, <2>4
  <2>6. QED
    BY <2>4, <2>5
<1>6. \A i \in DOMAIN cola' : i \in DOMAIN cola => cola'[i] = cola[i]
  BY <1>1
<1>7. CopiasDeCola
  BY <1>1 DEF CopiasDeCola
<1>8. EscrituraHecha
  BY <1>5, <1>6 DEF EscrituraHecha
<1>9. VentasCrecen /\ PerdidasHechas
  BY <1>3, <1>4 DEF VentasCrecen, PerdidasHechas
<1>10. QED
  BY <1>4, <1>7, <1>8, <1>9, SoloHechasPaso

LEMMA VenderHechas ==
    ASSUME ColaInv, SoloHechas, NEW v \in Ventas, Vender(v)
    PROVE  /\ SoloHechas'
           /\ ventas[v] = "no" /\ \A u \in Ventas : ventas'[u] # "no" <=> ventas[u] # "no" \/ u = v
           /\ \A u \in Ventas : EnCola(u)' <=> EnCola(u) \/ u = v
<1>1. siguiente \notin DOMAIN cola
  BY DEF ColaInv, TypeOK, EsCola
<1>2. /\ DOMAIN cola' = DOMAIN cola \cup {siguiente}
      /\ \A i \in DOMAIN cola : cola'[i] = cola[i]
      /\ cola'[siguiente] = Nuevo(v)
      /\ ventas[v] = "no" /\ ventas' = [ventas EXCEPT ![v] = "sin"]
      /\ lote' = lote /\ perdidas' = perdidas
  BY <1>1 DEF Vender, llamada
<1>3. cola'[siguiente].venta = v
  BY <1>2, NuevoItem
<1>4. \A u \in Ventas : EnCola(u)' <=> EnCola(u) \/ u = v
  BY <1>2, <1>3 DEF EnCola
<1>5. ventas[v] = "no" /\ \A u \in Ventas : ventas'[u] # "no" <=> ventas[u] # "no" \/ u = v
  BY <1>2 DEF ColaInv, TypeOK
<1>6. EscrituraHecha
  BY <1>2, <1>3, <1>5 DEF EscrituraHecha
<1>7. CopiasDeCola
  BY <1>2 DEF CopiasDeCola
<1>8. VentasCrecen /\ PerdidasHechas
  BY <1>2, <1>5 DEF VentasCrecen, PerdidasHechas
<1>9. QED
  BY <1>4, <1>5, <1>6, <1>7, <1>8, SoloHechasPaso

\* The steps that leave the queue and the sales alone.
LEMMA AjenoHechas ==
    ASSUME ColaInv, SoloHechas,
           \/ \E c \in Llamadas :
                  \/ Enviar(c) \/ NadaQueEnviar(c) \/ Comprobar(c) \/ Insertar(c)
                  \/ Releer(c) \/ LeerErrores(c)
           \/ CerrarSesion \/ Desconectar \/ Reconectar \/ Recargar \/ UNCHANGED vars
    PROVE  SoloHechas' /\ UNCHANGED <<cola, ventas, fallos>>
<1>1. UNCHANGED <<cola, ventas, fallos>>
  BY DEF Enviar, NadaQueEnviar, Comprobar, Insertar, Releer, LeerErrores, CerrarSesion,
         Desconectar, Reconectar, Recargar, vars, local
<1>2. ASSUME lote' = lote
      PROVE  CopiasDeCola
  BY <1>2 DEF CopiasDeCola
<1>3. ASSUME perdidas' = perdidas
      PROVE  PerdidasHechas
  BY <1>3 DEF PerdidasHechas
<1>4. CopiasDeCola /\ PerdidasHechas
  <2>1. ASSUME NEW c \in Llamadas, Enviar(c)
        PROVE  CopiasDeCola /\ PerdidasHechas
    <3>1. PICK ids \in Lotes : lote' = [lote EXCEPT ![c] = [i \in ids |-> cola[i]]]
      BY <2>1 DEF Enviar
    <3>2. ids \subseteq DOMAIN cola
      BY DEF Lotes, Pendientes
    <3>3. DOMAIN lote = Llamadas
      BY DEF ColaInv, TypeOK
    <3>4. CopiasDeCola
      BY <3>1, <3>2, <3>3 DEF CopiasDeCola
    <3>5. QED
      BY <1>3, <2>1, <3>4 DEF Enviar
  <2>2. ASSUME NEW c \in Llamadas, LeerErrores(c)
        PROVE  CopiasDeCola /\ PerdidasHechas
    <3>1. CopiasDeCola
      BY <2>2 DEF LeerErrores, CopiasDeCola, ColaInv, TypeOK
    <3>2. QED
      BY <1>3, <2>2, <3>1 DEF LeerErrores
  <2>3. ASSUME NEW c \in Llamadas, Releer(c)
        PROVE  CopiasDeCola /\ PerdidasHechas
    <3>1. PerdidasHechas
      BY <2>3 DEF Releer, PerdidasHechas, ColaInv, TypeOK
    <3>2. QED
      BY <1>2, <2>3, <3>1 DEF Releer
  <2>4. ASSUME NEW c \in Llamadas, NadaQueEnviar(c) \/ Comprobar(c) \/ Insertar(c)
        PROVE  CopiasDeCola /\ PerdidasHechas
    BY <1>2, <1>3, <2>4 DEF NadaQueEnviar, Comprobar, Insertar
  <2>5. CASE CerrarSesion \/ Desconectar \/ Reconectar \/ UNCHANGED vars
    BY <1>2, <1>3, <2>5 DEF CerrarSesion, Desconectar, Reconectar, vars, llamada
  <2>6. CASE Recargar
    <3>1. \A c \in Llamadas : DOMAIN lote'[c] = {} /\ perdidas'[c] = {}
      BY <2>6 DEF Recargar
    <3>2. QED
      BY <3>1 DEF CopiasDeCola, PerdidasHechas
  <2>7. QED
    BY <2>1, <2>2, <2>3, <2>4, <2>5, <2>6
<1>5. VentasCrecen /\ EscrituraHecha
  BY <1>1 DEF VentasCrecen, EscrituraHecha
<1>6. QED
  BY <1>1, <1>4, <1>5, SoloHechasPaso

LEMMA NextSoloHechas == ColaInv /\ SoloHechas /\ [Next]_vars => SoloHechas'
<1> SUFFICES ASSUME ColaInv, SoloHechas, [Next]_vars PROVE SoloHechas'
  OBVIOUS
<1>1. CASE \E v \in Ventas : Vender(v)
  BY <1>1, VenderHechas
<1>2. CASE \E c \in Llamadas : Sigue(c) \/ LeerErrores(c)
  BY <1>2, DevolverHechas, PurgarHechas, ReencolarHechas, AjenoHechas DEF Sigue
<1>3. CASE CerrarSesion \/ Desconectar \/ Reconectar \/ Recargar \/ UNCHANGED vars
  BY <1>3, AjenoHechas
<1>4. QED
  BY <1>1, <1>2, <1>3 DEF Next

-----------------------------------------------------------------------------
(* The simulation. *)

\* A step that makes no sale and records none puts the queue in order.
LEMMA OrdenarSimula ==
    ASSUME ColaInv, SoloHechas, SoloHechas', ColaInv', NoPierde, registradas' = registradas,
           \A v \in Ventas : ventas'[v] # "no" <=> ventas[v] # "no",
           NEW S \in SUBSET Ventas, \A v \in S : ventas[v] # "no",
           fallos' = [v \in Ventas |-> IF v \in S /\ fallos[v] < MaxIntentos
                                       THEN fallos[v] + 1 ELSE fallos[v]]
    PROVE  E!Next
<1>1. {v \in Ventas : ventas'[v] # "no"} = {v \in Ventas : ventas[v] # "no"}
  OBVIOUS
<1>2. \A v \in Ventas : EnCola(v)' => ventas[v] # "no"
  BY DEF EnCola, SoloHechas
<1>3. {v \in Ventas : EnCola(v)'} \in SUBSET {v \in Ventas : ventas[v] # "no"}
  BY <1>2
<1>4. \A v \in {u \in Ventas : EnCola(u)} \ {u \in Ventas : EnCola(u)'} :
          v \in registradas \/ fallos'[v] = MaxIntentos
  BY DEF NoPierde
<1>5. E!Ordenar(S)
  BY <1>1, <1>3, <1>4 DEF E!Ordenar
<1>6. S \in SUBSET {v \in Ventas : ventas[v] # "no"}
  OBVIOUS
<1>7. QED
  BY <1>5, <1>6 DEF E!Next

\* An answer that refuses the sales of ids.
LEMMA ContarSimula ==
    ASSUME ColaInv, SoloHechas, SoloHechas', ColaInv', NoPierde, registradas' = registradas,
           \A v \in Ventas : ventas'[v] # "no" <=> ventas[v] # "no",
           NEW c \in Llamadas, NEW ids \in SUBSET DOMAIN lote[c], Contar(ids, lote[c])
    PROVE  E!Next
<1> DEFINE S == {v \in Ventas : \E i \in ids : lote[c][i].venta = v}
<1>1. \A v \in S : ventas[v] # "no"
  BY DEF SoloHechas
<1>2. fallos' = [v \in Ventas |-> IF v \in S /\ fallos[v] < MaxIntentos
                                  THEN fallos[v] + 1 ELSE fallos[v]]
  BY DEF Contar
<1> HIDE DEF S
<1>3. S \in SUBSET Ventas
  BY DEF S
<1>4. QED
  BY <1>1, <1>2, <1>3, OrdenarSimula

\* The till puts its queue in order on its own.
LEMMA SinContarSimula ==
    ASSUME ColaInv, SoloHechas, SoloHechas', ColaInv', NoPierde, registradas' = registradas,
           \A v \in Ventas : ventas'[v] # "no" <=> ventas[v] # "no", fallos' = fallos
    PROVE  E!Next
<1> DEFINE S == {}
<1>1. fallos' = [v \in Ventas |-> IF v \in S /\ fallos[v] < MaxIntentos
                                  THEN fallos[v] + 1 ELSE fallos[v]]
  BY DEF ColaInv, TypeOK
<1>2. S \in SUBSET Ventas /\ \A v \in S : ventas[v] # "no"
  OBVIOUS
<1> HIDE DEF S
<1>3. QED
  BY <1>1, <1>2, OrdenarSimula

\* The server records a sale that was made, and that it had not recorded.
LEMMA InsertarSimula ==
    ASSUME ColaInv, SoloHechas, NEW c \in Llamadas, Insertar(c)
    PROVE  E!Next \/ UNCHANGED E!vars
<1> DEFINE v == lote[c][Primero(c)].venta
<1>1. UNCHANGED <<ventas, cola, fallos>> /\ pc[c] = "insertar"
  BY DEF Insertar, local
<1>2. Primero(c) \in DOMAIN lote[c]
  BY <1>1, PrimeroEnResto DEF ColaInv, LotesBien, LoteBien
<1>3. v \in Ventas /\ ventas[v] # "no"
  BY <1>2 DEF SoloHechas, ColaInv, TypeOK, EsCola, Item
<1>4. UNCHANGED <<{u \in Ventas : ventas[u] # "no"}, {u \in Ventas : EnCola(u)}, fallos>>
  BY <1>1 DEF EnCola
<1>5. CASE v \notin registradas /\ registradas' = registradas \cup {v}
  <2>1. E!Registrar(v)
    BY <1>3, <1>4, <1>5 DEF E!Registrar
  <2>2. QED
    BY <1>3, <2>1 DEF E!Next
<1>6. CASE registradas' = registradas
  BY <1>4, <1>6 DEF E!vars
<1>7. QED
  BY <1>5, <1>6 DEF Insertar

LEMMA VenderSimula ==
    ASSUME ColaInv, SoloHechas, NEW v \in Ventas, Vender(v)
    PROVE  E!Next
<1>1. /\ ventas[v] = "no" /\ \A u \in Ventas : ventas'[u] # "no" <=> ventas[u] # "no" \/ u = v
      /\ \A u \in Ventas : EnCola(u)' <=> EnCola(u) \/ u = v
      /\ UNCHANGED <<registradas, fallos>>
  BY VenderHechas DEF Vender, servidor
<1>2. {u \in Ventas : ventas'[u] # "no"} = {u \in Ventas : ventas[u] # "no"} \cup {v}
  BY <1>1
<1>3. {u \in Ventas : EnCola(u)'} = {u \in Ventas : EnCola(u)} \cup {v}
  BY <1>1
<1>4. v \notin {u \in Ventas : ventas[u] # "no"}
  BY <1>1
<1>5. E!Vender(v)
  BY <1>1, <1>2, <1>3, <1>4 DEF E!Vender
<1>6. QED
  BY <1>5 DEF E!Next

LEMMA NextSimula ==
    ASSUME ColaInv, SoloHechas, SoloSePierdeTrasRechazos, [Next]_vars
    PROVE  [E!Next]_E!vars
<1>1. ColaInv' /\ SoloHechas'
  BY NextColaInv, NextSoloHechas
<1>2. CASE \E v \in Ventas : Vender(v)
  BY <1>2, VenderSimula
<1>3. ASSUME NEW c \in Llamadas, Sigue(c) \/ LeerErrores(c)
      PROVE  [E!Next]_E!vars
  <2>1. CASE Responder(c)
    <3>1. NoPierde /\ registradas' = registradas
      BY <1>1, <2>1, ResponderNoPierde DEF Responder, servidor
    <3>2. \E ids \in SUBSET DOMAIN lote[c] : Contar(ids, lote[c])
      BY <2>1 DEF Responder, Elegidos
    <3>3. QED
      BY <1>1, <2>1, <3>1, <3>2, DevolverHechas, ContarSimula
  <2>2. CASE ErrorHttp(c)
    <3>1. NoPierde /\ registradas' = registradas /\ Contar(DOMAIN lote[c], lote[c])
      BY <1>1, <2>2, ErrorHttpNoPierde DEF ErrorHttp, servidor
    <3>2. QED
      BY <1>1, <2>2, <3>1, DevolverHechas, ContarSimula
  <2>3. CASE Caer(c)
    <3>1. NoPierde /\ registradas' = registradas /\ fallos' = fallos
      BY <1>1, <2>3, CaerNoPierde DEF Caer, servidor
    <3>2. QED
      BY <1>1, <2>3, <3>1, DevolverHechas, SinContarSimula
  <2>4. CASE Purgar(c)
    <3>1. NoPierde /\ registradas' = registradas /\ fallos' = fallos
      BY <1>1, <2>4, PurgarNoPierde DEF Purgar, servidor
    <3>2. \A v \in Ventas : ventas'[v] # "no" <=> ventas[v] # "no"
      BY <2>4, PurgarHechas
    <3>3. QED
      BY <1>1, <3>1, <3>2, SinContarSimula
  <2>5. CASE Reencolar(c)
    <3>1. NoPierde /\ registradas' = registradas /\ fallos' = fallos
      BY <1>1, <2>5, ReencolarNoPierde DEF Reencolar, servidor
    <3>2. QED
      BY <1>1, <2>5, <3>1, ReencolarHechas, SinContarSimula
  <2>6. CASE Insertar(c)
    BY <2>6, InsertarSimula
  <2>7. CASE Enviar(c) \/ NadaQueEnviar(c) \/ Comprobar(c) \/ Releer(c) \/ LeerErrores(c)
    BY <2>7 DEF Enviar, NadaQueEnviar, Comprobar, Releer, LeerErrores, local, servidor,
       E!vars, EnCola
  <2>8. QED
    BY <1>3, <2>1, <2>2, <2>3, <2>4, <2>5, <2>6, <2>7 DEF Sigue
<1>4. CASE CerrarSesion \/ Desconectar \/ Reconectar \/ Recargar \/ UNCHANGED vars
  BY <1>4 DEF CerrarSesion, Desconectar, Reconectar, Recargar, vars, local, servidor,
     E!vars, EnCola
<1>5. QED
  BY <1>2, <1>3, <1>4 DEF Next

\* The till keeps its promise: with any number of sales and of overlapping
\* calls, whatever the network does and whenever the page reloads, what it does
\* with its queue is store and forward.
THEOREM ImplementaEntrega == Spec => EntregaSpec
<1>1. Init => SoloHechas
  BY DEF Init, SoloHechas
<1>2. Init => E!Init
  <2>1. Init => {v \in Ventas : EnCola(v)} = {}
    BY DEF Init, EnCola
  <2>2. Init => {v \in Ventas : ventas[v] # "no"} \subseteq Ventas
    OBVIOUS
  <2>3. QED
    BY <2>1, <2>2 DEF Init, E!Init
<1>3. Spec => []SoloHechas
  BY <1>1, ColaSiempre, NextSoloHechas, PTL DEF Spec
<1>4. QED
  BY <1>2, <1>3, ColaSiempre, NoPierdeSinRechazos, NextSimula, PTL
     DEF Spec, EntregaSpec, E!Spec
=============================================================================
