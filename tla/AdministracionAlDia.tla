------------------------ MODULE AdministracionAlDia ------------------------
(***************************************************************************)
(* A page of the back office shows what the backend keeps, whenever it has *)
(* nothing on its way and no reason for doubt: for every number of         *)
(* records, requests and clicks, on each of the eleven pages.              *)
(*                                                                         *)
(* At rest that is plain; the invariant has to say, with anything on its   *)
(* way and in the order it will come, why it will be so in the end.  For   *)
(* each piece of data of a page one of three things holds: a request that  *)
(* brings it is still to be taken; a change that was accepted will ask for *)
(* it again when its answer arrives; or the last answer that tells of it,  *)
(* or the page itself if none does, already has what the backend keeps.    *)
(* AdministracionProofs ends with the first part of this: it proves of     *)
(* such a channel, once for all the pages, that clicks, the backend and    *)
(* answers keep it, and then of the six pages that show a table            *)
(* (categories, promotions, suppliers, users, products and inventory) that *)
(* theirs are kept. Here are the other five, which name their channels and *)
(* add the order in which their requests can be on their way where their   *)
(* handlers depend on it, and then all of them.                            *)
(***************************************************************************)
EXTENDS AdministracionProofs

-----------------------------------------------------------------------------
(* The price lists: the rows that match the filter, and the detail of one  *)
(* of them.                                                                *)

LM == {"crear", "actualizar", "eliminar", "masivo"}
LC == {"crear", "actualizar", "eliminar"}
LI == {"agregar", "quitar", "descuento"}
LD == {"obtener", "masivo"}
LCanal == Canal({"listar"}, LM, {"listar"}, {}, <<"campo", "listas">>)

LEsFila(r) == r = [nombre |-> r.nombre, items |-> r.items]
LFilas(s) == \A i \in DOMAIN s : LEsFila(s[i])

LBusca(v) == v.filtro \in {Listas!Todas, Listas!Buscado}
LEncargos(v) == {"", "guardar", "masivo"} \X {v.filtro}
LTras(v) == IF v.filtro = Listas!Todas THEN "" ELSE "filtrada"
LMuestra(v, s) == v.listas = Listas!Coinciden(s, v.filtro)

\* What a detail says is so, or it will be asked for again, or another one comes after n.
LBuena(d, s) == d = Listas!Detalle(s, d.id)
LRenueva(x, a, b) ==
    \/ \E k \in DOMAIN a : a[k].op = "obtener" /\ a[k].id = x
    \/ \E k \in DOMAIN b : b[k].ok = TRUE /\ b[k].q.op \in LI /\ b[k].q.id = x
LFuente(m) == m.ok = TRUE /\ m.q.op \in LD
LSostenida(d, s, a, b, n) ==
    /\ d.id \in DOMAIN s
    /\ LBuena(d, s) \/ LRenueva(d.id, a, b) \/ \E j \in DOMAIN b : j > n /\ LFuente(b[j])

LTabla(v, s, a, b) ==
    /\ Fresca(a, b, LCanal, LMuestra(v, s), {Listas!Coinciden(s, v.filtro)})
    /\ Encargada(a, {"listar"}, LEncargos(v))
    /\ \A k \in DOMAIN a : a[k].op \in LM => a[k].tras = LTras(v)
    /\ \A k \in DOMAIN b : b[k].q.op \in LM => b[k].q.tras = LTras(v)
    /\ \A k \in DOMAIN b : b[k].q.op = "listar" => b[k].ok = TRUE
LDetalle(v, s, a, b) ==
    /\ v.detalle # Nada => LSostenida(v.detalle, s, a, b, 0)
    /\ \A k \in DOMAIN b : LFuente(b[k]) => LSostenida(b[k].datos, s, a, b, k)
    /\ Hay(a, LC) => v.detalle = Nada
    /\ Orden(a, b, LD, LC, FALSE)
LCampos(v) == {"listas", "filtro", "detalle"} \subseteq DOMAIN v
LTiene(v) == LCampos(v) /\ LBusca(v)
LFiel(v, s, a, b) ==
    /\ Vivas(a, b) /\ LTiene(v) /\ LTabla(v, s, a, b) /\ LDetalle(v, s, a, b)
    /\ \A k \in DOMAIN b : b[k].ok \in BOOLEAN
ListasFiel == LFilas(srv) /\ LCampos(vista) /\ (dudosa # TRUE => LFiel(vista, srv, ida, vuelta))

LEMMA LHabla ==
    ASSUME NEW m
    PROVE  /\ LCanal.pide = {"listar"} /\ LCanal.relee = LM
           /\ Habla(m, LCanal) <=> m.q.op = "listar"
           /\ Dicho(m, LCanal.dato) = m.datos["listas"]
BY DEF LCanal, Canal, Habla, Dicho

LSalida(s, q, r) ==
    /\ LFilas(r.srv) /\ r.ok \in BOOLEAN
    /\ r.ok # TRUE => r.srv = s
    /\ q.op = "listar" => r.ok = TRUE /\ r.srv = s /\ r.datos["listas"] = Listas!Coinciden(s, q.datos)
    /\ q.op = "obtener" => r.srv = s /\ (r.ok # TRUE => q.id \notin DOMAIN s)
    /\ q.op \in LD /\ r.ok = TRUE => q.id \in DOMAIN r.srv /\ r.datos = Listas!Detalle(r.srv, q.id)
    /\ q.op \in LI \cup LD =>
           /\ DOMAIN r.srv = DOMAIN s
           /\ \A x \in DOMAIN s : r.srv[x].nombre = s[x].nombre /\ (x # q.id => r.srv[x] = s[x])

LEMMA LFijar ==
    ASSUME NEW s, LFilas(s), NEW n, NEW y, NEW t, t = [s EXCEPT ![n].items = y]
    PROVE  /\ LFilas(t) /\ DOMAIN t = DOMAIN s
           /\ \A x \in DOMAIN s : t[x].nombre = s[x].nombre /\ (x # n => t[x] = s[x])
<1>1. DOMAIN t = DOMAIN s /\ \A x \in DOMAIN s : t[x] = IF x = n THEN [s[x] EXCEPT !.items = y] ELSE s[x]
  OBVIOUS
<1>2. ASSUME NEW x \in DOMAIN s PROVE LEsFila(t[x]) /\ t[x].nombre = s[x].nombre
  <2> DEFINE z == s[x]
  <2>1. LEsFila(z) /\ t[x] = IF x = n THEN [z EXCEPT !.items = y] ELSE z
    BY <1>1 DEF LFilas
  <2> HIDE DEF z
  <2>2. LEsFila(t[x]) /\ t[x].nombre = z.nombre
    BY <2>1 DEF LEsFila
  <2> QED BY <2>2 DEF z
<1> QED BY <1>1, <1>2 DEF LFilas

LEMMA LBanco ==
    ASSUME NEW s, LFilas(s), NEW q, q.op \in LO
    PROVE  LSalida(s, q, Listas!Servidor(s, q))
<1> DEFINE r == Listas!Servidor(s, q)
           x == [nombre |-> q.datos, items |-> <<>>]
<1> USE DEF Listas!Servidor, Listas!Acepta, Listas!Rechaza
<1>1. ASSUME r.srv = s, r.ok # TRUE, r.ok \in BOOLEAN, q.op # "listar", q.op = "obtener" => q.id \notin DOMAIN s
      PROVE  LSalida(s, q, r)
  <2> HIDE DEF r
  <2> QED BY <1>1 DEF LSalida
<1>2. CASE q.op = "listar"
  BY <1>2 DEF LSalida, LI, LD
<1>3. CASE q.op \notin {"listar", "crear"} /\ q.id \notin DOMAIN s
  <2>1. r = [srv |-> s, ok |-> FALSE, datos |-> Nada]
    BY <1>3
  <2> HIDE DEF r
  <2> QED BY <1>1, <1>3, <2>1
<1>4. CASE q.op = "crear"
  <2>1. LEsFila(x)
    BY DEF LEsFila
  <2>2. \/ r = [srv |-> s, ok |-> FALSE, datos |-> Nada]
        \/ \E n : r = [srv |-> Listas!Poner(s, n, x), ok |-> TRUE, datos |-> Nada]
    BY <1>4
  <2> HIDE DEF x, r
  <2>3. ASSUME NEW n, r = [srv |-> Listas!Poner(s, n, x), ok |-> TRUE, datos |-> Nada] PROVE LSalida(s, q, r)
    <3>1. LFilas(Listas!Poner(s, n, x))
      BY <2>1 DEF Listas!Poner, LFilas
    <3> QED BY <1>4, <2>3, <3>1 DEF LSalida, LD, LI
  <2> QED BY <1>1, <1>4, <2>2, <2>3 DEF r
<1>5. CASE q.op = "actualizar" /\ q.id \in DOMAIN s
  <2>1. \/ r = [srv |-> s, ok |-> FALSE, datos |-> Nada]
        \/ r = [srv |-> [s EXCEPT ![q.id].nombre = q.datos], ok |-> TRUE, datos |-> Nada]
    BY <1>5
  <2> HIDE DEF r
  <2>2. ASSUME r = [srv |-> [s EXCEPT ![q.id].nombre = q.datos], ok |-> TRUE, datos |-> Nada] PROVE LSalida(s, q, r)
    <3> DEFINE t == [s EXCEPT ![q.id].nombre = q.datos]
    <3>1. LFilas(t)
      BY DEF LFilas, LEsFila
    <3>2. r.srv = t /\ r.ok = TRUE
      BY <2>2
    <3> HIDE DEF t
    <3> QED BY <1>5, <3>1, <3>2 DEF LSalida, LD, LI
  <2> QED BY <1>1, <1>5, <2>1, <2>2 DEF r
<1>6. CASE q.op = "eliminar" /\ q.id \in DOMAIN s
  <2> DEFINE t == [i \in DOMAIN s \ {q.id} |-> s[i]]
  <2>1. r = [srv |-> t, ok |-> TRUE, datos |-> Nada]
    BY <1>6
  <2>2. LFilas(t)
    BY DEF LFilas
  <2> HIDE DEF r, t
  <2>3. LSalida(s, q, r)
    BY <1>6, <2>1, <2>2 DEF LSalida, LD, LI
  <2> QED BY <2>3 DEF r
<1>7. CASE q.op = "obtener" /\ q.id \in DOMAIN s
  <2>1. r = [srv |-> s, ok |-> TRUE, datos |-> Listas!Detalle(s, q.id)]
    BY <1>7
  <2> HIDE DEF r
  <2>2. LSalida(s, q, r)
    BY <1>7, <2>1 DEF LSalida, LD, LI
  <2> QED BY <2>2 DEF r
<1>8. CASE q.op \in LI \cup {"masivo"} /\ q.id \in DOMAIN s
  <2>1. \E y : /\ r.srv = [s EXCEPT ![q.id].items = y] /\ r.ok = TRUE
               /\ q.op = "masivo" => r.datos = Listas!Detalle(r.srv, q.id)
    BY <1>8 DEF LI
  <2> HIDE DEF r
  <2>2. PICK y : /\ r.srv = [s EXCEPT ![q.id].items = y] /\ r.ok = TRUE
                 /\ q.op = "masivo" => r.datos = Listas!Detalle(r.srv, q.id)
    BY <2>1
  <2>3. /\ LFilas(r.srv) /\ DOMAIN r.srv = DOMAIN s
        /\ \A z \in DOMAIN s : r.srv[z].nombre = s[z].nombre /\ (z # q.id => r.srv[z] = s[z])
    BY <2>2, LFijar
  <2>4. q.op \notin {"listar", "obtener"} /\ (q.op \in LD => q.op = "masivo") /\ r.ok \in BOOLEAN
    BY <1>8, <2>2 DEF LD, LI
  <2>5. LSalida(s, q, r)
    BY <1>8, <2>2, <2>3, <2>4 DEF LSalida
  <2> QED BY <2>5 DEF r
<1> QED BY <1>2, <1>3, <1>4, <1>5, <1>6, <1>7, <1>8 DEF LO, LI

-----------------------------------------------------------------------------
LEMMA LRenuevaMas ==
    ASSUME NEW a, Sucesion(a), NEW p, Sucesion(p), NEW b, NEW x, LRenueva(x, a, b)
    PROVE  LRenueva(x, a \o p, b)
<1> DEFINE u == a \o p
<1>1. SonJuntos(u, a, p)
  BY JuntosDeTodo
<1> HIDE DEF u
<1>2. LRenueva(x, u, b)
  BY <1>1 DEF LRenueva, SonJuntos
<1> QED BY <1>2 DEF u

\* A change of the lists is asked for from the table, with no detail on its way.
LSinDetalle(w, a, b, q) ==
    q.op \in LC => /\ w.detalle = Nada
                   /\ \A k \in DOMAIN a : a[k].op \notin LD
                   /\ \A k \in DOMAIN b : b[k].q.op \notin LD

LEMMA LDetalleToca ==
    ASSUME NEW v, NEW s, NEW a, NEW b, LDetalle(v, s, a, b), NEW w, w.detalle \in {v.detalle, Nada}
    PROVE  LDetalle(w, s, a, b)
BY DEF LDetalle

LEMMA LDetallePide ==
    ASSUME NEW w, NEW s, NEW a, NEW b, Vivas(a, b), LDetalle(w, s, a, b),
           NEW q, q.viva = TRUE, LSinDetalle(w, a, b, q)
    PROVE  LDetalle(w, s, a \o <<q>>, b)
<1> DEFINE p == <<q>>
           u == a \o p
<1>1. Sucesion(a) /\ Sucesion(p) /\ Salen(u, a, {q})
  BY PideUna, SalenDe DEF Vivas
<1>2. Orden(u, b, LD, LC, FALSE)
  <2>1. /\ \A k \in DOMAIN a : ~Antes(a[k], q, LD, LC, FALSE)
        /\ \A k \in DOMAIN b : ~Antes(b[k].q, q, LD, LC, FALSE)
    BY DEF Antes, LSinDetalle
  <2>2. Orden(a, b, LD, LC, FALSE)
    BY DEF LDetalle
  <2> QED BY <2>1, <2>2, OrdenPide
<1> HIDE DEF p
<1>3. \A x : LRenueva(x, a, b) => LRenueva(x, u, b)
  BY <1>1, LRenuevaMas
<1> HIDE DEF u
<1>4. Hay(u, LC) => w.detalle = Nada
  <2>1. Hay(u, LC) => Hay(a, LC) \/ q.op \in LC
    BY <1>1 DEF Hay, Salen
  <2> QED BY <2>1 DEF LDetalle, LSinDetalle
<1>5. \A d, n : LSostenida(d, s, a, b, n) => LSostenida(d, s, u, b, n)
  BY <1>3 DEF LSostenida
<1>6. LDetalle(w, s, u, b)
  BY <1>2, <1>4, <1>5 DEF LDetalle
<1> QED BY <1>6 DEF u, p

LEMMA LDetalleToma ==
    ASSUME NEW v, NEW s, NEW a, NEW b, Vivas(a, b), LDetalle(v, s, a, b), 1 \in DOMAIN a,
           NEW r, LSalida(s, a[1], r), a[1].op \in LO, NEW m, m = [q |-> a[1], ok |-> r.ok, datos |-> r.datos]
    PROVE  LDetalle(v, r.srv, Sin(a, 1), Append(b, m))
<1> DEFINE a1 == Sin(a, 1)
           b1 == Append(b, m)
           n1 == Len(b) + 1
           q == a[1]
           s1 == r.srv
<1>1. m.q = q /\ m.ok = r.ok /\ m.datos = r.datos
  OBVIOUS
<1>2. Sucesion(a) /\ Sucesion(b)
  BY DEF Vivas
<1>3. /\ Len(b) \in Nat /\ DOMAIN b = 1 .. Len(b) /\ DOMAIN b1 = 1 .. n1
      /\ \A k \in 1 .. Len(b) : b1[k] = b[k]
      /\ b1[n1] = m
  BY <1>2, UnoMas
<1>4. /\ Len(a) \in Nat \ {0} /\ DOMAIN a = 1 .. Len(a) /\ DOMAIN a1 = 1 .. Len(a) - 1
      /\ \A k \in 1 .. Len(a) - 1 : a1[k] = a[k + 1]
  BY <1>2, PrimeroSale
<1>5. Orden(a, b, LD, LC, FALSE) /\ Orden(a1, b1, LD, LC, FALSE)
  <2>1. Orden(a, b, LD, LC, FALSE)
    BY DEF LDetalle
  <2> HIDE DEF q
  <2> QED BY <2>1, <1>1, OrdenToma DEF q
<1> HIDE DEF a1, b1
<1>6. n1 \in DOMAIN b1 /\ \A k \in DOMAIN b1 : (k \in DOMAIN b /\ b1[k] = b[k]) \/ (k = n1 /\ b1[k] = m)
  BY <1>3
<1>7. Hay(a1, LC) => v.detalle = Nada
  <2>1. \A k \in DOMAIN a1 : k + 1 \in DOMAIN a /\ a1[k] = a[k + 1]
    BY <1>4
  <2> QED BY <2>1 DEF Hay, LDetalle
<1>8. CASE q.op \in LC
  <2>1. v.detalle = Nada
    BY <1>8 DEF LDetalle, Hay
  <2>2. \A k \in DOMAIN b1 : b1[k].q.op \notin LD
    <3>1. \A k \in DOMAIN b : b[k].q.op \notin LD
      BY <1>5, <1>8 DEF Orden, Antes
    <3>2. m.q.op \notin LD
      BY <1>1, <1>8 DEF LC, LD
    <3> QED BY <1>6, <3>1, <3>2
  <2> QED BY <1>5, <2>1, <2>2 DEF LDetalle, LFuente, a1, b1
<1>9. CASE q.op \notin LC
  <2>1. /\ DOMAIN s1 = DOMAIN s
        /\ \A x \in DOMAIN s : s1[x] = s[x] \/ (r.ok = TRUE /\ q.id = x /\ q.op \in LI) \/ LFuente(m)
        /\ LFuente(m) => q.id \in DOMAIN s1 /\ m.datos = Listas!Detalle(s1, q.id)
        /\ q.op = "obtener" /\ ~LFuente(m) => q.id \notin DOMAIN s
    <3>1. q.op \in {"listar"} \cup LI \cup LD
      BY <1>9 DEF LO, LC, LI, LD
    <3>2. LSalida(s, q, r)
      OBVIOUS
    <3> HIDE DEF q
    <3>3. /\ r.ok \in BOOLEAN
          /\ r.ok # TRUE => s1 = s
          /\ q.op = "listar" => s1 = s
          /\ q.op = "obtener" => s1 = s /\ (r.ok # TRUE => q.id \notin DOMAIN s)
          /\ q.op \in LD /\ r.ok = TRUE => q.id \in DOMAIN s1 /\ r.datos = Listas!Detalle(s1, q.id)
          /\ q.op \in LI \cup LD => /\ DOMAIN s1 = DOMAIN s
                                    /\ \A x \in DOMAIN s : x # q.id => s1[x] = s[x]
      BY <3>2 DEF LSalida
    <3> HIDE DEF s1
    <3>4. LFuente(m) <=> r.ok = TRUE /\ q.op \in LD
      BY <1>1, <3>3 DEF LFuente
    <3>5. DOMAIN s1 = DOMAIN s
      BY <3>1, <3>3
    <3>6. ASSUME NEW x \in DOMAIN s PROVE s1[x] = s[x] \/ (r.ok = TRUE /\ q.id = x /\ q.op \in LI) \/ LFuente(m)
      <4>1. CASE x # q.id
        BY <3>1, <3>3, <4>1
      <4>2. CASE x = q.id
        BY <3>1, <3>3, <3>4, <4>2
      <4> QED BY <4>1, <4>2
    <3>7. LFuente(m) => q.id \in DOMAIN s1 /\ m.datos = Listas!Detalle(s1, q.id)
      BY <1>1, <3>3, <3>4
    <3>8. q.op = "obtener" /\ ~LFuente(m) => q.id \notin DOMAIN s
      BY <3>3, <3>4 DEF LD
    <3> QED BY <3>5, <3>6, <3>7, <3>8
  <2>2. ASSUME NEW d, NEW n \in 0 .. Len(b), LSostenida(d, s, a, b, n) PROVE LSostenida(d, s1, a1, b1, n)
    <3> HIDE DEF s1, q
    <3>1. CASE LFuente(m)
      <4>1. n1 \in DOMAIN b1 /\ n1 > n /\ LFuente(b1[n1])
        BY <1>3, <3>1
      <4> QED BY <2>1, <2>2, <4>1 DEF LSostenida
    <3>2. CASE ~LFuente(m)
      <4>1. CASE LBuena(d, s)
        <5>1. CASE s1[d.id] = s[d.id]
          BY <2>1, <2>2, <4>1, <5>1 DEF LSostenida, LBuena, Listas!Detalle
        <5>2. CASE r.ok = TRUE /\ q.id = d.id /\ q.op \in LI
          <6>1. LRenueva(d.id, a1, b1)
            BY <1>1, <1>3, <1>6, <5>2 DEF LRenueva, q
          <6> QED BY <2>1, <2>2, <6>1 DEF LSostenida
        <5> QED BY <2>1, <2>2, <3>2, <5>1, <5>2 DEF LSostenida
      <4>2. CASE LRenueva(d.id, a, b)
        <5>1. ASSUME NEW k \in DOMAIN a, a[k].op = "obtener", a[k].id = d.id PROVE LRenueva(d.id, a1, b1)
          <6>1. k # 1
            BY <2>1, <2>2, <3>2, <5>1 DEF LSostenida, q
          <6>2. k - 1 \in DOMAIN a1 /\ a1[k - 1] = a[k]
            BY <1>4, <6>1
          <6> QED BY <5>1, <6>2 DEF LRenueva
        <5>2. ASSUME NEW k \in DOMAIN b, b[k].ok = TRUE, b[k].q.op \in LI, b[k].q.id = d.id PROVE LRenueva(d.id, a1, b1)
          <6>1. k \in DOMAIN b1 /\ b1[k] = b[k]
            BY <1>3
          <6> QED BY <5>2, <6>1 DEF LRenueva
        <5>3. LRenueva(d.id, a1, b1)
          BY <4>2, <5>1, <5>2 DEF LRenueva
        <5> QED BY <2>1, <2>2, <5>3 DEF LSostenida
      <4>3. ASSUME NEW j \in DOMAIN b, j > n, LFuente(b[j]) PROVE LSostenida(d, s1, a1, b1, n)
        <5>1. j \in DOMAIN b1 /\ b1[j] = b[j]
          BY <1>3
        <5> QED BY <2>1, <2>2, <4>3, <5>1 DEF LSostenida
      <4> QED BY <2>2, <4>1, <4>2, <4>3 DEF LSostenida
    <3> QED BY <3>1, <3>2
  <2>3. v.detalle # Nada => LSostenida(v.detalle, s1, a1, b1, 0)
    <3>1. 0 \in 0 .. Len(b)
      BY <1>3
    <3> QED BY <2>2, <3>1 DEF LDetalle
  <2>4. ASSUME NEW k \in DOMAIN b1, LFuente(b1[k]) PROVE LSostenida(b1[k].datos, s1, a1, b1, k)
    <3>1. CASE k \in DOMAIN b /\ b1[k] = b[k]
      <4>1. k \in 0 .. Len(b)
        BY <1>3, <3>1
      <4> QED BY <2>2, <2>4, <3>1, <4>1 DEF LDetalle
    <3>2. CASE b1[k] = m
      <4>1. m.datos.id = q.id
        BY <2>1, <2>4, <3>2 DEF Listas!Detalle
      <4> QED BY <2>1, <2>4, <3>2, <4>1 DEF LSostenida, LBuena
    <3> QED BY <1>6, <3>1, <3>2
  <2> QED BY <1>5, <1>7, <2>3, <2>4 DEF LDetalle, a1, b1
<1> QED BY <1>8, <1>9

LEMMA LDetalleMonta ==
    ASSUME NEW v, NEW s, v.detalle = Nada, NEW q, q.op = "listar"
    PROVE  LDetalle(v, s, <<q>>, <<>>)
<1>1. DOMAIN <<>> = {}
  BY SucesionUna
<1>2. Orden(<<q>>, <<>>, LD, LC, FALSE)
  BY OrdenUna
<1> QED BY <1>1, <1>2 DEF LDetalle

LEMMA LDetalleLlega ==
    ASSUME NEW v, NEW s, NEW a, NEW b, Vivas(a, b), LDetalle(v, s, a, b), 1 \in DOMAIN b,
           NEW w, w.detalle = IF LFuente(b[1]) THEN b[1].datos ELSE v.detalle, NEW p,
           p = <<>> \/ \E q : p = <<q>> /\ q.op \in {"listar", "obtener"} /\ q.viva = TRUE,
           b[1].ok = TRUE /\ b[1].q.op \in LI => \E k \in DOMAIN p : p[k].op = "obtener" /\ p[k].id = b[1].q.id
    PROVE  LDetalle(w, s, a \o p, Sin(b, 1))
<1> DEFINE m == b[1]
           b1 == Sin(b, 1)
           u == a \o p
<1>1. /\ Sucesion(a) /\ Sucesion(b) /\ Sucesion(p)
      /\ \A k \in DOMAIN p : p[k].op \in {"listar", "obtener"} /\ p[k].viva = TRUE
  <2>1. ASSUME p = <<>> PROVE Sucesion(p) /\ DOMAIN p = {}
    BY <2>1, SucesionUna
  <2>2. ASSUME NEW q, p = <<q>> PROVE Sucesion(p) /\ DOMAIN p = {1} /\ p[1] = q
    BY <2>2, SucesionUna
  <2> QED BY <2>1, <2>2 DEF Vivas
<1>2. SonJuntos(u, a, p)
  BY <1>1, JuntosDeTodo
<1>3. /\ Len(b) \in Nat \ {0} /\ DOMAIN b = 1 .. Len(b) /\ DOMAIN b1 = 1 .. Len(b) - 1
      /\ \A k \in 1 .. Len(b) - 1 : b1[k] = b[k + 1]
  BY <1>1, PrimeroSale
<1>4. /\ Orden(a, b, LD, LC, FALSE) /\ Orden(a, b1, LD, LC, FALSE)
      /\ \A k \in DOMAIN a : ~Antes(m.q, a[k], LD, LC, FALSE)
  <2>1. Orden(a, b, LD, LC, FALSE)
    BY DEF LDetalle
  <2> QED BY <2>1, OrdenLlega
<1>5. Orden(u, b1, LD, LC, FALSE)
  <2>1. CASE p = <<>>
    BY <1>1, <1>4, <2>1, JuntoNada
  <2>2. ASSUME NEW q, p = <<q>>, q.op \in {"listar", "obtener"} PROVE Orden(u, b1, LD, LC, FALSE)
    <3>1. \A x : ~Antes(x, q, LD, LC, FALSE)
      BY <2>2 DEF Antes, LC
    <3>2. Sucesion(b1)
      BY <1>1, PrimeroSale
    <3> HIDE DEF b1, m, u
    <3>3. Vivas(a, b1)
      BY <1>1, <1>3, <3>2 DEF Vivas
    <3>4. Orden(a \o <<q>>, b1, LD, LC, FALSE)
      BY <1>4, <3>1, <3>3, OrdenPide
    <3> QED BY <2>2, <3>4 DEF u
  <2> QED BY <2>1, <2>2
<1> HIDE DEF m, b1, u
<1>6. Hay(u, LC) => w.detalle = Nada
  <2> SUFFICES ASSUME NEW j \in DOMAIN u, u[j].op \in LC PROVE w.detalle = Nada
    BY DEF Hay
  <2>1. j \in DOMAIN a /\ a[j].op \in LC
    BY <1>1, <1>2 DEF SonJuntos, LC
  <2>2. v.detalle = Nada
    BY <2>1 DEF LDetalle, Hay
  <2>3. m.q.op \notin LD
    BY <1>4, <2>1 DEF Antes
  <2> QED BY <2>2, <2>3 DEF LFuente, m
<1>7. ASSUME NEW k \in DOMAIN b, k # 1 PROVE k - 1 \in DOMAIN b1 /\ b1[k - 1] = b[k]
  BY <1>3, <1>7
<1>8. ASSUME NEW x, LRenueva(x, a, b) PROVE LRenueva(x, u, b1)
  <2>1. ASSUME NEW k \in DOMAIN a, a[k].op = "obtener", a[k].id = x PROVE LRenueva(x, u, b1)
    BY <1>2, <2>1 DEF LRenueva, SonJuntos
  <2>2. ASSUME NEW k \in DOMAIN b, b[k].ok = TRUE, b[k].q.op \in LI, b[k].q.id = x PROVE LRenueva(x, u, b1)
    <3>1. CASE k = 1
      <4>1. PICK j \in DOMAIN p : p[j].op = "obtener" /\ p[j].id = x
        BY <2>2, <3>1
      <4>2. PICK i \in DOMAIN u : u[i] = p[j]
        BY <1>2, <4>1 DEF SonJuntos
      <4> QED BY <4>1, <4>2 DEF LRenueva
    <3>2. CASE k # 1
      BY <1>7, <2>2, <3>2 DEF LRenueva
    <3> QED BY <3>1, <3>2
  <2> QED BY <1>8, <2>1, <2>2 DEF LRenueva
<1>9. ASSUME NEW d, NEW n \in Nat, NEW n1 \in Nat, LSostenida(d, s, a, b, n),
             (n = n1 + 1) \/ (n = 0 /\ n1 = 0 /\ ~LFuente(m))
      PROVE  LSostenida(d, s, u, b1, n1)
  <2>1. ASSUME NEW j \in DOMAIN b, j > n, LFuente(b[j]) PROVE \E k \in DOMAIN b1 : k > n1 /\ LFuente(b1[k])
    <3>1. j # 1 /\ j - 1 > n1
      BY <1>3, <1>9, <2>1 DEF m
    <3> QED BY <1>7, <2>1, <3>1
  <2> QED BY <1>8, <1>9, <2>1 DEF LSostenida
<1>10. w.detalle # Nada => LSostenida(w.detalle, s, u, b1, 0)
  <2>1. CASE LFuente(m)
    <3>1. LSostenida(m.datos, s, a, b, 1)
      BY <2>1 DEF LDetalle, m
    <3> QED BY <1>9, <2>1, <3>1 DEF m
  <2>2. CASE ~LFuente(m)
    BY <1>9, <2>2 DEF LDetalle, m
  <2> QED BY <2>1, <2>2
<1>11. ASSUME NEW k \in DOMAIN b1, LFuente(b1[k]) PROVE LSostenida(b1[k].datos, s, u, b1, k)
  <2>1. k + 1 \in DOMAIN b /\ b1[k] = b[k + 1] /\ k \in Nat /\ k + 1 \in Nat
    BY <1>3
  <2>2. LSostenida(b1[k].datos, s, a, b, k + 1)
    BY <1>11, <2>1 DEF LDetalle
  <2> QED BY <1>9, <2>1, <2>2
<1>12. LDetalle(w, s, u, b1)
  BY <1>5, <1>6, <1>10, <1>11 DEF LDetalle
<1> QED BY <1>12 DEF u, b1

-----------------------------------------------------------------------------
LEMMA LIgual ==
    ASSUME NEW s, NEW t, DOMAIN t = DOMAIN s, \A x \in DOMAIN s : t[x].nombre = s[x].nombre, NEW f
    PROVE  Listas!Coinciden(t, f) = Listas!Coinciden(s, f)
<1> DEFINE K(x) == {j \in DOMAIN x : f \in {Listas!Todas, x[j].nombre}}
           c(x) == [i \in K(x) |-> x[i].nombre]
<1>1. K(t) = K(s) /\ K(s) \subseteq DOMAIN s
  OBVIOUS
<1>2. \A i \in K(s) : t[i].nombre = s[i].nombre
  BY <1>1
<1>3. c(t) = c(s)
  <2> HIDE DEF K
  <2> QED BY <1>1, <1>2
<1> QED BY <1>3 DEF Listas!Coinciden

LEMMA LTablaToca ==
    ASSUME NEW v, NEW s, NEW a, NEW b, LTabla(v, s, a, b), NEW w, w.listas = v.listas, w.filtro = v.filtro
    PROVE  LTabla(w, s, a, b)
BY DEF LTabla, LTras, LEncargos, LMuestra

LEMMA LTablaPide ==
    ASSUME NEW v, NEW s, NEW a, NEW b, Vivas(a, b), LTabla(v, s, a, b), NEW q, q.viva = TRUE, q.op # "listar",
           q.op \in LM => q.tras = LTras(v)
    PROVE  LTabla(v, s, a \o <<q>>, b)
<1> DEFINE p == <<q>>
           u == a \o p
           P == LMuestra(v, s)
           Y == {Listas!Coinciden(s, v.filtro)}
           T == LEncargos(v)
<1>1. Sucesion(a) /\ Sucesion(p) /\ Salen(u, a, {q})
  BY PideUna, SalenDe DEF Vivas
<1>2. Fresca(a, b, LCanal, P, Y) /\ Encargada(a, {"listar"}, T)
  BY DEF LTabla
<1>3. Encargada(u, {"listar"}, T)
  <2> HIDE DEF T
  <2> QED BY <1>1, <1>2, EncargadaPide
<1> HIDE DEF p, P, Y, T
<1>4. Fresca(u, b, LCanal, P, Y)
  BY <1>1, <1>2, FrescaPide
<1> HIDE DEF u
<1>5. \A k \in DOMAIN u : u[k].op \in LM => u[k].tras = LTras(v)
  BY <1>1 DEF Salen, LTabla
<1> QED BY <1>3, <1>4, <1>5 DEF LTabla, u, p, P, Y, T

LEMMA LTablaBusca ==
    ASSUME NEW v, NEW s, NEW a, NEW b, Vivas(a, b), NEW w, LTabla(w, s, a, b),
           \A k \in DOMAIN a : a[k].op \notin LM, \A k \in DOMAIN b : b[k].q.op \notin LM,
           NEW q, q.viva = TRUE, q.op = "listar", q.tras = "", q.datos = v.filtro
    PROVE  LTabla(v, s, a \o <<q>>, b)
<1> DEFINE p == <<q>>
           u == a \o p
           P == LMuestra(v, s)
           Y == {Listas!Coinciden(s, v.filtro)}
           T == LEncargos(v)
<1>1. Sucesion(a) /\ Sucesion(p) /\ Salen(u, a, {q}) /\ Hay(p, {"listar"})
  <2>1. Hay(p, {"listar"}) <=> q.op \in {"listar"}
    BY PideUna
  <2> QED BY <2>1, PideUna, SalenDe DEF Vivas
<1>2. Que(q) \in T
  BY DEF Que, LEncargos
<1>3. Encargada(u, {"listar"}, T)
  <2> HIDE DEF T
  <2> QED BY <1>1, <1>2, EncargadaPide
<1> HIDE DEF p, P, Y, T
<1>4. Fresca(u, b, LCanal, P, Y)
  BY <1>1, LHabla, FrescaPidiendo
<1> HIDE DEF u
<1>5. \A k \in DOMAIN u : u[k].op \in LM => u[k].tras = LTras(v)
  BY <1>1 DEF Salen, LM
<1> QED BY <1>3, <1>4, <1>5 DEF LTabla, u, p, P, Y, T

LEMMA LTablaMonta ==
    ASSUME NEW v, NEW s, NEW q, q.viva = TRUE, q.op = "listar", q.tras = "", q.datos = v.filtro
    PROVE  LTabla(v, s, <<q>>, <<>>)
<1> DEFINE p == <<q>>
           T == LEncargos(v)
<1>0. DOMAIN <<>> = {}
  BY SucesionUna
<1>1. DOMAIN p = {1} /\ p[1] = q
  BY SucesionUna
<1>2. Que(q) \in T
  BY DEF Que, LEncargos
<1> HIDE DEF p, T
<1>3. Encargada(p, {"listar"}, T)
  <2> DEFINE K == {"listar"}
             e == <<>>
  <2>1. q.op \in K /\ Sucesion(e)
    BY SucesionUna
  <2> HIDE DEF K, e
  <2>2. Encargada(e \o <<q>>, K, T)
    BY <1>2, <2>1, EncargadaUltima
  <2> QED BY <2>2, NadieEnReposo DEF p, K, e
<1>4. Hay(p, {"listar"}) /\ \A k \in DOMAIN p : p[k].op \notin LM
  BY <1>1 DEF Hay, LM
<1>5. ASSUME NEW P, NEW Y PROVE Fresca(p, <<>>, LCanal, P, Y)
  BY <1>4, LHabla DEF Fresca
<1> QED BY <1>0, <1>3, <1>4, <1>5 DEF LTabla, p, T

LEMMA LTablaToma ==
    ASSUME NEW v, NEW s, NEW a, NEW b, Vivas(a, b), LTabla(v, s, a, b), 1 \in DOMAIN a, NEW r,
           LSalida(s, a[1], r), a[1].op \in LO, NEW m, m = [q |-> a[1], ok |-> r.ok, datos |-> r.datos]
    PROVE  LTabla(v, r.srv, Sin(a, 1), Append(b, m))
<1> DEFINE a1 == Sin(a, 1)
           b1 == Append(b, m)
           q == a[1]
           s1 == r.srv
           ok == r.ok
           d == r.datos
           P == LMuestra(v, s)
           P1 == LMuestra(v, s1)
           Y == {Listas!Coinciden(s, v.filtro)}
           Y1 == {Listas!Coinciden(s1, v.filtro)}
           T == LEncargos(v)
<1>1. m.q = q /\ m.ok = ok /\ m.datos = d /\ m = [q |-> a[1], ok |-> ok, datos |-> d]
  OBVIOUS
<1>2. Sucesion(a) /\ Sucesion(b)
  BY DEF Vivas
<1>3. /\ ok \in BOOLEAN
      /\ ok # TRUE => s1 = s
      /\ q.op = "listar" => ok = TRUE /\ s1 = s /\ d["listas"] = Listas!Coinciden(s, q.datos)
      /\ q.op = "obtener" => s1 = s
      /\ q.op \in LI => DOMAIN s1 = DOMAIN s /\ \A x \in DOMAIN s : s1[x].nombre = s[x].nombre
  <2>1. LSalida(s, q, r)
    OBVIOUS
  <2> HIDE DEF q
  <2> QED BY <2>1 DEF LSalida
<1>4. q.op \in LO
  OBVIOUS
<1>5. Salen(a1, a, {}) /\ Salen(b1, b, {m})
  <2> QED BY <1>2, SalenDe
<1> HIDE DEF a1, b1, q, s1, ok, d
<1>6. q.op \in LI \cup {"obtener"} \/ ok # TRUE => Listas!Coinciden(s1, v.filtro) = Listas!Coinciden(s, v.filtro)
  BY <1>3, LIgual
<1>7. q.op \in LI \cup {"obtener"} \/ ok # TRUE => (P => P1) /\ Y \subseteq Y1
  BY <1>6 DEF LMuestra
<1>8. Encargada(a1, {"listar"}, T) /\ (q.op = "listar" => Que(q) \in T \/ Hay(a1, {"listar"}))
  <2>1. Encargada(a, {"listar"}, T)
    BY DEF LTabla
  <2> HIDE DEF T
  <2> QED BY <1>2, <2>1, EncargadaToma DEF a1, q
<1>9. q.op = "listar" /\ Que(q) \in T => d["listas"] \in Y1
  BY <1>3 DEF Que, LEncargos
<1>10. Fresca(a, b, LCanal, P, Y)
  BY DEF LTabla
<1>11. /\ LCanal.pide = {"listar"} /\ LCanal.relee = LM
       /\ Habla(m, LCanal) <=> q.op = "listar"
       /\ Dicho(m, LCanal.dato) = d["listas"]
  BY <1>1, LHabla
<1> HIDE DEF P, P1, Y, Y1, T
<1>12. Fresca(a1, b1, LCanal, P1, Y1)
  <2>1. CASE q.op = "listar" /\ Que(q) \in T
    BY <1>1, <1>3, <1>9, <1>11, <2>1, TomaDice DEF a1, b1
  <2>2. CASE Hay(a1, {"listar"})
    BY <1>11, <2>2, TomaAunPide DEF a1, b1
  <2>3. CASE q.op \in LM /\ ok = TRUE
    BY <1>1, <1>11, <2>3, TomaCambia DEF a1, b1, q
  <2>4. CASE q.op # "listar" /\ (q.op \notin LM \/ ok # TRUE)
    <3>1. (P => P1) /\ Y \subseteq Y1
      BY <1>3, <1>4, <1>7, <2>4 DEF LO, LM, LI
    <3>2. q.op \notin LCanal.pide /\ ~Habla(m, LCanal)
      BY <1>11, <2>4
    <3> QED BY <1>1, <1>10, <3>1, <3>2, TomaSigue DEF a1, b1, q
  <2> QED BY <1>3, <1>8, <2>1, <2>2, <2>3, <2>4
<1>13. /\ \A k \in DOMAIN a1 : a1[k].op \in LM => a1[k].tras = LTras(v)
       /\ \A k \in DOMAIN b1 : b1[k].q.op \in LM => b1[k].q.tras = LTras(v)
       /\ \A k \in DOMAIN b1 : b1[k].q.op = "listar" => b1[k].ok = TRUE
  <2>1. /\ \A k \in DOMAIN a : a[k].op \in LM => a[k].tras = LTras(v)
        /\ \A k \in DOMAIN b : b[k].q.op \in LM => b[k].q.tras = LTras(v)
        /\ \A k \in DOMAIN b : b[k].q.op = "listar" => b[k].ok = TRUE
    BY DEF LTabla
  <2>2. (m.q.op \in LM => m.q.tras = LTras(v)) /\ (m.q.op = "listar" => m.ok = TRUE)
    BY <1>1, <1>3, <2>1 DEF q
  <2> QED BY <1>5, <2>1, <2>2 DEF Salen
<1> QED BY <1>8, <1>12, <1>13 DEF LTabla, a1, b1, P1, Y1, T, s1

LEMMA LTablaLlega ==
    ASSUME NEW v, LBusca(v), NEW s, NEW a, NEW b, Vivas(a, b), LTabla(v, s, a, b), 1 \in DOMAIN b,
           NEW w, w.filtro = v.filtro, w.listas = IF b[1].q.op = "listar" THEN b[1].datos["listas"] ELSE v.listas,
           NEW p, \/ p = <<>>
                  \/ \E q : p = <<q>> /\ q.viva = TRUE /\ q.op = "obtener"
                  \/ \E q : /\ p = <<q>> /\ q.viva = TRUE /\ q.op = "listar" /\ q.tras \in {"", "guardar", "masivo"}
                            /\ q.datos = IF b[1].q.tras = "filtrada" THEN Listas!Buscado ELSE Listas!Todas
                            /\ b[1].q.op \in LM,
           b[1].ok = TRUE /\ b[1].q.op \in LM => Hay(p, {"listar"})
    PROVE  LTabla(w, s, a \o p, Sin(b, 1))
<1> DEFINE m == b[1]
           b1 == Sin(b, 1)
           u == a \o p
           P == LMuestra(v, s)
           P1 == LMuestra(w, s)
           Y == {Listas!Coinciden(s, v.filtro)}
           T == LEncargos(v)
<1>1. Sucesion(a) /\ Sucesion(b) /\ Salen(b1, b, {})
  BY SalenDe DEF Vivas
<1>2. /\ Fresca(a, b, LCanal, P, Y) /\ Encargada(a, {"listar"}, T)
      /\ \A k \in DOMAIN a : a[k].op \in LM => a[k].tras = LTras(v)
      /\ \A k \in DOMAIN b : b[k].q.op \in LM => b[k].q.tras = LTras(v)
      /\ \A k \in DOMAIN b : b[k].q.op = "listar" => b[k].ok = TRUE
  BY DEF LTabla
<1>3. /\ Vivas(p, <<>>) /\ Encargada(u, {"listar"}, T)
      /\ \A k \in DOMAIN u : u[k].op \in LM => u[k].tras = LTras(v)
  <2>1. CASE p = <<>>
    BY <1>1, <1>2, <2>1, JuntoNada, VivasNada
  <2>2. ASSUME NEW q, p = <<q>>, q.viva = TRUE, q.op = "obtener" \/ (q.op = "listar" /\ Que(q) \in T)
        PROVE  /\ Vivas(p, <<>>) /\ Encargada(u, {"listar"}, T)
               /\ \A k \in DOMAIN u : u[k].op \in LM => u[k].tras = LTras(v)
    <3>1. Vivas(p, <<>>) /\ Salen(u, a, {q})
      BY <1>1, <2>2, SalenDe, VivasUna
    <3>2. Encargada(u, {"listar"}, T)
      <4> HIDE DEF T
      <4> QED BY <1>1, <1>2, <2>2, EncargadaPide
    <3> HIDE DEF u
    <3> QED BY <1>2, <2>2, <3>1, <3>2 DEF Salen, LM
  <2>3. ASSUME NEW q, p = <<q>>, q.viva = TRUE, q.op = "listar", q.tras \in {"", "guardar", "masivo"},
               q.datos = IF m.q.tras = "filtrada" THEN Listas!Buscado ELSE Listas!Todas, m.q.op \in LM
        PROVE  Que(q) \in T
    <3>1. m.q.tras = LTras(v)
      BY <1>2, <2>3
    <3>2. q.datos = v.filtro
      BY <2>3, <3>1 DEF LBusca, LTras
    <3> QED BY <2>3, <3>2 DEF Que, LEncargos
  <2> QED BY <2>1, <2>2, <2>3
<1>4. /\ LCanal.pide = {"listar"} /\ LCanal.relee = LM
      /\ Habla(m, LCanal) <=> m.q.op = "listar"
      /\ Dicho(m, LCanal.dato) = m.datos["listas"]
  BY LHabla
<1>5. (m.q.op = "listar" /\ m.datos["listas"] \in Y => P1) /\ (m.q.op # "listar" /\ P => P1)
  BY DEF LMuestra
<1> HIDE DEF b1, u, P, P1, Y, T
<1>6. Fresca(u, b1, LCanal, P1, Y)
  BY <1>1, <1>2, <1>3, <1>4, <1>5, FrescaRecibe DEF u, b1, m
<1>7. /\ \A k \in DOMAIN b1 : b1[k].q.op \in LM => b1[k].q.tras = LTras(v)
      /\ \A k \in DOMAIN b1 : b1[k].q.op = "listar" => b1[k].ok = TRUE
  BY <1>1, <1>2 DEF Salen
<1>8. LTabla(w, s, u, b1)
  BY <1>3, <1>6, <1>7 DEF LTabla, LTras, LEncargos, P1, Y, T
<1> QED BY <1>8 DEF u, b1

-----------------------------------------------------------------------------
LEMMA LFielResponde ==
    ASSUME ListasInv, ListasFiel, NEW i, Listas!Responde(i), dudosa' # TRUE
    PROVE  LFiel(vista', srv', ida', vuelta')
<1> DEFINE q == ida[1]
           r == Listas!Servidor(srv, q)
           m == [q |-> q, ok |-> r.ok, datos |-> r.datos]
           a1 == Sin(ida, 1)
           b1 == Append(vuelta, m)
<1>1. /\ 1 \in DOMAIN ida /\ srv' = r.srv /\ ida' = a1 /\ vista' = vista
      /\ vuelta' = b1 /\ dudosa # TRUE
  BY DEF Listas!Responde, Listas!Atiende, Listas!Sin, Sin
<1>2. /\ LFilas(srv) /\ Sucesion(vuelta) /\ Vivas(ida, vuelta) /\ LTiene(vista)
      /\ LTabla(vista, srv, ida, vuelta) /\ LDetalle(vista, srv, ida, vuelta)
      /\ \A k \in DOMAIN vuelta : vuelta[k].ok \in BOOLEAN
  BY <1>1 DEF ListasFiel, LFiel, Vivas
<1>3. q.op \in LO
  BY <1>1 DEF ListasInv, Correo, SonPedidos, EsPedido
<1>4. LSalida(srv, q, r)
  <2> HIDE DEF m, q
  <2> QED BY <1>2, <1>3, LBanco
<1>5. r.ok \in BOOLEAN
  <2> HIDE DEF r, q
  <2> QED BY <1>4 DEF LSalida
<1> HIDE DEF r
<1>6. m = [q |-> ida[1], ok |-> r.ok, datos |-> r.datos] /\ m.ok \in BOOLEAN
  BY <1>5
<1> HIDE DEF m, a1, b1
<1>7. Vivas(a1, b1)
  BY <1>1, <1>2, <1>6, VivasToma DEF a1, b1
<1>8. LTabla(vista, r.srv, a1, b1)
  BY <1>1, <1>2, <1>3, <1>4, <1>6, LTablaToma DEF a1, b1
<1>9. LDetalle(vista, r.srv, a1, b1)
  BY <1>1, <1>2, <1>3, <1>4, <1>6, LDetalleToma DEF a1, b1
<1>10. \A k \in DOMAIN b1 : b1[k].ok \in BOOLEAN
  <2>1. Salen(b1, vuelta, {m})
    BY <1>2, SalenDe DEF b1
  <2> QED BY <1>2, <1>6, <2>1 DEF Salen
<1> QED BY <1>1, <1>2, <1>7, <1>8, <1>9, <1>10 DEF LFiel

LEMMA LFielRecibe ==
    ASSUME ListasInv, ListasFiel, NEW i, Listas!Recibe(i), dudosa' # TRUE
    PROVE  LFiel(vista', srv', ida', vuelta')
<1> DEFINE m == vuelta[1]
           r == Listas!Recibir(m)
           p == r.pide
           v == vista
           w == r.vista
           b1 == Sin(vuelta, 1)
           u == ida \o p
<1>1. i = 1 /\ dudosa # TRUE /\ 1 \in DOMAIN vuelta /\ m.q.op \in LO
  <2>1. i \in DOMAIN vuelta /\ vuelta[i].q.op \in LO
    BY DEF Listas!Recibe, Listas!Llega, ListasInv, Correo, SonRespuestas, EsRespuesta, EsPedido
  <2>2. Listas!Recibir(vuelta[i]).va = FALSE
    BY <2>1 DEF LO, Listas!Recibir, Listas!Queda, Listas!Pide
  <2>3. i = 1 /\ dudosa # TRUE
    BY <2>2 DEF Listas!Recibe, Listas!Llega
  <2> QED BY <2>1, <2>3
<1>2. /\ Sucesion(ida) /\ Sucesion(vuelta) /\ Vivas(ida, vuelta) /\ LTiene(v)
      /\ LTabla(v, srv, ida, vuelta) /\ LDetalle(v, srv, ida, vuelta)
      /\ (\A k \in DOMAIN vuelta : vuelta[k].ok \in BOOLEAN) /\ m.q.viva = TRUE /\ m.ok \in BOOLEAN
      /\ m.q.op = "listar" => m.ok = TRUE
  BY <1>1 DEF ListasFiel, LFiel, LTabla, Vivas
<1>3. r.va = FALSE
  BY <1>1 DEF LO, Listas!Recibir, Listas!Queda, Listas!Pide
<1>4. vista' = w /\ srv' = srv /\ ida' = u /\ vuelta' = b1
  BY <1>1, <1>2, <1>3 DEF Listas!Recibe, Listas!Llega, Listas!Sin, Sin
<1> DEFINE lis(t) == Listas!Tras(Listas!Pedido("listar", Listas!Nadie,
                            IF m.q.tras = "filtrada" THEN Listas!Buscado ELSE Listas!Todas), t)
           obt == Listas!Tras(Listas!Pedido("obtener", m.q.id, Nada), m.q.op)
<1>5. /\ LCampos(w) /\ w.filtro = v.filtro
      /\ w.listas = IF m.q.op = "listar" THEN m.datos["listas"] ELSE v.listas
      /\ w.detalle = IF LFuente(m) THEN m.datos ELSE v.detalle
  BY <1>1, <1>2 DEF LO, LFuente, LD, LTiene, LCampos, Listas!Recibir, Listas!Queda, Listas!Pide
<1>6. \/ m.ok = TRUE /\ m.q.op \in LM /\ \E t \in {"", "guardar", "masivo"} : p = <<lis(t)>>
      \/ m.ok = TRUE /\ m.q.op \in LI /\ p = <<obt>>
      \/ (m.ok # TRUE \/ m.q.op \notin LM \cup LI) /\ p = <<>>
  BY <1>1, <1>2 DEF LO, LM, LI, Listas!Recibir, Listas!Queda, Listas!Pide
<1>7. /\ obt.op = "obtener" /\ obt.id = m.q.id /\ obt.viva = TRUE
      /\ \A t : /\ lis(t).op = "listar" /\ lis(t).viva = TRUE /\ lis(t).tras = t
                /\ lis(t).datos = IF m.q.tras = "filtrada" THEN Listas!Buscado ELSE Listas!Todas
  BY DEF Listas!Pedido, Listas!Tras
<1> HIDE DEF p, r, u, m, b1, w, lis, obt
<1>8. \/ p = <<>>
      \/ \E q : p = <<q>> /\ q.viva = TRUE /\ q.op = "obtener"
      \/ \E q : /\ p = <<q>> /\ q.viva = TRUE /\ q.op = "listar" /\ q.tras \in {"", "guardar", "masivo"}
                /\ q.datos = IF m.q.tras = "filtrada" THEN Listas!Buscado ELSE Listas!Todas
                /\ m.q.op \in LM
  <2>1. ASSUME NEW t \in {"", "guardar", "masivo"}, p = <<lis(t)>>, m.q.op \in LM
        PROVE  \E q : /\ p = <<q>> /\ q.viva = TRUE /\ q.op = "listar" /\ q.tras \in {"", "guardar", "masivo"}
                      /\ q.datos = IF m.q.tras = "filtrada" THEN Listas!Buscado ELSE Listas!Todas
                      /\ m.q.op \in LM
    BY <1>7, <2>1
  <2>2. ASSUME p = <<obt>> PROVE \E q : p = <<q>> /\ q.viva = TRUE /\ q.op = "obtener"
    BY <1>7, <2>2
  <2> QED BY <1>6, <2>1, <2>2
<1>9. m.ok = TRUE /\ m.q.op \in LM => Hay(p, {"listar"})
  <2> SUFFICES ASSUME m.ok = TRUE, m.q.op \in LM PROVE Hay(p, {"listar"})
    OBVIOUS
  <2>1. PICK t : p = <<lis(t)>>
    BY <1>6 DEF LM, LI
  <2> DEFINE q == lis(t)
  <2>2. p = <<q>> /\ q.op \in {"listar"} /\ q.viva = TRUE
    BY <1>7, <2>1
  <2> HIDE DEF q
  <2>3. Hay(p, {"listar"}) <=> q.op \in {"listar"}
    BY <2>2, PideUna
  <2> QED BY <2>2, <2>3
<1>10. m.ok = TRUE /\ m.q.op \in LI => \E k \in DOMAIN p : p[k].op = "obtener" /\ p[k].id = m.q.id
  <2> SUFFICES ASSUME m.ok = TRUE, m.q.op \in LI PROVE \E k \in DOMAIN p : p[k].op = "obtener" /\ p[k].id = m.q.id
    OBVIOUS
  <2>1. p = <<obt>>
    BY <1>6 DEF LM, LI
  <2>2. 1 \in DOMAIN p /\ p[1] = obt
    BY <2>1, SucesionUna
  <2> QED BY <1>7, <2>2
<1>11. Vivas(p, <<>>) /\ (p = <<>> \/ \E q : p = <<q>> /\ q.op \in {"listar", "obtener"} /\ q.viva = TRUE)
  BY <1>8, VivasNada, VivasUna
<1>12. Vivas(u, b1)
  BY <1>1, <1>2, <1>11, VivasLlega DEF u, b1
<1>13. LTabla(w, srv, u, b1)
  BY <1>1, <1>2, <1>5, <1>8, <1>9, LTablaLlega DEF u, b1, m, LTiene
<1>14. LDetalle(w, srv, u, b1)
  BY <1>1, <1>2, <1>5, <1>10, <1>11, LDetalleLlega DEF u, b1, m
<1>15. \A k \in DOMAIN b1 : b1[k].ok \in BOOLEAN
  <2>1. Salen(b1, vuelta, {})
    BY <1>1, <1>2, SalenDe DEF b1
  <2> QED BY <1>2, <2>1 DEF Salen
<1>16. LTiene(w)
  BY <1>2, <1>5 DEF LTiene, LBusca
<1> QED BY <1>4, <1>12, <1>13, <1>14, <1>15, <1>16 DEF LFiel

LEMMA LCamposSigue == ListasInv /\ LCampos(vista) /\ Listas!Next => LCampos(vista')
<1> SUFFICES ASSUME ListasInv, LCampos(vista), Listas!Next PROVE LCampos(vista')
  OBVIOUS
<1>1. ASSUME NEW i, Listas!Responde(i) PROVE LCampos(vista')
  BY <1>1 DEF Listas!Responde, Listas!Atiende
<1>2. ASSUME NEW i, Listas!Recibe(i) PROVE LCampos(vista')
  <2> DEFINE m == vuelta[i]
  <2>1. i \in DOMAIN vuelta /\ m.q.op \in LO
    BY <1>2 DEF Listas!Recibe, Listas!Llega, ListasInv, Correo, SonRespuestas, EsRespuesta, EsPedido
  <2> HIDE DEF m
  <2>2. LCampos(Listas!Recibir(m).vista)
    BY <2>1 DEF LO, LCampos, Listas!Recibir, Listas!Queda, Listas!Pide
  <2>3. vista' \in {vista, Listas!Recibir(m).vista}
    BY <1>2 DEF Listas!Recibe, Listas!Llega, m
  <2> QED BY <2>2, <2>3
<1> USE DEF Listas!Toque, Listas!Recarga, Listas!Tropiezo, LCampos
<1>3. CASE Listas!Buscar \/ Listas!AbrirDetalle \/ Listas!AbrirForm \/ Listas!PedirBaja \/ Listas!CerrarModal
  BY <1>3 DEF Listas!Buscar, Listas!AbrirDetalle, Listas!AbrirForm, Listas!PedirBaja, Listas!CerrarModal
<1>4. CASE Listas!Guardar \/ Listas!ConfirmarBaja
  BY <1>4 DEF Listas!Guardar, Listas!ConfirmarBaja, Listas!Cambia
<1>5. CASE Listas!Volver \/ Listas!AbrirDialogo \/ Listas!CerrarDialogo \/ Listas!ContinuarMasivo
  BY <1>5 DEF Listas!Volver, Listas!AbrirDialogo, Listas!CerrarDialogo, Listas!ContinuarMasivo
<1>6. CASE Listas!Agregar \/ Listas!Quitar \/ Listas!CambiarDescuento \/ Listas!AplicarMasivo
  BY <1>6 DEF Listas!Agregar, Listas!Quitar, Listas!CambiarDescuento, Listas!AplicarMasivo
<1>7. CASE Listas!Montar(Listas!VistaInicial, Listas!Listar(Listas!Todas))
  BY <1>7 DEF Listas!Montar, Listas!VistaInicial
<1> QED BY <1>1, <1>2, <1>3, <1>4, <1>5, <1>6, <1>7 DEF Listas!Next

LEMMA ListasFielSigue == ListasInv /\ ListasFiel /\ Listas!Next => ListasFiel'
<1> SUFFICES ASSUME ListasInv, ListasFiel, Listas!Next PROVE ListasFiel'
  OBVIOUS
<1>1. /\ LFilas(srv) /\ LCampos(vista)
      /\ dudosa # TRUE => /\ LFiel(vista, srv, ida, vuelta) /\ LTiene(vista) /\ Sucesion(ida) /\ Vivas(ida, vuelta)
                          /\ LTabla(vista, srv, ida, vuelta) /\ LDetalle(vista, srv, ida, vuelta)
                          /\ \A k \in DOMAIN vuelta : vuelta[k].ok \in BOOLEAN
  BY DEF ListasFiel, LFiel, Vivas
<1>2. LFilas(srv')
  <2>1. ASSUME NEW i, Listas!Responde(i) PROVE LFilas(srv')
    <3>1. i \in DOMAIN ida /\ srv' \in {srv, Listas!Servidor(srv, ida[i]).srv}
      BY <2>1 DEF Listas!Responde, Listas!Atiende
    <3>2. ida[i].op \in LO
      BY <3>1 DEF ListasInv, Correo, SonPedidos, EsPedido
    <3>3. LSalida(srv, ida[i], Listas!Servidor(srv, ida[i]))
      BY <1>1, <3>2, LBanco
    <3> QED BY <1>1, <3>1, <3>3 DEF LSalida
  <2>2. ASSUME NEW i, Listas!Recibe(i) PROVE srv' = srv
    BY <2>2 DEF Listas!Recibe, Listas!Llega
  <2>3. ASSUME NEW w, NEW p, Listas!Toque(w, p) \/ Listas!Recarga(w, p) \/ Listas!Tropiezo(w, p) PROVE srv' = srv
    BY <2>3 DEF Listas!Toque, Listas!Recarga, Listas!Tropiezo
  <2>4. CASE \/ Listas!AbrirDetalle \/ Listas!AbrirForm \/ Listas!PedirBaja \/ Listas!CerrarModal
             \/ Listas!Volver \/ Listas!AbrirDialogo \/ Listas!CerrarDialogo \/ Listas!ContinuarMasivo
    BY <1>1, <2>3, <2>4 DEF Listas!AbrirDetalle, Listas!AbrirForm, Listas!PedirBaja, Listas!CerrarModal,
       Listas!Volver, Listas!AbrirDialogo, Listas!CerrarDialogo, Listas!ContinuarMasivo
  <2>5. CASE \/ Listas!Buscar \/ Listas!Guardar \/ Listas!ConfirmarBaja
             \/ Listas!Agregar \/ Listas!Quitar \/ Listas!CambiarDescuento \/ Listas!AplicarMasivo
    BY <1>1, <2>3, <2>5 DEF Listas!Buscar, Listas!Guardar, Listas!ConfirmarBaja, Listas!Cambia,
       Listas!Agregar, Listas!Quitar, Listas!CambiarDescuento, Listas!AplicarMasivo
  <2>6. CASE Listas!Montar(Listas!VistaInicial, Listas!Listar(Listas!Todas))
    BY <1>1, <2>6 DEF Listas!Montar
  <2> QED BY <1>1, <2>1, <2>2, <2>4, <2>5, <2>6 DEF Listas!Next
<1> SUFFICES ASSUME dudosa' # TRUE PROVE LFiel(vista', srv', ida', vuelta')
  BY <1>2, LCamposSigue DEF ListasFiel
<1> DEFINE Quieta(w) == /\ LCampos(w)
                        /\ w.listas = vista.listas /\ w.filtro = vista.filtro /\ w.detalle \in {vista.detalle, Nada}
           Pone(q) == /\ dudosa # TRUE /\ srv' = srv /\ vuelta' = vuelta /\ ida' = ida \o <<q>> /\ q.viva = TRUE
                      /\ LCampos(vista')
                      /\ vista'.listas = vista.listas /\ vista'.detalle \in {vista.detalle, Nada}
           Suya(q) == Pone(q) /\ vista'.filtro = vista.filtro /\ q.op # "listar" /\ (q.op \in LM => q.tras = LTras(vista))
<1>3. ASSUME NEW q, Suya(q),
             q.op \in LC => /\ vista'.detalle = Nada
                            /\ \A k \in DOMAIN ida : ida[k].op \notin LD
                            /\ \A k \in DOMAIN vuelta : vuelta[k].q.op \notin LD
      PROVE  LFiel(vista', srv', ida', vuelta')
  <2> DEFINE u == ida \o <<q>>
  <2>1. Vivas(u, vuelta)
    BY <1>1, <1>3, VivasUna, VivasPide
  <2>2. LTabla(vista, srv, u, vuelta)
    BY <1>1, <1>3, LTablaPide
  <2>3. LDetalle(vista', srv, u, vuelta)
    <3>1. /\ Vivas(ida, vuelta) /\ LDetalle(vista, srv, ida, vuelta) /\ q.viva = TRUE
          /\ vista'.detalle \in {vista.detalle, Nada}
      BY <1>1, <1>3
    <3>2. LSinDetalle(vista', ida, vuelta, q)
      BY <1>3 DEF LSinDetalle
    <3>3. LDetalle(vista', srv, ida, vuelta)
      BY <3>1, LDetalleToca
    <3> QED BY <3>1, <3>2, <3>3, LDetallePide
  <2> HIDE DEF u
  <2>4. LTabla(vista', srv, u, vuelta)
    BY <1>3, <2>2, LTablaToca
  <2>5. LTiene(vista')
    BY <1>1, <1>3 DEF LTiene, LBusca
  <2> QED BY <1>1, <1>3, <2>1, <2>3, <2>4, <2>5 DEF LFiel, u
<1>4. CASE \/ Listas!AbrirForm \/ Listas!PedirBaja \/ Listas!CerrarModal \/ Listas!Volver
           \/ Listas!AbrirDialogo \/ Listas!CerrarDialogo \/ Listas!ContinuarMasivo
  <2>1. /\ dudosa # TRUE /\ srv' = srv /\ vuelta' = vuelta /\ ida' = ida \o <<>>
        /\ LCampos(vista')
        /\ vista'.listas = vista.listas /\ vista'.filtro = vista.filtro /\ vista'.detalle \in {vista.detalle, Nada}
    <3> USE DEF Listas!Toque, LTiene, LCampos
    <3>1. CASE Listas!AbrirForm \/ Listas!PedirBaja \/ Listas!CerrarModal
      BY <1>1, <3>1 DEF Listas!AbrirForm, Listas!PedirBaja, Listas!CerrarModal
    <3>2. CASE Listas!Volver
      BY <1>1, <3>2 DEF Listas!Volver
    <3>3. CASE Listas!AbrirDialogo \/ Listas!CerrarDialogo \/ Listas!ContinuarMasivo
      BY <1>1, <3>3 DEF Listas!AbrirDialogo, Listas!CerrarDialogo, Listas!ContinuarMasivo
    <3> QED BY <1>4, <3>1, <3>2, <3>3
  <2>2. ida' = ida
    BY <1>1, <2>1, JuntoNada
  <2>3. LTabla(vista', srv, ida, vuelta) /\ LDetalle(vista', srv, ida, vuelta) /\ LTiene(vista')
    BY <1>1, <2>1, LTablaToca, LDetalleToca DEF LTiene, LBusca
  <2> QED BY <1>1, <2>1, <2>2, <2>3 DEF LFiel
<1>5. CASE Listas!AbrirDetalle
  <2>1. PICK i : Listas!Toque([vista EXCEPT !.abriendo = TRUE], <<Listas!Pedido("obtener", i, Nada)>>)
    BY <1>5 DEF Listas!AbrirDetalle
  <2> DEFINE q == Listas!Pedido("obtener", i, Nada)
  <2>2. q.viva = TRUE /\ q.op = "obtener"
    BY DEF Listas!Pedido
  <2>3. Suya(q)
    <3> HIDE DEF q
    <3> QED BY <1>1, <2>1, <2>2 DEF Listas!Toque, LTiene, LCampos, LM, q
  <2> HIDE DEF q
  <2> QED BY <1>3, <2>2, <2>3 DEF LC
<1>6. CASE Listas!Quitar \/ Listas!CambiarDescuento \/ Listas!Agregar \/ Listas!AplicarMasivo
  <2>1. \E op, art, pct, w : op \in LI \cup {"masivo"} /\ Quieta(w) /\ Listas!Toque(w, Listas!DelDetalle(op, art, pct))
    <3>0. dudosa # TRUE /\ LTiene(vista)
      BY <1>1, <1>6 DEF Listas!Quitar, Listas!CambiarDescuento, Listas!Agregar, Listas!AplicarMasivo, Listas!Toque
    <3>1. CASE Listas!Quitar
      <4>1. PICK art : Listas!Toque(vista, Listas!DelDetalle("quitar", art, 0))
        BY <3>1 DEF Listas!Quitar
      <4> QED BY <3>0, <4>1 DEF LI, LTiene
    <3>2. CASE Listas!CambiarDescuento
      <4>1. PICK art, pct : Listas!Toque(vista, Listas!DelDetalle("descuento", art, pct))
        BY <3>2 DEF Listas!CambiarDescuento
      <4> QED BY <3>0, <4>1 DEF LI, LTiene
    <3>3. CASE Listas!Agregar
      <4> DEFINE w == [vista EXCEPT !.guardando = TRUE]
      <4>1. PICK art, pct : Listas!Toque(w, Listas!DelDetalle("agregar", art, pct))
        BY <3>3 DEF Listas!Agregar
      <4>2. Quieta(w)
        BY <3>0 DEF LTiene, LCampos
      <4> HIDE DEF w
      <4> QED BY <4>1, <4>2 DEF LI
    <3>4. CASE Listas!AplicarMasivo
      <4> DEFINE w == [vista EXCEPT !.aplicando = TRUE]
      <4>1. PICK pct : Listas!Toque(w, Listas!DelDetalle("masivo", 0, pct))
        BY <3>4 DEF Listas!AplicarMasivo
      <4>2. Quieta(w)
        BY <3>0 DEF LTiene, LCampos
      <4> HIDE DEF w
      <4> QED BY <4>1, <4>2
    <3> QED BY <1>6, <3>1, <3>2, <3>3, <3>4
  <2>2. PICK op, art, pct, w : op \in LI \cup {"masivo"} /\ Quieta(w) /\ Listas!Toque(w, Listas!DelDetalle(op, art, pct))
    BY <2>1
  <2> DEFINE q == Listas!ConBusqueda(Listas!Pedido(op, vista.detalle.id, [articulo |-> art, pct |-> pct]))
  <2>3. q.viva = TRUE /\ q.op = op /\ q.tras = LTras(vista)
    BY DEF Listas!Pedido, Listas!ConBusqueda, Listas!Tras, LTras
  <2>4. Listas!DelDetalle(op, art, pct) = <<q>>
    BY DEF Listas!DelDetalle
  <2> HIDE DEF q
  <2>5. Suya(q)
    BY <1>1, <2>2, <2>3, <2>4 DEF Listas!Toque, LI
  <2> QED BY <1>3, <2>2, <2>3, <2>5 DEF LC, LI
<1>7. CASE Listas!Guardar \/ Listas!ConfirmarBaja
  <2>1. \E op, id, datos, w :
             /\ op \in LC /\ Listas!Cambia(w, <<Listas!ConBusqueda(Listas!Pedido(op, id, datos))>>)
             /\ dudosa # TRUE => Quieta(w) /\ w.detalle = Nada
    <3>1. CASE Listas!Guardar
      <4> DEFINE w == [vista EXCEPT !.guardando = TRUE]
      <4>1. \E op, id, datos : op \in LC /\ Listas!Cambia(w, <<Listas!ConBusqueda(Listas!Pedido(op, id, datos))>>)
        BY <3>1 DEF Listas!Guardar, LC
      <4>2. dudosa # TRUE => Quieta(w) /\ w.detalle = Nada
        BY <1>1, <3>1 DEF LTiene, LCampos, Listas!Guardar, Listas!EnForm
      <4> HIDE DEF w
      <4> QED BY <4>1, <4>2
    <3>2. CASE Listas!ConfirmarBaja
      <4>1. \E op, id, datos : op \in LC /\ Listas!Cambia(vista, <<Listas!ConBusqueda(Listas!Pedido(op, id, datos))>>)
        BY <3>2 DEF Listas!ConfirmarBaja, LC
      <4>2. dudosa # TRUE => Quieta(vista) /\ vista.detalle = Nada
        BY <1>1, <3>2 DEF LTiene, Listas!ConfirmarBaja, Listas!EnBaja
      <4> QED BY <4>1, <4>2
    <3> QED BY <1>7, <3>1, <3>2
  <2>2. PICK op, id, datos, w :
             /\ op \in LC /\ Listas!Cambia(w, <<Listas!ConBusqueda(Listas!Pedido(op, id, datos))>>)
             /\ dudosa # TRUE => Quieta(w) /\ w.detalle = Nada
    BY <2>1
  <2> DEFINE q == Listas!ConBusqueda(Listas!Pedido(op, id, datos))
  <2>3. q.viva = TRUE /\ q.op = op /\ q.tras = LTras(vista)
    BY DEF Listas!Pedido, Listas!ConBusqueda, Listas!Tras, LTras
  <2> HIDE DEF q
  <2>4. /\ dudosa # TRUE /\ srv' = srv /\ vuelta' = vuelta /\ ida' = ida \o <<q>> /\ vista' = w
        /\ Listas!EnVuelo({"obtener", "masivo"}) = 0
    BY <2>2 DEF Listas!Cambia, Listas!Toque, Listas!Tropiezo, q
  <2>5. Suya(q) /\ vista'.detalle = Nada
    BY <2>2, <2>3, <2>4 DEF LC
  <2>6. EnVuelo(LD) = 0
    BY <2>4 DEF Listas!EnVuelo, EnVuelo, Listas!Cardinality, Cardinality, LD
  <2>7. /\ \A k \in DOMAIN ida : ida[k].op \notin LD
        /\ \A k \in DOMAIN vuelta : vuelta[k].q.op \notin LD
    BY <1>1, <2>4, <2>6, NadieVuela
  <2> QED BY <1>3, <2>5, <2>7
<1>8. ASSUME NEW v, LCampos(v), v.filtro \in {Listas!Todas, Listas!Buscado}, v.detalle = Nada,
             NEW q, q.viva = TRUE, q.op = "listar", q.tras = "", q.datos = v.filtro,
             vista' = v, ida' = <<q>>, vuelta' = <<>>
      PROVE  LFiel(vista', srv', ida', vuelta')
  <2>1. Vivas(<<q>>, <<>>) /\ DOMAIN <<>> = {}
    BY <1>8, VivasUna, SucesionUna
  <2>2. LTabla(v, srv', <<q>>, <<>>)
    BY <1>8, LTablaMonta
  <2>3. LDetalle(v, srv', <<q>>, <<>>)
    BY <1>8, LDetalleMonta
  <2> DEFINE p == <<q>>
             e == <<>>
  <2>4. Vivas(p, e) /\ DOMAIN e = {} /\ LTabla(v, srv', p, e) /\ LDetalle(v, srv', p, e)
    BY <2>1, <2>2, <2>3
  <2>5. ida' = p /\ vuelta' = e
    BY <1>8
  <2> HIDE DEF p, e
  <2> QED BY <1>8, <2>4, <2>5 DEF LFiel, LTiene, LBusca
<1>9. CASE Listas!Montar(Listas!VistaInicial, Listas!Listar(Listas!Todas))
  <2> DEFINE q == Listas!Pedido("listar", Listas!Nadie, Listas!Todas)
             v == Listas!VistaInicial
  <2>1. /\ ida' = Huerfanos(ida) \o <<q>> /\ vuelta' = HuerfanasDe(vuelta)
        /\ ida = <<>> /\ vuelta = <<>> /\ vista' = v
    BY <1>9 DEF Listas!Montar, Listas!Huerfanos, Huerfanos, Listas!Listar,
       Listas!HuerfanasDe, HuerfanasDe, Listas!EnReposo
  <2>2. ida' = <<q>> /\ vuelta' = <<>>
    <3> HIDE DEF q
    <3> QED BY <2>1, NadieEnReposo
  <2>3. /\ q.viva = TRUE /\ q.op = "listar" /\ q.tras = "" /\ q.datos = Listas!Todas
        /\ LCampos(v) /\ v.filtro = Listas!Todas /\ v.detalle = Nada
    BY DEF Listas!Pedido, Listas!VistaInicial, LCampos
  <2> HIDE DEF q, v
  <2> QED BY <1>8, <2>1, <2>2, <2>3
<1>10. CASE Listas!Buscar
  <2> DEFINE w(f) == [vista EXCEPT !.filtro = f, !.cargando = TRUE]
             q(f) == Listas!Pedido("listar", Listas!Nadie, f)
  <2>1. PICK f \in {Listas!Todas, Listas!Buscado} :
             /\ Listas!EnVuelo({"crear", "actualizar", "eliminar", "masivo"}) = 0
             /\ Listas!Recarga(w(f), <<q(f)>>)
    BY <1>10 DEF Listas!Buscar, Listas!Listar, Listas!Tropiezo
  <2> DEFINE q1 == q(f)
  <2>2. q1.viva = TRUE /\ q1.op = "listar" /\ q1.tras = "" /\ q1.datos = f
    BY DEF Listas!Pedido
  <2>3. /\ vista' = w(f) /\ ida' = ida \o <<q1>> /\ srv' = srv /\ vuelta' = vuelta
        /\ dudosa # TRUE \/ (ida = <<>> /\ vuelta = <<>>)
    BY <2>1 DEF Listas!Recarga, Listas!EnReposo
  <2> HIDE DEF q, q1
  <2>4. LCampos(vista') /\ vista'.filtro = f /\ vista'.detalle = vista.detalle /\ vista'.listas = vista.listas
    BY <1>1, <2>3 DEF LCampos
  <2>5. vista.detalle = Nada
    BY <1>10 DEF Listas!Buscar, Listas!EnTabla
  <2>6. CASE ida = <<>> /\ vuelta = <<>>
    <3>1. ida' = <<q1>> /\ vuelta' = <<>>
      BY <2>3, <2>6, NadieEnReposo
    <3> QED BY <1>8, <2>2, <2>4, <2>5, <3>1
  <2>7. CASE dudosa # TRUE
    <3> DEFINE u == ida \o <<q1>>
    <3>1. EnVuelo(LM) = 0
      BY <2>1 DEF Listas!EnVuelo, EnVuelo, Listas!Cardinality, Cardinality, LM
    <3>2. /\ \A k \in DOMAIN ida : ida[k].op \notin LM
          /\ \A k \in DOMAIN vuelta : vuelta[k].q.op \notin LM
      BY <1>1, <2>7, <3>1, NadieVuela
    <3>3. Vivas(u, vuelta)
      BY <1>1, <2>2, <2>7, VivasUna, VivasPide
    <3>4. LTabla(vista', srv, u, vuelta)
      BY <1>1, <2>2, <2>4, <2>7, <3>2, LTablaBusca
    <3>5. LDetalle(vista', srv, u, vuelta)
      <4>1. /\ Vivas(ida, vuelta) /\ LDetalle(vista, srv, ida, vuelta) /\ q1.viva = TRUE
            /\ vista'.detalle \in {vista.detalle, Nada} /\ LSinDetalle(vista', ida, vuelta, q1)
        BY <1>1, <2>2, <2>4, <2>7 DEF LC, LSinDetalle
      <4>2. LDetalle(vista', srv, ida, vuelta)
        BY <4>1, LDetalleToca
      <4> QED BY <4>1, <4>2, LDetallePide
    <3> HIDE DEF u
    <3> QED BY <1>1, <2>3, <2>4, <2>7, <3>3, <3>4, <3>5 DEF LFiel, LTiene, LBusca, u
  <2> QED BY <2>3, <2>6, <2>7
<1>11. ASSUME NEW i, Listas!Responde(i) \/ Listas!Recibe(i) PROVE LFiel(vista', srv', ida', vuelta')
  BY <1>11, LFielResponde, LFielRecibe
<1> QED BY <1>4, <1>5, <1>6, <1>7, <1>9, <1>10, <1>11 DEF Listas!Next

LEMMA ListasFielEmpieza == Listas!Init => ListasFiel
<1> SUFFICES ASSUME Listas!Init PROVE ListasFiel
  OBVIOUS
<1> DEFINE q == Listas!Pedido("listar", Listas!Nadie, Listas!Todas)
           v == Listas!VistaInicial
<1>1. ida = <<q>> /\ vuelta = <<>> /\ vista = v
  BY DEF Listas!Init, Listas!PeticionesInit, Listas!Listar
<1>2. /\ q.viva = TRUE /\ q.op = "listar" /\ q.tras = "" /\ q.datos = Listas!Todas
      /\ LCampos(v) /\ v.filtro = Listas!Todas /\ v.detalle = Nada
  BY DEF Listas!Pedido, Listas!VistaInicial, LCampos
<1>3. LFilas(srv)
  <2> DEFINE y == [n \in {CHOOSE a \in Articulos : TRUE} |-> CHOOSE d \in Descuentos : TRUE]
             z == [nombre |-> CHOOSE n \in Nombres : TRUE, items |-> y]
             s == <<z>>
  <2>1. srv = s
    BY DEF Listas!Init
  <2>2. LEsFila(z)
    BY DEF LEsFila
  <2>3. DOMAIN s = {1} /\ s[1] = z
    BY SucesionUna
  <2> HIDE DEF s, z
  <2> QED BY <2>1, <2>2, <2>3 DEF LFilas
<1> HIDE DEF q, v
<1>4. LTabla(v, srv, <<q>>, <<>>) /\ LDetalle(v, srv, <<q>>, <<>>)
  BY <1>2, LTablaMonta, LDetalleMonta
<1>5. Vivas(ida, vuelta) /\ DOMAIN vuelta = {}
  BY <1>1, <1>2, VivasUna, SucesionUna
<1>6. LTabla(vista, srv, ida, vuelta) /\ LDetalle(vista, srv, ida, vuelta)
  BY <1>1, <1>4
<1> QED BY <1>1, <1>2, <1>3, <1>5, <1>6 DEF ListasFiel, LFiel, LTiene, LBusca

LEMMA ListasFielDice == ListasFiel /\ EnReposo /\ dudosa # TRUE => Listas!Mostrado
<1> SUFFICES ASSUME LFiel(vista, srv, <<>>, <<>>) PROVE Listas!Mostrado
  BY DEF ListasFiel, EnReposo
<1> DEFINE e == <<>>
           v == vista
<1>1. DOMAIN e = {} /\ LTabla(v, srv, e, e) /\ LDetalle(v, srv, e, e)
  BY SucesionUna DEF LFiel
<1>2. LMuestra(v, srv)
  <2>1. Fresca(e, e, LCanal, LMuestra(v, srv), {Listas!Coinciden(srv, v.filtro)})
    BY <1>1 DEF LTabla
  <2> QED BY <2>1, FrescaEnReposo
<1> HIDE DEF e
<1>3. v.detalle # Nada => v.detalle.id \in DOMAIN srv /\ LBuena(v.detalle, srv)
  BY <1>1 DEF LDetalle, LSostenida, LRenueva
<1> QED BY <1>2, <1>3 DEF Listas!Mostrado, LMuestra, LBuena

LEMMA ListasFielQuieta == ListasFiel /\ UNCHANGED vars => ListasFiel'
<1> SUFFICES ASSUME ListasFiel, UNCHANGED vars PROVE ListasFiel'
  OBVIOUS
<1>1. vista' = vista /\ srv' = srv /\ ida' = ida /\ vuelta' = vuelta /\ dudosa' = dudosa
  BY DEF vars
<1>2. LFilas(srv) /\ LCampos(vista) /\ (dudosa # TRUE => LFiel(vista, srv, ida, vuelta))
  BY DEF ListasFiel
<1>3. LFilas(srv') /\ LCampos(vista') /\ (dudosa' # TRUE => LFiel(vista', srv', ida', vuelta'))
  BY <1>1, <1>2
<1> QED BY <1>3 DEF ListasFiel

-----------------------------------------------------------------------------
(* The purchases, in their three pages: the rows of a filter, which the    *)
(* page changes itself, and one purchase with its payments.                *)

KC == {"estado", "eliminar"}
KListas == Canal({"listar"}, {}, {"listar"}, {}, <<"campo", "filas">>)
KDe(op, i) == Canal({}, {}, {}, {<<op, i>>}, <<"todo">>)
KDetalles(i) == Canal({}, {}, {}, {<<"obtener", i>>, <<"estadoDetalle", i>>}, <<"todo">>)

KFila(r) == r = [estado |-> r.estado, total |-> r.total, pagado |-> r.pagado]
KBanco(s) == \A i \in DOMAIN s : KFila(s[i])
KIgual(x, y) == x = [estado |-> x.estado, total |-> y.total, pagado |-> y.pagado]
KEntra(filtro, r) == filtro \in {Compras!Todas, r.estado}

\* Each of the three pages asks for what is its own; only the detail has a purchase.
KOps(ruta) ==
    IF ruta = "lista" THEN {"listar"} \cup KC
    ELSE IF ruta = "nueva" THEN {"crear"} ELSE {"obtener", "estadoDetalle"}
KCampos(v) == {"ruta", "filas", "filtro", "compra", "id"} \subseteq DOMAIN v
KVista(v) ==
    KCampos(v) /\ v.ruta \in {"lista", "nueva", "detalle"} /\ (v.ruta # "detalle" => v.compra = Nada)
KSuyas(v, a, b) ==
    /\ \A k \in DOMAIN a : a[k].viva # FALSE => a[k].op \in KOps(v.ruta)
    /\ \A k \in DOMAIN b : b[k].q.viva # FALSE => b[k].q.op \in KOps(v.ruta)

\* The rows, when no list is on its way: what is missing to them is in the answers.
KBorrada(b, i) == \E k \in DOMAIN b : b[k].ok = TRUE /\ b[k].q.op = "eliminar" /\ b[k].q.id = i
KTal(v, s, i) == i \in DOMAIN v.filas => v.filas[i] = s[i]
KRenglones(v, s, b) ==
    /\ v.filas = [i \in DOMAIN v.filas |-> v.filas[i]]
    /\ \A i \in DOMAIN v.filas : i \in DOMAIN s \/ KBorrada(b, i)
    /\ \A i \in DOMAIN v.filas : KFila(v.filas[i]) /\ KEntra(v.filtro, v.filas[i])
    /\ \A i \in DOMAIN s : ~KBorrada(b, i)
    /\ \A i \in DOMAIN s : i \in DOMAIN v.filas => KIgual(v.filas[i], s[i])
    /\ \A i \in DOMAIN s : KEntra(v.filtro, s[i]) => i \in DOMAIN v.filas
KPedidas(v, s, a) == \A k \in DOMAIN a : a[k].op = "estado" /\ a[k].id \in DOMAIN s => a[k].id \in DOMAIN v.filas
KFrescas(v, s, a, b) == \A i \in DOMAIN s : Fresca(a, b, KDe("estado", i), KTal(v, s, i), {s[i]})
KFilas(v, s, a, b) == KRenglones(v, s, b) /\ KPedidas(v, s, a) /\ KFrescas(v, s, a, b)

KLista(v, s, a, b) ==
    /\ Orden(a, b, {"listar"}, KC, FALSE)
    /\ Encargada(a, {"listar"}, {<<v.filtro, Nada>>})
    /\ Fresca(a, b, KListas, KFilas(v, s, a, b), {Compras!DelEstado(s, v.filtro)})

KCompra(v, s) == v.compra # Nada => v.id \in DOMAIN s /\ v.compra = s[v.id]
KDetalle(v, s, a, b) ==
    /\ v.compra # Nada => v.id \in DOMAIN s /\ KIgual(v.compra, s[v.id])
    /\ \A k \in DOMAIN a : a[k].id = v.id
    /\ \A k \in DOMAIN b : b[k].q.id = v.id
    /\ \A k \in DOMAIN b : b[k].ok = TRUE /\ b[k].q.op = "obtener" => v.id \in DOMAIN s /\ KIgual(b[k].datos, s[v.id])
    /\ Fresca(a, b, KDetalles(v.id), KCompra(v, s), {s[v.id]})

KFiel(v, s, a, b) ==
    /\ Vivas(a, b) /\ \A k \in DOMAIN b : b[k].ok \in BOOLEAN
    /\ v.ruta = "lista" => KLista(v, s, a, b)
    /\ v.ruta = "detalle" => KDetalle(v, s, a, b)
ComprasFiel ==
    /\ KBanco(srv) /\ KVista(vista) /\ KSuyas(vista, ida, vuelta)
    /\ dudosa # TRUE => KFiel(vista, srv, ida, vuelta)

LEMMA KHabla ==
    ASSUME NEW m
    PROVE  /\ KListas.pide = {"listar"} /\ KListas.relee = {}
           /\ Habla(m, KListas) <=> m.q.op = "listar"
           /\ Dicho(m, KListas.dato) = m.datos["filas"]
BY DEF KListas, Canal, Habla, Dicho

LEMMA KCanalDe ==
    ASSUME NEW op, NEW i
    PROVE  KDe(op, i).pide = {} /\ KDe(op, i).relee = {}
BY DEF KDe, Canal
LEMMA KHablaDe ==
    ASSUME NEW m, NEW op, NEW i
    PROVE  Habla(m, KDe(op, i)) <=> m.ok = TRUE /\ m.q.op = op /\ m.q.id = i
BY DEF KDe, Canal, Habla
LEMMA KDichoDe ==
    ASSUME NEW m, NEW op, NEW i
    PROVE  Dicho(m, KDe(op, i).dato) = m.datos
BY DEF KDe, Canal, Dicho

LEMMA KCanalDetalle ==
    ASSUME NEW i
    PROVE  KDetalles(i).pide = {} /\ KDetalles(i).relee = {}
BY DEF KDetalles, Canal
LEMMA KHablaDetalle ==
    ASSUME NEW m, NEW i
    PROVE  Habla(m, KDetalles(i)) <=> m.ok = TRUE /\ m.q.op \in {"obtener", "estadoDetalle"} /\ m.q.id = i
BY DEF KDetalles, Canal, Habla
LEMMA KDichoDetalle ==
    ASSUME NEW m, NEW i
    PROVE  Dicho(m, KDetalles(i).dato) = m.datos
BY DEF KDetalles, Canal, Dicho

KCambia(s, q, r) ==
    /\ q.id \in DOMAIN s /\ DOMAIN r.srv = DOMAIN s /\ r.datos = r.srv[q.id]
    /\ \A x \in DOMAIN s : KIgual(s[x], r.srv[x]) /\ (x # q.id => r.srv[x] = s[x])
KQuita(s, q, r) == DOMAIN r.srv = DOMAIN s \ {q.id} /\ \A x \in DOMAIN r.srv : r.srv[x] = s[x]
KSalida(s, q, r) ==
    /\ KBanco(r.srv) /\ r.ok \in BOOLEAN
    /\ r.ok # TRUE => r.srv = s
    /\ q.op = "listar" => r.ok = TRUE /\ r.srv = s /\ r.datos["filas"] = Compras!DelEstado(s, q.tras)
    /\ q.op = "obtener" => r.srv = s /\ (r.ok = TRUE => q.id \in DOMAIN s /\ r.datos = s[q.id])
    /\ q.op \in {"estado", "estadoDetalle"} /\ r.ok = TRUE => KCambia(s, q, r)
    /\ q.op = "eliminar" /\ r.ok = TRUE => KQuita(s, q, r)

LEMMA KBancoDe ==
    ASSUME NEW s, KBanco(s), NEW q, q.op \in KO
    PROVE  KSalida(s, q, Compras!Servidor(s, q))
<1> DEFINE r == Compras!Servidor(s, q)
<1> USE DEF Compras!Servidor, Compras!Acepta, Compras!Rechaza
<1>1. CASE q.op = "listar"
  <2>1. r = [srv |-> s, ok |-> TRUE, datos |-> [filas |-> Compras!DelEstado(s, q.tras)]]
    BY <1>1
  <2> HIDE DEF r
  <2>2. KSalida(s, q, r)
    BY <1>1, <2>1 DEF KSalida
  <2> QED BY <2>2 DEF r
<1>2. ASSUME r.srv = s, r.ok = FALSE, q.op # "listar" PROVE KSalida(s, q, r)
  <2> HIDE DEF r
  <2> QED BY <1>2 DEF KSalida
<1>3. CASE q.op \notin {"listar", "crear"} /\ q.id \notin DOMAIN s
  <2>1. r = [srv |-> s, ok |-> FALSE, datos |-> Nada]
    BY <1>3
  <2> HIDE DEF r
  <2> QED BY <1>2, <1>3, <2>1
<1>4. CASE q.op = "crear"
  <2> DEFINE y == Compras!Creada(q.datos)
             t == Compras!Poner(s, Compras!Nuevo(s), y)
  <2>1. r \in {[srv |-> t, ok |-> TRUE, datos |-> Nada], [srv |-> s, ok |-> FALSE, datos |-> Nada]}
    BY <1>4
  <2>2. KFila(y)
    BY DEF Compras!Creada, KFila
  <2> HIDE DEF y
  <2>3. KBanco(t)
    BY <2>2 DEF Compras!Poner, KBanco
  <2> HIDE DEF t, r
  <2>4. ASSUME r = [srv |-> t, ok |-> TRUE, datos |-> Nada] PROVE KSalida(s, q, r)
    <3>1. r.srv = t /\ r.ok = TRUE
      BY <2>4
    <3> QED BY <1>4, <2>3, <3>1 DEF KSalida
  <2>5. ASSUME r = [srv |-> s, ok |-> FALSE, datos |-> Nada] PROVE KSalida(s, q, r)
    <3>1. r.srv = s /\ r.ok = FALSE
      BY <2>5
    <3> QED BY <1>2, <1>4, <3>1 DEF r
  <2> QED BY <2>1, <2>4, <2>5 DEF r
<1>5. CASE q.op = "obtener" /\ q.id \in DOMAIN s
  <2>1. r = [srv |-> s, ok |-> TRUE, datos |-> s[q.id]]
    BY <1>5
  <2> HIDE DEF r
  <2>2. KSalida(s, q, r)
    BY <1>5, <2>1 DEF KSalida
  <2> QED BY <2>2 DEF r
<1>6. CASE q.op \in {"estado", "estadoDetalle"} /\ q.id \in DOMAIN s
  <2> DEFINE t == [s EXCEPT ![q.id].estado = q.tras]
  <2>1. r = [srv |-> t, ok |-> TRUE, datos |-> t[q.id]]
    BY <1>6
  <2>2. ASSUME NEW x \in DOMAIN s
        PROVE  x \in DOMAIN t /\ KFila(t[x]) /\ KIgual(s[x], t[x]) /\ (x # q.id => t[x] = s[x])
    <3>1. KFila(s[x])
      BY DEF KBanco
    <3> QED BY <3>1 DEF KFila, KIgual
  <2>3. DOMAIN t = DOMAIN s
    OBVIOUS
  <2> HIDE DEF t, r
  <2>4. KBanco(t) /\ KCambia(s, q, r)
    BY <1>6, <2>1, <2>2, <2>3 DEF KBanco, KCambia
  <2>5. KSalida(s, q, r)
    BY <1>6, <2>1, <2>4 DEF KSalida
  <2> QED BY <2>5 DEF r
<1>7. CASE q.op = "eliminar" /\ q.id \in DOMAIN s
  <2> DEFINE t == [i \in DOMAIN s \ {q.id} |-> s[i]]
  <2>1. r = [srv |-> t, ok |-> TRUE, datos |-> Nada]
    BY <1>7
  <2>2. KBanco(t) /\ DOMAIN t = DOMAIN s \ {q.id} /\ \A x \in DOMAIN t : t[x] = s[x]
    BY DEF KBanco
  <2> HIDE DEF t, r
  <2>3. KSalida(s, q, r)
    BY <1>7, <2>1, <2>2 DEF KSalida, KQuita
  <2> QED BY <2>3 DEF r
<1> QED BY <1>1, <1>3, <1>4, <1>5, <1>6, <1>7 DEF KO

LEMMA KMisma ==
    /\ \A x, y, z : KIgual(x, y) /\ KIgual(y, z) => KIgual(x, z)
    /\ \A x, y : KIgual(x, y) /\ KFila(y) /\ x.estado = y.estado => x = y
    /\ \A x : KFila(x) => KIgual(x, x)
BY DEF KIgual, KFila

-----------------------------------------------------------------------------
\* The rows.
LEMMA KListaToma ==
    ASSUME NEW v, NEW s, KBanco(s), NEW a, NEW b, Vivas(a, b), 1 \in DOMAIN a, NEW r, KSalida(s, a[1], r),
           a[1].op \in KC, NEW m, m = [q |-> a[1], ok |-> r.ok, datos |-> r.datos], KFilas(v, s, a, b)
    PROVE  KFilas(v, r.srv, Sin(a, 1), Append(b, m))
<1> DEFINE q == a[1]
           s1 == r.srv
           a1 == Sin(a, 1)
           b1 == Append(b, m)
<1>1. m.q = q /\ m.ok = r.ok /\ m.datos = r.datos
  OBVIOUS
<1>2. /\ r.ok \in BOOLEAN /\ (r.ok # TRUE => s1 = s)
      /\ q.op = "estado" /\ r.ok = TRUE => KCambia(s, q, r)
      /\ q.op = "eliminar" /\ r.ok = TRUE => KQuita(s, q, r)
  <2>1. KSalida(s, q, r)
    OBVIOUS
  <2> HIDE DEF q
  <2> QED BY <2>1 DEF KSalida
<1>3. /\ \A k \in DOMAIN b : k \in DOMAIN b1 /\ b1[k] = b[k]
      /\ \E k \in DOMAIN b1 : b1[k] = m
      /\ Salen(b1, b, {m}) /\ Salen(a1, a, {})
  <2>1. Sucesion(a) /\ Sucesion(b)
    BY DEF Vivas
  <2>2. Salen(b1, b, {m}) /\ Salen(a1, a, {})
    BY <2>1, SalenDe
  <2>3. /\ Len(b) \in Nat /\ DOMAIN b = 1 .. Len(b) /\ DOMAIN b1 = 1 .. Len(b) + 1
        /\ \A k \in 1 .. Len(b) : b1[k] = b[k]
        /\ b1[Len(b) + 1] = m
    BY <2>1, UnoMas
  <2>4. Len(b) + 1 \in DOMAIN b1
    BY <2>3
  <2> HIDE DEF b1
  <2> QED BY <2>2, <2>3, <2>4
<1>4. KRenglones(v, s, b) /\ KPedidas(v, s, a) /\ KFrescas(v, s, a, b)
  BY DEF KFilas
<1>5. q.op \in KC
  OBVIOUS
<1> HIDE DEF a1, b1, s1, q
<1>6. \A i : KBorrada(b1, i) <=> KBorrada(b, i) \/ (m.ok = TRUE /\ q.op = "eliminar" /\ q.id = i)
  <2> TAKE i
  <2>1. KBorrada(b, i) => KBorrada(b1, i)
    BY <1>3 DEF KBorrada
  <2>2. m.ok = TRUE /\ q.op = "eliminar" /\ q.id = i => KBorrada(b1, i)
    BY <1>1, <1>3 DEF KBorrada
  <2>3. KBorrada(b1, i) => KBorrada(b, i) \/ (m.ok = TRUE /\ q.op = "eliminar" /\ q.id = i)
    BY <1>1, <1>3 DEF KBorrada, Salen
  <2> QED BY <2>1, <2>2, <2>3
<1>7. ASSUME NEW i \in DOMAIN s1
      PROVE  /\ i \in DOMAIN s /\ KIgual(s[i], s1[i])
             /\ s1[i] = s[i] \/ (m.ok = TRUE /\ q.op = "estado" /\ q.id = i /\ m.datos = s1[i])
             /\ ~(m.ok = TRUE /\ q.op = "eliminar" /\ q.id = i)
  <2>1. \A x \in DOMAIN s : KIgual(s[x], s[x])
    BY KMisma DEF KBanco
  <2>2. CASE r.ok # TRUE
    BY <1>1, <1>2, <1>7, <2>1, <2>2
  <2>3. CASE r.ok = TRUE /\ q.op = "estado"
    BY <1>1, <1>2, <1>7, <2>3 DEF KCambia, s1
  <2>4. CASE r.ok = TRUE /\ q.op = "eliminar"
    BY <1>1, <1>2, <1>7, <2>1, <2>4 DEF KQuita, s1
  <2> QED BY <1>2, <1>5, <2>2, <2>3, <2>4 DEF KC
<1>8. ASSUME NEW i \in DOMAIN s, i \notin DOMAIN s1
      PROVE  m.ok = TRUE /\ q.op = "eliminar" /\ q.id = i
  BY <1>1, <1>2, <1>5, <1>8 DEF KC, KCambia, KQuita, s1
<1>9. KRenglones(v, s1, b1)
  <2>1. \A i \in DOMAIN s1 : ~KBorrada(b1, i)
    BY <1>4, <1>6, <1>7 DEF KRenglones
  <2>2. \A i \in DOMAIN v.filas : i \in DOMAIN s1 \/ KBorrada(b1, i)
    BY <1>4, <1>6, <1>8 DEF KRenglones
  <2>3. \A i \in DOMAIN s1 : i \in DOMAIN v.filas => KIgual(v.filas[i], s1[i])
    BY <1>4, <1>7, KMisma DEF KRenglones
  <2>4. \A i \in DOMAIN s1 : KEntra(v.filtro, s1[i]) => i \in DOMAIN v.filas
    <3> SUFFICES ASSUME NEW i \in DOMAIN s1, KEntra(v.filtro, s1[i]) PROVE i \in DOMAIN v.filas
      OBVIOUS
    <3>1. CASE s1[i] = s[i]
      BY <1>4, <1>7, <3>1 DEF KRenglones
    <3>2. CASE q.op = "estado" /\ q.id = i
      <4>1. 1 \in DOMAIN a /\ a[1].op = "estado" /\ a[1].id \in DOMAIN s
        BY <1>7, <3>2 DEF q
      <4> QED BY <1>4, <3>2, <4>1 DEF KPedidas, q
    <3> QED BY <1>7, <3>1, <3>2
  <2> QED BY <1>4, <2>1, <2>2, <2>3, <2>4 DEF KRenglones
<1>10. KPedidas(v, s1, a1)
  <2>1. DOMAIN s1 \subseteq DOMAIN s
    BY <1>7
  <2>2. \A k \in DOMAIN a1 : \E j \in DOMAIN a : a1[k] = a[j]
    BY <1>3 DEF Salen
  <2> QED BY <1>4, <2>1, <2>2 DEF KPedidas
<1>11. ASSUME NEW i \in DOMAIN s1 PROVE Fresca(a1, b1, KDe("estado", i), KTal(v, s1, i), {s1[i]})
  <2> DEFINE c == KDe("estado", i)
             P == KTal(v, s, i)
             P1 == KTal(v, s1, i)
             Y == {s[i]}
             Y1 == {s1[i]}
             ok == r.ok
             d == r.datos
  <2>1. /\ c.pide = {} /\ c.relee = {}
        /\ Habla(m, c) <=> m.ok = TRUE /\ q.op = "estado" /\ q.id = i
        /\ Dicho(m, c.dato) = m.datos
    <3>1. Habla(m, c) <=> m.ok = TRUE /\ m.q.op = "estado" /\ m.q.id = i
      BY KHablaDe
    <3>2. Dicho(m, c.dato) = m.datos
      BY KDichoDe
    <3>3. c.pide = {} /\ c.relee = {}
      BY KCanalDe
    <3> HIDE DEF c
    <3> QED BY <1>1, <3>1, <3>2, <3>3
  <2>2. Fresca(a, b, c, P, Y)
    BY <1>4, <1>7, <1>11 DEF KFrescas
  <2>3. s1[i] = s[i] => (P => P1) /\ Y \subseteq Y1
    BY <1>7, <1>11 DEF KTal
  <2>4. Habla(m, c) => ok = TRUE /\ Dicho(m, c.dato) \in Y1
    <3>1. ASSUME q.op = "estado", r.ok = TRUE, q.id = i PROVE m.datos = s1[i]
      BY <1>1, <1>2, <3>1 DEF KCambia, s1
    <3> QED BY <1>1, <2>1, <3>1
  <2>5. ~Habla(m, c) => s1[i] = s[i]
    BY <1>7, <1>11, <2>1
  <2>6. m = [q |-> a[1], ok |-> ok, datos |-> d]
    OBVIOUS
  <2> HIDE DEF c, P, P1, Y, Y1, ok, d
  <2>7. ASSUME Habla(m, c) PROVE Fresca(a1, b1, c, P1, Y1)
    BY <2>4, <2>6, <2>7, TomaDice DEF a1, b1
  <2>8. ASSUME ~Habla(m, c) PROVE Fresca(a1, b1, c, P1, Y1)
    <3>1. a[1].op \notin c.pide /\ (P => P1) /\ Y \subseteq Y1
      BY <2>1, <2>3, <2>5, <2>8
    <3> QED BY <2>2, <2>6, <2>8, <3>1, TomaSigue DEF a1, b1
  <2>9. Fresca(a1, b1, c, P1, Y1)
    BY <2>7, <2>8
  <2> QED BY <2>9 DEF c, P1, Y1
<1> QED BY <1>9, <1>10, <1>11 DEF KFilas, KFrescas, a1, b1, s1

KEfecto(v, m, w) ==
    /\ w.filtro = v.filtro
    /\ \/ w.filas = v.filas /\ (m.ok # TRUE \/ (m.q.op = "estado" /\ m.q.id \notin DOMAIN v.filas))
       \/ /\ m.ok = TRUE /\ m.q.op = "estado" /\ m.q.id \in DOMAIN v.filas
          /\ w.filas = [v.filas EXCEPT ![m.q.id].estado = m.datos.estado]
          /\ KEntra(v.filtro, m.datos)
       \/ /\ m.ok = TRUE /\ m.q.op = "eliminar"
          /\ w.filas = [i \in DOMAIN v.filas \ {m.q.id} |-> v.filas[i]]

LEMMA KListaLlega ==
    ASSUME NEW v, NEW s, KBanco(s), NEW a, NEW b, Vivas(a, b), 1 \in DOMAIN b, KFilas(v, s, a, b),
           NEW w, KEfecto(v, b[1], w)
    PROVE  KFilas(w, s, a, Sin(b, 1))
<1> DEFINE m == b[1]
           b1 == Sin(b, 1)
           n == m.q.id
           f == v.filas
           g == w.filas
<1>1. KRenglones(v, s, b) /\ KPedidas(v, s, a) /\ KFrescas(v, s, a, b)
  BY DEF KFilas
<1>2. /\ \A k \in DOMAIN b1 : \E j \in DOMAIN b : b1[k] = b[j]
      /\ \A k \in DOMAIN b : k # 1 => \E j \in DOMAIN b1 : b1[j] = b[k]
  <2>1. Sucesion(b)
    BY DEF Vivas
  <2>2. /\ Len(b) \in Nat \ {0} /\ DOMAIN b = 1 .. Len(b) /\ DOMAIN b1 = 1 .. Len(b) - 1
        /\ \A k \in 1 .. Len(b) - 1 : b1[k] = b[k + 1]
    BY <2>1, PrimeroSale
  <2> HIDE DEF b1
  <2>3. ASSUME NEW k \in DOMAIN b, k # 1 PROVE \E j \in DOMAIN b1 : b1[j] = b[k]
    <3>1. k - 1 \in DOMAIN b1 /\ b1[k - 1] = b[k]
      BY <2>2, <2>3
    <3> QED BY <3>1
  <2>4. ASSUME NEW k \in DOMAIN b1 PROVE \E j \in DOMAIN b : b1[k] = b[j]
    <3>1. k + 1 \in DOMAIN b /\ b1[k] = b[k + 1]
      BY <2>2
    <3> QED BY <3>1
  <2> QED BY <2>3, <2>4
<1>3. /\ w.filtro = v.filtro /\ g = [i \in DOMAIN g |-> g[i]]
      /\ \A i \in DOMAIN g : /\ i \in DOMAIN f
                             /\ g[i] = f[i] \/ (/\ m.ok = TRUE /\ m.q.op = "estado" /\ n = i
                                                /\ g[i] = [f[i] EXCEPT !.estado = m.datos.estado]
                                                /\ KEntra(v.filtro, m.datos))
      /\ \A i \in DOMAIN f : i \in DOMAIN g \/ (m.ok = TRUE /\ m.q.op = "eliminar" /\ n = i)
      /\ m.ok = TRUE /\ m.q.op = "eliminar" => n \notin DOMAIN g
      /\ m.ok = TRUE /\ m.q.op = "estado" /\ n \in DOMAIN g => g[n] = [f[n] EXCEPT !.estado = m.datos.estado]
  <2> HIDE DEF m
  <2>1. KEfecto(v, m, w) /\ f = [i \in DOMAIN f |-> f[i]]
    BY <1>1 DEF KRenglones, m
  <2>2. CASE g = f /\ (m.ok # TRUE \/ (m.q.op = "estado" /\ n \notin DOMAIN f))
    <3> HIDE DEF f, g, n
    <3>1. ~(m.ok = TRUE /\ m.q.op = "eliminar") /\ ~(m.ok = TRUE /\ m.q.op = "estado" /\ n \in DOMAIN g)
      BY <2>2
    <3>2. \A i \in DOMAIN g : i \in DOMAIN f /\ g[i] = f[i]
      BY <2>2
    <3>3. w.filtro = v.filtro /\ g = [i \in DOMAIN g |-> g[i]] /\ DOMAIN g = DOMAIN f
      BY <2>1, <2>2 DEF KEfecto
    <3> QED BY <3>1, <3>2, <3>3
  <2>3. CASE /\ m.ok = TRUE /\ m.q.op = "estado" /\ n \in DOMAIN f
             /\ g = [f EXCEPT ![n].estado = m.datos.estado]
             /\ KEntra(v.filtro, m.datos)
    <3>1. w.filtro = v.filtro
      BY <2>1 DEF KEfecto
    <3> HIDE DEF f, g, n
    <3>2. DOMAIN g = DOMAIN f /\ g = [i \in DOMAIN g |-> g[i]]
      BY <2>3
    <3>3. g[n] = [f[n] EXCEPT !.estado = m.datos.estado] /\ \A i \in DOMAIN f : i # n => g[i] = f[i]
      BY <2>3
    <3>4. ~(m.q.op = "eliminar")
      BY <2>3
    <3> QED BY <2>3, <3>1, <3>2, <3>3, <3>4
  <2>4. CASE m.ok = TRUE /\ m.q.op = "eliminar" /\ g = [i \in DOMAIN f \ {n} |-> f[i]]
    <3>1. w.filtro = v.filtro
      BY <2>1 DEF KEfecto
    <3> HIDE DEF f, g, n
    <3> QED BY <2>4, <3>1
  <2> QED BY <2>1, <2>2, <2>3, <2>4 DEF KEfecto
<1>4. \A i : KBorrada(b, i) => KBorrada(b1, i) \/ (m.ok = TRUE /\ m.q.op = "eliminar" /\ n = i)
  BY <1>2 DEF KBorrada
<1>5. \A i : KBorrada(b1, i) => KBorrada(b, i)
  BY <1>2 DEF KBorrada
<1>6. m.ok = TRUE /\ m.q.op = "eliminar" => n \notin DOMAIN s
  BY <1>1 DEF KRenglones, KBorrada
<1> HIDE DEF b1
<1>7. \A i \in DOMAIN s : i \in DOMAIN g => KIgual(g[i], s[i])
  <2> SUFFICES ASSUME NEW i \in DOMAIN s, i \in DOMAIN g PROVE KIgual(g[i], s[i])
    OBVIOUS
  <2>1. KIgual(f[i], s[i])
    BY <1>1, <1>3 DEF KRenglones
  <2> DEFINE x == f[i]
             y == g[i]
             z == s[i]
             e == m.datos.estado
  <2>2. y = x \/ y = [x EXCEPT !.estado = e]
    BY <1>3
  <2>3. KIgual(x, z)
    BY <2>1
  <2> HIDE DEF x, y, z, e
  <2>4. KIgual(y, z)
    BY <2>2, <2>3 DEF KIgual
  <2> QED BY <2>4 DEF y, z
<1>8. \A i \in DOMAIN g : KFila(g[i]) /\ KEntra(w.filtro, g[i])
  <2> SUFFICES ASSUME NEW i \in DOMAIN g PROVE KFila(g[i]) /\ KEntra(w.filtro, g[i])
    OBVIOUS
  <2>1. KFila(f[i]) /\ KEntra(v.filtro, f[i]) /\ w.filtro = v.filtro
    BY <1>1, <1>3 DEF KRenglones
  <2>2. CASE g[i] = f[i]
    BY <2>1, <2>2
  <2>3. CASE g[i] = [f[i] EXCEPT !.estado = m.datos.estado] /\ KEntra(v.filtro, m.datos)
    <3> DEFINE x == f[i]
               y == g[i]
               e == m.datos.estado
    <3>1. KFila(x) /\ y = [x EXCEPT !.estado = e] /\ v.filtro \in {Compras!Todas, e}
      BY <2>1, <2>3 DEF KEntra
    <3> HIDE DEF x, y, e
    <3>2. KFila(y) /\ y.estado = e
      BY <3>1 DEF KFila
    <3> QED BY <2>1, <3>1, <3>2 DEF KEntra, y
  <2> QED BY <1>3, <2>2, <2>3
<1>9. /\ \A i \in DOMAIN g : i \in DOMAIN s \/ KBorrada(b1, i)
      /\ \A i \in DOMAIN s : ~KBorrada(b1, i)
      /\ \A i \in DOMAIN s : KEntra(w.filtro, s[i]) => i \in DOMAIN g
  <2>1. \A i \in DOMAIN g : i \in DOMAIN s \/ KBorrada(b1, i)
    BY <1>1, <1>3, <1>4 DEF KRenglones
  <2>2. \A i \in DOMAIN s : ~KBorrada(b1, i)
    BY <1>1, <1>5 DEF KRenglones
  <2>3. \A i \in DOMAIN s : KEntra(w.filtro, s[i]) => i \in DOMAIN g
    BY <1>1, <1>3, <1>6 DEF KRenglones
  <2> QED BY <2>1, <2>2, <2>3
<1>10. KRenglones(w, s, b1)
  BY <1>3, <1>7, <1>8, <1>9 DEF KRenglones
<1>11. KPedidas(w, s, a)
  BY <1>1, <1>3, <1>6 DEF KPedidas
<1>12. ASSUME NEW i \in DOMAIN s PROVE Fresca(a, b1, KDe("estado", i), KTal(w, s, i), {s[i]})
  <2> DEFINE c == KDe("estado", i)
             P == KTal(v, s, i)
             P1 == KTal(w, s, i)
             Y == {s[i]}
             p == <<>>
  <2>1. Habla(m, c) <=> m.ok = TRUE /\ m.q.op = "estado" /\ m.q.id = i
    BY KHablaDe
  <2>2. Dicho(m, c.dato) = m.datos
    BY KDichoDe
  <2>3. c.pide = {} /\ c.relee = {}
    BY KCanalDe
  <2>4. Fresca(a, b, c, P, Y)
    BY <1>1 DEF KFrescas
  <2>5. Vivas(p, <<>>) /\ a \o p = a
    BY JuntoNada, VivasNada DEF Vivas
  <2>6. m.ok = TRUE => m.q.op \notin c.relee
    BY <2>3
  <2> HIDE DEF c, m
  <2>7. Habla(m, c) /\ m.ok = TRUE /\ Dicho(m, c.dato) \in Y => P1
    <3> SUFFICES ASSUME Habla(m, c), m.datos \in Y, i \in DOMAIN g PROVE g[i] = s[i]
      BY <2>2 DEF KTal
    <3>1. g[i] = [f[i] EXCEPT !.estado = m.datos.estado] /\ m.datos = s[i]
      BY <1>3, <2>1
    <3>2. KFila(f[i]) /\ KIgual(f[i], s[i]) /\ KFila(s[i])
      BY <1>1, <1>3 DEF KRenglones, KBanco
    <3> QED BY <3>1, <3>2 DEF KFila, KIgual
  <2>8. ~Habla(m, c) /\ P => P1
    <3> SUFFICES ASSUME ~Habla(m, c), P, i \in DOMAIN g PROVE g[i] = s[i]
      BY DEF KTal
    <3>1. i \in DOMAIN f /\ g[i] = f[i]
      BY <1>3, <2>1
    <3> QED BY <3>1 DEF KTal
  <2> HIDE DEF P, P1, Y, p
  <2>9. Fresca(a \o p, b1, c, P1, Y)
    BY <2>4, <2>5, <2>6, <2>7, <2>8, FrescaRecibe DEF b1, m
  <2> QED BY <2>5, <2>9 DEF c, P1, Y
<1> QED BY <1>10, <1>11, <1>12 DEF KFilas, KFrescas, b1

\* Nothing more is asked for than a change, of a row that is shown.
LEMMA KListaPide ==
    ASSUME NEW v, NEW s, NEW a, NEW b, Vivas(a, b), KFilas(v, s, a, b),
           NEW w, w.filas = v.filas, w.filtro = v.filtro,
           NEW q, q.viva = TRUE, q.op = "estado" => q.id \in DOMAIN v.filas
    PROVE  KFilas(w, s, a \o <<q>>, b)
<1> DEFINE p == <<q>>
           u == a \o p
<1>1. Sucesion(a) /\ Sucesion(p) /\ Salen(u, a, {q})
  BY PideUna, SalenDe DEF Vivas
<1>2. KRenglones(v, s, b) /\ KPedidas(v, s, a) /\ KFrescas(v, s, a, b)
  BY DEF KFilas
<1> HIDE DEF p
<1>3. ASSUME NEW i \in DOMAIN s PROVE Fresca(u, b, KDe("estado", i), KTal(w, s, i), {s[i]})
  <2> DEFINE c == KDe("estado", i)
             P == KTal(v, s, i)
             P1 == KTal(w, s, i)
             Y == {s[i]}
  <2>1. Fresca(a, b, c, P, Y) /\ (P => P1)
    BY <1>2 DEF KFrescas, KTal
  <2> HIDE DEF c, P, P1, Y
  <2>2. Fresca(u, b, c, P1, Y)
    BY <1>1, <2>1, FrescaPide
  <2> QED BY <2>2 DEF c, P1, Y
<1> HIDE DEF u
<1>4. KPedidas(w, s, u)
  BY <1>1, <1>2 DEF KPedidas, Salen
<1>5. KRenglones(w, s, b)
  BY <1>2 DEF KRenglones
<1> QED BY <1>3, <1>4, <1>5 DEF KFilas, KFrescas, u, p

LEMMA KListaToca ==
    ASSUME NEW v, NEW s, NEW a, NEW b, KFilas(v, s, a, b), NEW w, w.filas = v.filas, w.filtro = v.filtro
    PROVE  KFilas(w, s, a, b)
BY DEF KFilas, KRenglones, KPedidas, KFrescas, KTal

LEMMA KListaNueva ==
    ASSUME NEW w, NEW s, KBanco(s), NEW a, NEW b, w.filas = Compras!DelEstado(s, w.filtro),
           \A k \in DOMAIN a : a[k].op \notin KC, \A k \in DOMAIN b : b[k].q.op \notin KC
    PROVE  KFilas(w, s, a, b)
<1> DEFINE g == w.filas
<1>1. /\ g = [i \in DOMAIN g |-> g[i]]
      /\ \A i \in DOMAIN g : i \in DOMAIN s /\ g[i] = s[i] /\ KEntra(w.filtro, s[i])
      /\ \A i \in DOMAIN s : KEntra(w.filtro, s[i]) => i \in DOMAIN g
  BY DEF Compras!DelEstado, KEntra
<1>2. \A i : ~KBorrada(b, i)
  BY DEF KBorrada, KC
<1>3. \A i \in DOMAIN s : KFila(s[i]) /\ KIgual(s[i], s[i])
  BY KMisma DEF KBanco
<1>4. KRenglones(w, s, b) /\ KPedidas(w, s, a)
  BY <1>1, <1>2, <1>3 DEF KRenglones, KPedidas, KC
<1>5. ASSUME NEW i \in DOMAIN s PROVE Fresca(a, b, KDe("estado", i), KTal(w, s, i), {s[i]})
  <2>1. KTal(w, s, i)
    BY <1>1 DEF KTal
  <2>2. ASSUME NEW k \in DOMAIN b PROVE ~Habla(b[k], KDe("estado", i))
    <3> DEFINE m == b[k]
    <3>1. Habla(m, KDe("estado", i)) <=> m.ok = TRUE /\ m.q.op = "estado" /\ m.q.id = i
      BY KHablaDe
    <3> QED BY <3>1 DEF KC
  <2> QED BY <2>1, <2>2 DEF Fresca, Dice
<1> QED BY <1>4, <1>5 DEF KFilas, KFrescas

-----------------------------------------------------------------------------
\* The list.
KL == {"listar"}

LEMMA KTablaToma ==
    ASSUME NEW v, NEW s, KBanco(s), NEW a, NEW b, Vivas(a, b), KLista(v, s, a, b), 1 \in DOMAIN a, NEW r,
           KSalida(s, a[1], r), a[1].op \in KL \cup KC, NEW m, m = [q |-> a[1], ok |-> r.ok, datos |-> r.datos]
    PROVE  KLista(v, r.srv, Sin(a, 1), Append(b, m))
<1> DEFINE a1 == Sin(a, 1)
           b1 == Append(b, m)
           q == a[1]
           s1 == r.srv
           ok == r.ok
           d == r.datos
           P == KFilas(v, s, a, b)
           P1 == KFilas(v, s1, a1, b1)
           Y == {Compras!DelEstado(s, v.filtro)}
           Y1 == {Compras!DelEstado(s1, v.filtro)}
           T == {<<v.filtro, Nada>>}
<1>1. m.q = q /\ m.ok = ok /\ m.datos = d /\ m = [q |-> a[1], ok |-> ok, datos |-> d]
  OBVIOUS
<1>2. Sucesion(a) /\ Sucesion(b)
  BY DEF Vivas
<1>3. q.op = "listar" => ok = TRUE /\ s1 = s /\ d["filas"] = Compras!DelEstado(s, q.tras)
  <2>1. KSalida(s, q, r)
    OBVIOUS
  <2> HIDE DEF q
  <2> QED BY <2>1 DEF KSalida
<1>4. q.op \in KC => (P => P1)
  <2> SUFFICES ASSUME q.op \in KC, P PROVE P1
    OBVIOUS
  <2> QED BY KListaToma
<1>5. Orden(a, b, {"listar"}, KC, FALSE) /\ Encargada(a, {"listar"}, T) /\ Fresca(a, b, KListas, P, Y)
  BY DEF KLista
<1>6. Orden(a1, b1, {"listar"}, KC, FALSE)
  <2>1. m.q = a[1]
    OBVIOUS
  <2> QED BY <1>5, <2>1, OrdenToma
<1>7. Encargada(a1, {"listar"}, T) /\ (q.op = "listar" => Que(q) \in T \/ Hay(a1, {"listar"}))
  <2> HIDE DEF T
  <2> QED BY <1>2, <1>5, EncargadaToma
<1>8. q.op = "listar" /\ Que(q) \in T => d["filas"] \in Y1
  <2> SUFFICES ASSUME q.op = "listar", Que(q) \in T PROVE d["filas"] \in Y1
    OBVIOUS
  <2>1. q.tras = v.filtro
    BY DEF Que
  <2> QED BY <1>3, <2>1
<1>9. KListas.pide = {"listar"} /\ (Habla(m, KListas) <=> q.op = "listar") /\ Dicho(m, KListas.dato) = d["filas"]
  BY <1>1, KHabla
<1>10. q.op \in KC => \A k \in DOMAIN b : ~Habla(b[k], KListas)
  <2> SUFFICES ASSUME q.op \in KC, NEW k \in DOMAIN b PROVE b[k].q.op # "listar"
    <3>1. \A j \in DOMAIN b : Habla(b[j], KListas) <=> b[j].q.op = "listar"
      BY KHabla
    <3> QED BY <3>1
  <2> QED BY <1>5 DEF Orden, Antes
<1> HIDE DEF P, P1, Y, Y1, T, a1, b1, q, ok, d, s1
<1>11. Fresca(a1, b1, KListas, P1, Y1)
  <2>1. CASE q.op = "listar" /\ Que(q) \in T
    BY <1>1, <1>3, <1>8, <1>9, <2>1, TomaDice DEF a1, b1
  <2>2. CASE Hay(a1, {"listar"})
    BY <1>9, <2>2, TomaAunPide DEF a1, b1
  <2>3. CASE q.op \in KC
    <3>1. Fresca(a, b, KListas, P, Y1)
      BY <1>5, <1>10, <2>3, FrescaCalla
    <3>2. a[1].op \notin KListas.pide /\ ~Habla(m, KListas) /\ (P => P1)
      BY <1>4, <1>9, <2>3 DEF KC, q
    <3> QED BY <1>1, <3>1, <3>2, TomaSigue DEF a1, b1
  <2>4. q.op = "listar" \/ q.op \in KC
    BY DEF KL, q
  <2> QED BY <1>7, <2>1, <2>2, <2>3, <2>4
<1> QED BY <1>6, <1>7, <1>11 DEF KLista, a1, b1, s1, P1, Y1, T

LEMMA KTablaLlega ==
    ASSUME NEW v, NEW s, KBanco(s), NEW a, NEW b, Vivas(a, b), KLista(v, s, a, b), 1 \in DOMAIN b,
           b[1].q.op \in KL \cup KC, NEW w, w.filtro = v.filtro,
           b[1].q.op \in KC => KEfecto(v, b[1], w),
           b[1].q.op = "listar" /\ b[1].ok = TRUE => w.filas = b[1].datos["filas"]
    PROVE  KLista(w, s, a, Sin(b, 1))
<1> DEFINE b1 == Sin(b, 1)
           m == b[1]
           P == KFilas(v, s, a, b)
           P1 == KFilas(w, s, a, b1)
           Y == {Compras!DelEstado(s, v.filtro)}
           p == <<>>
<1>1. /\ Orden(a, b, {"listar"}, KC, FALSE) /\ Encargada(a, {"listar"}, {<<v.filtro, Nada>>})
      /\ Fresca(a, b, KListas, P, Y)
  BY DEF KLista
<1>2. /\ Orden(a, b1, {"listar"}, KC, FALSE)
      /\ \A k \in DOMAIN a : ~Antes(m.q, a[k], {"listar"}, KC, FALSE)
      /\ \A k \in DOMAIN b1 : ~Antes(m.q, b1[k].q, {"listar"}, KC, FALSE)
  BY <1>1, OrdenLlega
<1>3. KListas.pide = {"listar"} /\ KListas.relee = {}
  BY KHabla
<1>4. Habla(m, KListas) <=> m.q.op = "listar"
  BY KHabla
<1>5. Dicho(m, KListas.dato) = m.datos["filas"]
  BY KHabla
<1> HIDE DEF b1
<1>6. Habla(m, KListas) /\ m.ok = TRUE /\ Dicho(m, KListas.dato) \in Y => P1
  <2> SUFFICES ASSUME m.q.op = "listar", m.ok = TRUE, m.datos["filas"] \in Y PROVE P1
    BY <1>4, <1>5
  <2>1. w.filas = Compras!DelEstado(s, w.filtro)
    OBVIOUS
  <2>2. (\A k \in DOMAIN a : a[k].op \notin KC) /\ (\A k \in DOMAIN b1 : b1[k].q.op \notin KC)
    BY <1>2 DEF Antes
  <2> QED BY <2>1, <2>2, KListaNueva
<1>7. ~Habla(m, KListas) /\ P => P1
  <2> SUFFICES ASSUME m.q.op \in KC, P PROVE P1
    BY <1>4 DEF KL
  <2> QED BY KListaLlega DEF b1
<1>8. Vivas(p, <<>>) /\ a \o p = a
  BY JuntoNada, VivasNada DEF Vivas
<1>9. m.ok = TRUE => m.q.op \notin KListas.relee
  BY <1>3
<1> HIDE DEF P, P1, Y, p, m
<1>10. Fresca(a \o p, b1, KListas, P1, Y)
  BY <1>1, <1>6, <1>7, <1>8, <1>9, FrescaRecibe DEF b1, m
<1> QED BY <1>1, <1>2, <1>8, <1>10 DEF KLista, b1, P1, Y

LEMMA KTablaToca ==
    ASSUME NEW v, NEW s, NEW a, NEW b, KLista(v, s, a, b), NEW w, w.filas = v.filas, w.filtro = v.filtro
    PROVE  KLista(w, s, a, b)
<1>1. KFilas(v, s, a, b) = KFilas(w, s, a, b)
  BY DEF KFilas, KRenglones, KPedidas, KFrescas, KTal
<1> QED BY <1>1 DEF KLista

LEMMA KTablaPide ==
    ASSUME NEW v, NEW s, NEW a, NEW b, Vivas(a, b), KLista(v, s, a, b), NEW q, q.viva = TRUE, q.op \in KC,
           q.op = "estado" => q.id \in DOMAIN v.filas,
           \A k \in DOMAIN a : a[k].op # "listar", \A k \in DOMAIN b : b[k].q.op # "listar"
    PROVE  KLista(v, s, a \o <<q>>, b)
<1> DEFINE p == <<q>>
           u == a \o p
           P == KFilas(v, s, a, b)
           P1 == KFilas(v, s, u, b)
           Y == {Compras!DelEstado(s, v.filtro)}
           T == {<<v.filtro, Nada>>}
<1>1. Orden(a, b, {"listar"}, KC, FALSE) /\ Encargada(a, {"listar"}, T) /\ Fresca(a, b, KListas, P, Y)
  BY DEF KLista
<1>2. Sucesion(a) /\ Sucesion(p)
  BY PideUna DEF Vivas
<1>3. Orden(u, b, {"listar"}, KC, FALSE)
  <2>1. /\ \A k \in DOMAIN a : ~Antes(a[k], q, {"listar"}, KC, FALSE)
        /\ \A k \in DOMAIN b : ~Antes(b[k].q, q, {"listar"}, KC, FALSE)
    BY DEF Antes
  <2> QED BY <1>1, <2>1, OrdenPide
<1>4. Encargada(u, {"listar"}, T)
  <2>1. q.op \notin {"listar"}
    BY DEF KC
  <2> HIDE DEF T
  <2> QED BY <1>1, <1>2, <2>1, EncargadaPide
<1>5. P => P1
  BY KListaPide
<1> HIDE DEF P, P1, Y, T, p
<1>6. Fresca(u, b, KListas, P1, Y)
  BY <1>1, <1>2, <1>5, FrescaPide
<1> QED BY <1>3, <1>4, <1>6 DEF KLista, u, p, P1, Y, T

LEMMA KTablaBusca ==
    ASSUME NEW v, NEW s, NEW a, NEW b, Vivas(a, b), KLista(v, s, a, b), NEW w,
           NEW q, q.viva = TRUE, q.op = "listar", q.tras = w.filtro, q.datos = Nada
    PROVE  KLista(w, s, a \o <<q>>, b)
<1> DEFINE p == <<q>>
           u == a \o p
           P1 == KFilas(w, s, u, b)
           Y1 == {Compras!DelEstado(s, w.filtro)}
           T == {<<w.filtro, Nada>>}
<1>1. Orden(a, b, {"listar"}, KC, FALSE)
  BY DEF KLista
<1>2. Sucesion(a) /\ Sucesion(p) /\ Hay(p, {"listar"})
  <2>1. Hay(p, {"listar"}) <=> q.op \in {"listar"}
    BY PideUna
  <2> QED BY <2>1, PideUna DEF Vivas
<1>3. Orden(u, b, {"listar"}, KC, FALSE)
  <2>1. /\ \A k \in DOMAIN a : ~Antes(a[k], q, {"listar"}, KC, FALSE)
        /\ \A k \in DOMAIN b : ~Antes(b[k].q, q, {"listar"}, KC, FALSE)
    BY DEF Antes, KC
  <2> QED BY <1>1, <2>1, OrdenPide
<1>4. Encargada(u, {"listar"}, T)
  <2>1. q.op \in {"listar"} /\ Que(q) \in T
    BY DEF Que
  <2> HIDE DEF T
  <2> QED BY <1>2, <2>1, EncargadaPide
<1>5. KListas.pide = {"listar"}
  BY KHabla
<1> HIDE DEF P1, Y1, T, p
<1>6. Fresca(u, b, KListas, P1, Y1)
  BY <1>2, <1>5, FrescaPidiendo
<1> QED BY <1>3, <1>4, <1>6 DEF KLista, u, p, P1, Y1, T

LEMMA KTablaMonta ==
    ASSUME NEW v, NEW s, NEW q, q.viva = TRUE, q.op = "listar", q.tras = v.filtro, q.datos = Nada
    PROVE  KLista(v, s, <<q>>, <<>>)
<1> DEFINE p == <<q>>
           T == {<<v.filtro, Nada>>}
<1>1. DOMAIN p = {1} /\ p[1] = q
  BY SucesionUna
<1>2. Que(q) \in T
  BY DEF Que
<1> HIDE DEF p, T
<1>3. Encargada(p, {"listar"}, T)
  <2> DEFINE K == {"listar"}
             e == <<>>
  <2>1. q.op \in K /\ Sucesion(e)
    BY SucesionUna
  <2> HIDE DEF K, e
  <2>2. Encargada(e \o <<q>>, K, T)
    BY <1>2, <2>1, EncargadaUltima
  <2> QED BY <2>2, NadieEnReposo DEF p, K, e
<1>4. Hay(p, {"listar"})
  BY <1>1 DEF Hay
<1>5. ASSUME NEW P, NEW Y PROVE Fresca(p, <<>>, KListas, P, Y)
  BY <1>4, KHabla DEF Fresca
<1>6. Orden(p, <<>>, {"listar"}, KC, FALSE)
  BY OrdenUna DEF p
<1> QED BY <1>3, <1>5, <1>6 DEF KLista, p, T

-----------------------------------------------------------------------------
\* The detail.
KD == {"obtener", "estadoDetalle"}

LEMMA KDetalleToma ==
    ASSUME NEW v, NEW s, KBanco(s), NEW a, NEW b, Vivas(a, b), KDetalle(v, s, a, b), 1 \in DOMAIN a, NEW r,
           KSalida(s, a[1], r), a[1].op \in KD, NEW m, m = [q |-> a[1], ok |-> r.ok, datos |-> r.datos]
    PROVE  KDetalle(v, r.srv, Sin(a, 1), Append(b, m))
<1> DEFINE a1 == Sin(a, 1)
           b1 == Append(b, m)
           q == a[1]
           s1 == r.srv
           ok == r.ok
           d == r.datos
           n == v.id
           c == KDetalles(n)
           P == KCompra(v, s)
           P1 == KCompra(v, s1)
           Y == {s[n]}
           Y1 == {s1[n]}
<1>1. m.q = q /\ m.ok = ok /\ m.datos = d /\ m = [q |-> a[1], ok |-> ok, datos |-> d]
  OBVIOUS
<1>2. /\ v.compra # Nada => n \in DOMAIN s /\ KIgual(v.compra, s[n])
      /\ \A k \in DOMAIN a : a[k].id = n
      /\ \A k \in DOMAIN b : b[k].q.id = n
      /\ \A k \in DOMAIN b : b[k].ok = TRUE /\ b[k].q.op = "obtener" => n \in DOMAIN s /\ KIgual(b[k].datos, s[n])
      /\ Fresca(a, b, c, P, Y)
  BY DEF KDetalle
<1>3. q.id = n /\ q.op \in KD
  BY <1>2
<1>4. /\ ok # TRUE => s1 = s
      /\ q.op = "obtener" => s1 = s /\ (ok = TRUE => n \in DOMAIN s /\ d = s[n])
      /\ q.op = "estadoDetalle" /\ ok = TRUE => KCambia(s, q, r)
  <2>1. KSalida(s, q, r)
    OBVIOUS
  <2> HIDE DEF q
  <2> QED BY <1>3, <2>1 DEF KSalida
<1>5. Salen(b1, b, {m}) /\ Salen(a1, a, {})
  BY SalenDe DEF Vivas
<1>6. \A x \in DOMAIN s : KIgual(s[x], s[x])
  BY KMisma DEF KBanco
<1>7. DOMAIN s1 = DOMAIN s /\ \A x \in DOMAIN s : KIgual(s[x], s1[x])
  <2>1. CASE ok = TRUE /\ q.op = "estadoDetalle"
    BY <1>4, <2>1 DEF KCambia
  <2>2. CASE ~(ok = TRUE /\ q.op = "estadoDetalle")
    BY <1>3, <1>4, <1>6, <2>2 DEF KD
  <2> QED BY <2>1, <2>2
<1>8. ok = TRUE => n \in DOMAIN s1 /\ d = s1[n]
  <2>1. CASE q.op = "estadoDetalle"
    BY <1>3, <1>4, <2>1 DEF KCambia
  <2>2. CASE q.op = "obtener"
    BY <1>4, <2>2
  <2> QED BY <1>3, <2>1, <2>2 DEF KD
<1>9. Habla(m, c) <=> m.ok = TRUE /\ m.q.op \in KD /\ m.q.id = n
  BY KHablaDetalle DEF KD
<1>10. Dicho(m, c.dato) = m.datos
  BY KDichoDetalle
<1>11. c.pide = {}
  BY KCanalDetalle
<1> HIDE DEF a1, b1, q, s1, ok, d, c
<1>12. Fresca(a1, b1, c, P1, Y1)
  <2>1. ok # TRUE => (P => P1) /\ Y \subseteq Y1
    BY <1>4
  <2>2. ok = TRUE => d \in Y1
    BY <1>8
  <2> HIDE DEF P, P1, Y, Y1
  <2>3. CASE ok = TRUE
    <3>1. Habla(m, c) /\ Dicho(m, c.dato) \in Y1
      BY <1>1, <1>3, <1>9, <1>10, <2>2, <2>3
    <3> QED BY <1>1, <2>3, <3>1, TomaDice DEF a1, b1
  <2>4. CASE ok # TRUE
    <3>1. ~Habla(m, c) /\ a[1].op \notin c.pide
      BY <1>1, <1>9, <1>11, <2>4
    <3> QED BY <1>1, <1>2, <2>1, <2>4, <3>1, TomaSigue DEF a1, b1
  <2> QED BY <2>3, <2>4
<1>13. v.compra # Nada => n \in DOMAIN s1 /\ KIgual(v.compra, s1[n])
  BY <1>2, <1>7, KMisma
<1>14. ASSUME NEW k \in DOMAIN b1, b1[k].ok = TRUE, b1[k].q.op = "obtener"
       PROVE  n \in DOMAIN s1 /\ KIgual(b1[k].datos, s1[n])
  <2>1. CASE b1[k] = m
    BY <1>1, <1>4, <1>6, <1>14, <2>1
  <2>2. ASSUME NEW j \in DOMAIN b, b1[k] = b[j] PROVE n \in DOMAIN s1 /\ KIgual(b1[k].datos, s1[n])
    BY <1>2, <1>7, <1>14, <2>2, KMisma
  <2> QED BY <1>5, <2>1, <2>2 DEF Salen
<1>15. (\A k \in DOMAIN a1 : a1[k].id = n) /\ (\A k \in DOMAIN b1 : b1[k].q.id = n)
  BY <1>1, <1>2, <1>3, <1>5 DEF Salen
<1> QED BY <1>12, <1>13, <1>14, <1>15 DEF KDetalle, a1, b1, s1, c

KRecibe(v, m, w) ==
    /\ w.id = v.id
    /\ \/ w.compra = v.compra /\ (m.ok # TRUE \/ (v.compra = Nada /\ m.q.op = "estadoDetalle"))
       \/ m.ok = TRUE /\ m.q.op = "obtener" /\ w.compra = m.datos
       \/ /\ m.ok = TRUE /\ m.q.op = "estadoDetalle" /\ v.compra # Nada
          /\ w.compra = [v.compra EXCEPT !.estado = m.datos.estado]

LEMMA KDetalleLlega ==
    ASSUME NEW v, NEW s, KBanco(s), NEW a, NEW b, Vivas(a, b), KDetalle(v, s, a, b), 1 \in DOMAIN b,
           b[1].q.op \in KD, NEW w, KRecibe(v, b[1], w)
    PROVE  KDetalle(w, s, a, Sin(b, 1))
<1> DEFINE b1 == Sin(b, 1)
           m == b[1]
           n == v.id
           c == KDetalles(n)
           P == KCompra(v, s)
           P1 == KCompra(w, s)
           Y == {s[n]}
           p == <<>>
<1>1. /\ v.compra # Nada => n \in DOMAIN s /\ KIgual(v.compra, s[n])
      /\ \A k \in DOMAIN a : a[k].id = n
      /\ \A k \in DOMAIN b : b[k].q.id = n
      /\ \A k \in DOMAIN b : b[k].ok = TRUE /\ b[k].q.op = "obtener" => n \in DOMAIN s /\ KIgual(b[k].datos, s[n])
      /\ Fresca(a, b, c, P, Y)
  BY DEF KDetalle
<1>2. Salen(b1, b, {})
  BY SalenDe DEF Vivas
<1>3. Habla(m, c) <=> m.ok = TRUE /\ m.q.op \in KD /\ m.q.id = n
  BY KHablaDetalle DEF KD
<1>4. Dicho(m, c.dato) = m.datos
  BY KDichoDetalle
<1>5. c.pide = {} /\ c.relee = {}
  BY KCanalDetalle
<1>6. m.q.op \in KD /\ m.q.id = n /\ KRecibe(v, m, w)
  BY <1>1
<1>7. m.ok = TRUE /\ m.q.op = "obtener" => n \in DOMAIN s /\ KIgual(m.datos, s[n])
  BY <1>1
<1> HIDE DEF b1, m, c
<1>8. w.id = n /\ (w.compra # Nada => n \in DOMAIN s /\ KIgual(w.compra, s[n]))
  <2>1. w.id = n
    BY <1>6 DEF KRecibe
  <2>2. CASE w.compra = v.compra
    BY <1>1, <2>1, <2>2
  <2>3. CASE m.ok = TRUE /\ m.q.op = "obtener" /\ w.compra = m.datos
    BY <1>7, <2>1, <2>3
  <2>4. CASE /\ v.compra # Nada
             /\ w.compra = [v.compra EXCEPT !.estado = m.datos.estado]
    <3> DEFINE x == v.compra
               y == w.compra
               z == s[n]
               e == m.datos.estado
    <3>1. n \in DOMAIN s /\ KIgual(x, z) /\ y = [x EXCEPT !.estado = e]
      BY <1>1, <2>4
    <3> HIDE DEF x, y, z, e
    <3>2. KIgual(y, z)
      BY <3>1 DEF KIgual
    <3> QED BY <2>1, <3>1, <3>2 DEF y, z
  <2> QED BY <1>6, <2>1, <2>2, <2>3, <2>4 DEF KRecibe
<1>9. m.ok = TRUE /\ m.datos = s[n] => KCompra(w, s)
  <2> SUFFICES ASSUME m.ok = TRUE, m.datos = s[n], w.compra # Nada PROVE n \in DOMAIN s /\ w.compra = s[n]
    BY <1>8 DEF KCompra
  <2>1. n \in DOMAIN s
    BY <1>8
  <2>2. CASE m.q.op = "obtener"
    <3>1. w.compra = m.datos
      BY <1>6, <2>2 DEF KRecibe
    <3> QED BY <2>1, <3>1
  <2>3. CASE m.q.op = "estadoDetalle"
    <3>1. w.compra = [v.compra EXCEPT !.estado = m.datos.estado] /\ v.compra # Nada
      BY <1>6, <2>3 DEF KRecibe
    <3> DEFINE x == v.compra
               y == w.compra
               z == s[n]
    <3>2. KIgual(x, z) /\ KFila(z) /\ y = [x EXCEPT !.estado = z.estado]
      BY <1>1, <3>1 DEF KBanco
    <3> HIDE DEF x, y, z
    <3>3. y = z
      BY <3>2 DEF KIgual, KFila
    <3> QED BY <2>1, <3>3 DEF y, z
  <2> QED BY <1>6, <2>2, <2>3 DEF KD
<1>10. m.ok # TRUE /\ P => P1
  <2> SUFFICES ASSUME m.ok # TRUE, P PROVE P1
    OBVIOUS
  <2>1. w.compra = v.compra
    BY <1>6 DEF KRecibe
  <2> QED BY <1>8, <2>1 DEF KCompra
<1>11. Habla(m, c) /\ m.ok = TRUE /\ Dicho(m, c.dato) \in Y => P1
  BY <1>4, <1>9
<1>12. ~Habla(m, c) /\ P => P1
  BY <1>3, <1>6, <1>10
<1>13. Vivas(p, <<>>) /\ a \o p = a
  BY JuntoNada, VivasNada DEF Vivas
<1>14. m.ok = TRUE => m.q.op \notin c.relee
  BY <1>5
<1> HIDE DEF P, P1, Y, p
<1>15. Fresca(a \o p, b1, c, P1, Y)
  BY <1>1, <1>11, <1>12, <1>13, <1>14, FrescaRecibe DEF b1, m
<1>16. Fresca(a, b1, c, P1, Y)
  BY <1>13, <1>15
<1>17. /\ \A k \in DOMAIN b1 : b1[k].q.id = n
       /\ \A k \in DOMAIN b1 : b1[k].ok = TRUE /\ b1[k].q.op = "obtener" => n \in DOMAIN s /\ KIgual(b1[k].datos, s[n])
  BY <1>1, <1>2 DEF Salen
<1> QED BY <1>1, <1>8, <1>16, <1>17 DEF KDetalle, b1, c, P1, Y

LEMMA KDetallePide ==
    ASSUME NEW v, NEW s, NEW a, NEW b, Vivas(a, b), KDetalle(v, s, a, b), NEW w, w.id = v.id, w.compra = v.compra,
           NEW q, q.viva = TRUE, q.id = v.id
    PROVE  KDetalle(w, s, a \o <<q>>, b)
<1> DEFINE p == <<q>>
           u == a \o p
           c == KDetalles(v.id)
           P == KCompra(v, s)
           P1 == KCompra(w, s)
           Y == {s[v.id]}
<1>1. Sucesion(a) /\ Sucesion(p) /\ Salen(u, a, {q})
  BY PideUna, SalenDe DEF Vivas
<1>2. Fresca(a, b, c, P, Y) /\ (P => P1)
  BY DEF KDetalle, KCompra
<1> HIDE DEF c, P, P1, Y, p
<1>3. Fresca(u, b, c, P1, Y)
  BY <1>1, <1>2, FrescaPide
<1> HIDE DEF u
<1>4. \A k \in DOMAIN u : u[k].id = v.id
  BY <1>1 DEF KDetalle, Salen
<1>5. KDetalle(w, s, u, b)
  BY <1>3, <1>4 DEF KDetalle, c, P1, Y
<1> QED BY <1>5 DEF u, p

LEMMA KDetalleMonta ==
    ASSUME NEW v, NEW s, v.compra = Nada, NEW q, q.id = v.id
    PROVE  KDetalle(v, s, <<q>>, <<>>)
<1> DEFINE p == <<q>>
           e == <<>>
<1>1. DOMAIN p = {1} /\ p[1] = q /\ DOMAIN e = {}
  BY SucesionUna
<1> HIDE DEF p, e
<1>2. KCompra(v, s)
  BY DEF KCompra
<1>3. ASSUME NEW c, NEW Y PROVE Fresca(p, e, c, KCompra(v, s), Y)
  BY <1>1, <1>2 DEF Fresca, Dice
<1>4. KDetalle(v, s, p, e)
  BY <1>1, <1>3 DEF KDetalle
<1> QED BY <1>4 DEF p, e

-----------------------------------------------------------------------------
\* What holds with or without a reason for doubt.
KPaginas == {"lista", "nueva", "detalle"}

\* When a page is left its requests die.
LEMMA KAbandona ==
    ASSUME NEW O, NEW a, SonPedidos(a, O), NEW b, SonRespuestas(b, O), NEW v
    PROVE  /\ KSuyas(v, Huerfanos(a) \o <<>>, HuerfanasDe(b))
           /\ \A q : q.op \in KOps(v.ruta) => KSuyas(v, Huerfanos(a) \o <<q>>, HuerfanasDe(b))
<1> DEFINE h == Huerfanos(a)
           g == HuerfanasDe(b)
<1>1. /\ Sucesion(h) /\ \A k \in DOMAIN h : h[k].viva = FALSE
      /\ \A k \in DOMAIN g : g[k].q.viva = FALSE
  <2>1. Sucesion(h)
    BY Huerfana DEF SonPedidos
  <2>2. \A k \in DOMAIN a : [a[k] EXCEPT !.viva = FALSE].viva = FALSE
    BY DEF SonPedidos, EsPedido
  <2>3. \A k \in DOMAIN b : [b[k] EXCEPT !.q.viva = FALSE].q.viva = FALSE
    BY DEF SonRespuestas, EsRespuesta, EsPedido
  <2>4. \A k \in DOMAIN h : h[k].viva = FALSE
    BY <2>2 DEF Huerfanos
  <2>5. \A k \in DOMAIN g : g[k].q.viva = FALSE
    BY <2>3 DEF HuerfanasDe
  <2> QED BY <2>1, <2>4, <2>5
<1> HIDE DEF h, g
<1>2. h \o <<>> = h
  BY <1>1, JuntoNada
<1>3. \A q : Salen(h \o <<q>>, h, {q})
  BY <1>1, SalenDe
<1>4. KSuyas(v, h \o <<>>, g)
  BY <1>1, <1>2 DEF KSuyas
<1>5. ASSUME NEW q, q.op \in KOps(v.ruta) PROVE KSuyas(v, h \o <<q>>, g)
  <2> DEFINE u == h \o <<q>>
  <2>1. Salen(u, h, {q})
    BY <1>3
  <2> HIDE DEF u
  <2>2. KSuyas(v, u, g)
    BY <1>1, <1>5, <2>1 DEF KSuyas, Salen
  <2> QED BY <2>2 DEF u
<1> QED BY <1>4, <1>5 DEF h, g

KBase(v, s, a, b) == KBanco(s) /\ KVista(v) /\ KSuyas(v, a, b)

LEMMA KListar ==
    ASSUME NEW f
    PROVE  \E q : /\ Compras!Listar(f) = <<q>> /\ q.op = "listar" /\ q.tras = f /\ q.datos = Nada
                  /\ q.viva = TRUE
<1> DEFINE q == Compras!Tras(Compras!Pedido("listar", Compras!Nadie, Nada), f)
<1>1. Compras!Listar(f) = <<q>>
  BY DEF Compras!Listar
<1>2. q.op = "listar" /\ q.tras = f /\ q.datos = Nada /\ q.viva = TRUE
  BY DEF Compras!Tras, Compras!Pedido
<1> QED BY <1>1, <1>2

LEMMA KPantallas ==
    /\ KVista(Compras!Lista) /\ Compras!Lista.ruta = "lista" /\ Compras!Lista.filtro = Compras!Todas
    /\ KVista(Compras!Nueva) /\ Compras!Nueva.ruta = "nueva"
    /\ \A i : /\ KVista(Compras!Detalle(i)) /\ Compras!Detalle(i).ruta = "detalle"
              /\ Compras!Detalle(i).id = i /\ Compras!Detalle(i).compra = Nada
BY DEF Compras!Lista, Compras!Nueva, Compras!Detalle, Compras!Vacia, KVista, KCampos

LEMMA KBaseResponde ==
    ASSUME ComprasInv, KBase(vista, srv, ida, vuelta), NEW i, Compras!Responde(i)
    PROVE  KBase(vista', srv', ida', vuelta')
<1>1. PICK ok, datos : /\ i \in DOMAIN ida /\ vista' = vista /\ ida' = Sin(ida, i)
                       /\ vuelta' = Append(vuelta, [q |-> ida[i], ok |-> ok, datos |-> datos])
                       /\ srv' \in {srv, Compras!Servidor(srv, ida[i]).srv}
  BY DEF Compras!Responde, Compras!Atiende, Compras!Sin, Sin
<1>2. KBanco(srv) /\ KVista(vista) /\ KSuyas(vista, ida, vuelta) /\ SonPedidos(ida, KO) /\ Sucesion(vuelta)
  BY DEF KBase, ComprasInv, Correo, SonRespuestas
<1>3. KBanco(srv')
  <2> DEFINE q == ida[i]
  <2>1. q.op \in KO
    BY <1>1, <1>2 DEF SonPedidos, EsPedido
  <2> HIDE DEF q
  <2>2. KSalida(srv, q, Compras!Servidor(srv, q))
    BY <1>2, <2>1, KBancoDe
  <2>3. KBanco(Compras!Servidor(srv, q).srv)
    BY <2>2 DEF KSalida
  <2> QED BY <1>1, <1>2, <2>3 DEF q
<1> DEFINE m == [q |-> ida[i], ok |-> ok, datos |-> datos]
           a1 == Sin(ida, i)
           b1 == Append(vuelta, m)
<1>4. \A k \in DOMAIN a1 : \E j \in DOMAIN ida : a1[k] = ida[j]
  <2>1. Len(ida) \in Nat /\ DOMAIN ida = 1 .. Len(ida) /\ Sucesion(ida)
    BY <1>2, SucesionLarga DEF SonPedidos
  <2>2. /\ DOMAIN a1 = 1 .. Len(ida) - 1
        /\ \A k \in 1 .. Len(ida) - 1 : a1[k] = ida[IF k < i THEN k ELSE k + 1]
    BY <1>1, <2>1, SucesionSin
  <2> HIDE DEF a1
  <2> QED BY <1>1, <2>1, <2>2
<1>5. Salen(b1, vuelta, {m})
  BY <1>2, SalenDe
<1>6. m.q = ida[i]
  OBVIOUS
<1> HIDE DEF a1, b1, m
<1>7. KSuyas(vista, a1, b1)
  <2>1. ASSUME NEW k \in DOMAIN a1 PROVE a1[k].viva # FALSE => a1[k].op \in KOps(vista.ruta)
    BY <1>2, <1>4 DEF KSuyas
  <2>2. ASSUME NEW k \in DOMAIN b1 PROVE b1[k].q.viva # FALSE => b1[k].q.op \in KOps(vista.ruta)
    <3>1. b1[k] = m \/ \E j \in DOMAIN vuelta : b1[k] = vuelta[j]
      BY <1>5 DEF Salen
    <3> QED BY <1>1, <1>2, <1>6, <3>1 DEF KSuyas
  <2> QED BY <2>1, <2>2 DEF KSuyas
<1> QED BY <1>1, <1>2, <1>3, <1>7 DEF KBase, a1, b1, m

LEMMA KRecibirQueda ==
    ASSUME NEW m, m.q.op \in KO, KVista(vista), Compras!Recibir(m).va # TRUE
    PROVE  /\ Compras!Recibir(m).va = FALSE /\ Compras!Recibir(m).pide = <<>>
           /\ KCampos(Compras!Recibir(m).vista)
           /\ Compras!Recibir(m).vista.ruta = vista.ruta /\ Compras!Recibir(m).vista.filtro = vista.filtro
           /\ Compras!Recibir(m).vista.id = vista.id
           /\ m.q.op \notin {"obtener", "estadoDetalle"} => Compras!Recibir(m).vista.compra = vista.compra
<1> DEFINE r == Compras!Recibir(m)
<1>1. KCampos(vista)
  BY DEF KVista
<1> USE DEF Compras!Recibir, Compras!Queda, Compras!Pide, Compras!Inventa, Compras!LlevaA, KCampos
<1>2. CASE m.q.op = "listar"
  BY <1>1, <1>2
<1>3. CASE m.q.op = "estado"
  BY <1>1, <1>3
<1>4. CASE m.q.op = "eliminar"
  BY <1>1, <1>4
<1>5. CASE m.q.op = "crear"
  BY <1>1, <1>5
<1>6. CASE m.q.op = "obtener"
  BY <1>1, <1>6
<1>7. CASE m.q.op = "estadoDetalle"
  BY <1>1, <1>7
<1> QED BY <1>2, <1>3, <1>4, <1>5, <1>6, <1>7 DEF KO

LEMMA KRecibirVa ==
    ASSUME NEW m, m.q.op \in KO, Compras!Recibir(m).va # FALSE
    PROVE  /\ Compras!Recibir(m).va = TRUE /\ Compras!Recibir(m).pide = Compras!Listar(Compras!Todas)
           /\ Compras!Recibir(m).vista = Compras!Lista
<1> USE DEF Compras!Recibir, Compras!Queda, Compras!Pide, Compras!Inventa, Compras!LlevaA
<1>1. CASE m.q.op # "crear"
  BY <1>1 DEF KO
<1>2. CASE m.q.op = "crear"
  BY <1>2
<1> QED BY <1>1, <1>2

LEMMA KBaseRecibe ==
    ASSUME ComprasInv, KBase(vista, srv, ida, vuelta), NEW i, Compras!Recibe(i)
    PROVE  KBase(vista', srv', ida', vuelta')
<1> DEFINE m == vuelta[i]
           r == Compras!Recibir(m)
           b1 == Sin(vuelta, i)
<1>1. /\ i \in DOMAIN vuelta /\ srv' = srv
      /\ r.va = FALSE => Oye(i, r.vista, r.pide)
      /\ r.va = TRUE => /\ vista' = r.vista /\ ida' = Huerfanos(ida) \o r.pide
                        /\ vuelta' = HuerfanasDe(b1)
  BY DEF Oye, Compras!Recibe, Compras!Llega, Compras!Sin, Sin,
         Compras!Huerfanos, Huerfanos, Compras!HuerfanasDe, HuerfanasDe
<1>2. /\ KBanco(srv) /\ KVista(vista) /\ KSuyas(vista, ida, vuelta)
      /\ SonPedidos(ida, KO) /\ SonRespuestas(vuelta, KO)
  BY DEF KBase, ComprasInv, Correo
<1>3. m.q.op \in KO
  BY <1>1, <1>2 DEF SonRespuestas, EsRespuesta, EsPedido
<1>4. SonRespuestas(b1, KO) /\ \A k \in DOMAIN b1 : \E j \in DOMAIN vuelta : b1[k] = vuelta[j]
  <2>1. Len(vuelta) \in Nat /\ DOMAIN vuelta = 1 .. Len(vuelta) /\ Sucesion(vuelta)
    BY <1>2, SucesionLarga DEF SonRespuestas
  <2>2. /\ DOMAIN b1 = 1 .. Len(vuelta) - 1 /\ Sucesion(b1)
        /\ \A k \in 1 .. Len(vuelta) - 1 : b1[k] = vuelta[IF k < i THEN k ELSE k + 1]
    BY <1>1, <2>1, SucesionSin
  <2> HIDE DEF b1
  <2>3. \A k \in DOMAIN b1 : \E j \in DOMAIN vuelta : b1[k] = vuelta[j]
    BY <1>1, <2>1, <2>2
  <2> QED BY <1>2, <2>2, <2>3 DEF SonRespuestas
<1>5. CASE r.va # FALSE
  <2>1. r.va = TRUE /\ r.pide = Compras!Listar(Compras!Todas) /\ r.vista = Compras!Lista
    BY <1>3, <1>5, KRecibirVa
  <2>2. PICK q : Compras!Listar(Compras!Todas) = <<q>> /\ q.op = "listar"
    BY KListar
  <2> HIDE DEF r, b1
  <2>3. KVista(vista') /\ vista'.ruta = "lista"
    BY <1>1, <2>1, KPantallas
  <2>4. q.op \in KOps(vista'.ruta)
    BY <2>2, <2>3 DEF KOps
  <2>5. KSuyas(vista', Huerfanos(ida) \o <<q>>, HuerfanasDe(b1))
    BY <1>2, <1>4, <2>4, KAbandona
  <2> QED BY <1>1, <1>2, <2>1, <2>2, <2>3, <2>5 DEF KBase
<1>6. CASE r.va = FALSE
  <2>1. /\ r.pide = <<>> /\ KCampos(r.vista) /\ r.vista.ruta = vista.ruta
        /\ m.q.op \notin {"obtener", "estadoDetalle"} => r.vista.compra = vista.compra
    <3>1. r.va # TRUE
      BY <1>6
    <3> QED BY <1>2, <1>3, <3>1, KRecibirQueda
  <2> HIDE DEF r, b1
  <2>2. /\ ida' = ida \o (IF m.q.viva = TRUE THEN <<>> ELSE Huerfanos(<<>>))
        /\ vuelta' = b1 /\ vista' \in {vista, r.vista} /\ (m.q.viva = FALSE => vista' = vista)
    BY <1>1, <1>6, <2>1 DEF Oye, b1
  <2>3. ida' = ida
    <3>1. Huerfanos(<<>>) = <<>>
      BY NadieEnReposo
    <3>2. ida' = ida \o <<>>
      BY <2>2, <3>1
    <3> QED BY <1>2, <3>2, JuntoNada DEF SonPedidos
  <2>4. KVista(vista')
    <3>1. CASE m.q.viva = FALSE \/ vista' = vista
      BY <1>2, <2>2, <3>1
    <3>2. CASE m.q.viva # FALSE /\ vista' = r.vista
      <4>1. m.q.op \in KOps(vista.ruta)
        BY <1>1, <1>2, <3>2 DEF KSuyas
      <4>2. m.q.op \in {"obtener", "estadoDetalle"} => vista.ruta = "detalle"
        BY <1>2, <4>1 DEF KOps, KC, KVista
      <4> QED BY <1>2, <2>1, <3>2, <4>2 DEF KVista
    <3> QED BY <2>2, <3>1, <3>2
  <2>5. vista'.ruta = vista.ruta
    BY <2>1, <2>2
  <2>6. KSuyas(vista', ida, b1)
    BY <1>2, <1>4, <2>5 DEF KSuyas
  <2> QED BY <1>1, <1>2, <2>2, <2>3, <2>4, <2>6 DEF KBase
<1> QED BY <1>5, <1>6

LEMMA KBaseClic ==
    ASSUME ComprasInv, KBase(vista, srv, ida, vuelta), srv' = srv, vuelta' = vuelta,
           KCampos(vista'), vista'.ruta = vista.ruta, vista'.compra = vista.compra,
           ida' = ida \o <<>> \/ \E q : ida' = ida \o <<q>> /\ q.op \in KOps(vista.ruta)
    PROVE  KBase(vista', srv', ida', vuelta')
<1>1. KBanco(srv) /\ KVista(vista) /\ KSuyas(vista, ida, vuelta) /\ Sucesion(ida)
  BY DEF KBase, ComprasInv, Correo, SonPedidos
<1>2. KVista(vista')
  BY <1>1 DEF KVista
<1>3. CASE ida' = ida \o <<>>
  <2>1. ida' = ida
    BY <1>1, <1>3, JuntoNada
  <2> QED BY <1>1, <1>2, <2>1 DEF KBase, KSuyas
<1>4. ASSUME NEW q, ida' = ida \o <<q>>, q.op \in KOps(vista.ruta) PROVE KBase(vista', srv', ida', vuelta')
  <2>1. Salen(ida \o <<q>>, ida, {q})
    BY <1>1, SalenDe
  <2>2. Salen(ida', ida, {q})
    BY <1>4, <2>1
  <2>3. KSuyas(vista', ida', vuelta')
    BY <1>1, <1>4, <2>2 DEF KSuyas, Salen
  <2> QED BY <1>1, <1>2, <2>3 DEF KBase
<1> QED BY <1>3, <1>4

LEMMA KBaseMonta ==
    ASSUME ComprasInv, KBase(vista, srv, ida, vuelta), srv' = srv, vuelta' = HuerfanasDe(vuelta),
           KVista(vista'),
           ida' = Huerfanos(ida) \o <<>> \/ \E q : ida' = Huerfanos(ida) \o <<q>> /\ q.op \in KOps(vista'.ruta)
    PROVE  KBase(vista', srv', ida', vuelta')
<1>1. KBanco(srv) /\ SonPedidos(ida, KO) /\ SonRespuestas(vuelta, KO)
  BY DEF KBase, ComprasInv, Correo
<1>2. KSuyas(vista', ida', vuelta')
  BY <1>1, KAbandona
<1> QED BY <1>1, <1>2 DEF KBase

(* What each click makes of the page and asks for.                         *)
KMontaje(v, p) ==
    /\ vista' = v /\ ida' = Huerfanos(ida) \o p /\ vuelta' = HuerfanasDe(vuelta) /\ srv' = srv
    /\ dudosa' # TRUE => ida = <<>> /\ vuelta = <<>>

LEMMA KMonta ==
    ASSUME NEW v, NEW p, Compras!Montar(v, p)
    PROVE  KMontaje(v, p)
BY DEF KMontaje, Compras!Montar, Compras!Huerfanos, Huerfanos, Compras!HuerfanasDe, HuerfanasDe, Compras!EnReposo

LEMMA KBaseSigue == ComprasInv /\ KBase(vista, srv, ida, vuelta) /\ Compras!Next => KBase(vista', srv', ida', vuelta')
<1> SUFFICES ASSUME ComprasInv, KBase(vista, srv, ida, vuelta), Compras!Next PROVE KBase(vista', srv', ida', vuelta')
  OBVIOUS
<1>1. KCampos(vista) /\ KVista(vista)
  BY DEF KBase, KVista
<1>2. CASE Compras!PedirBaja \/ Compras!CancelarBaja
  <2>1. /\ ida' = ida \o <<>> /\ vuelta' = vuelta /\ srv' = srv
        /\ KCampos(vista') /\ vista'.ruta = vista.ruta /\ vista'.compra = vista.compra
    BY <1>1, <1>2 DEF Compras!PedirBaja, Compras!CancelarBaja, Compras!Toque, KCampos
  <2> QED BY <2>1, KBaseClic
<1>3. CASE Compras!Filtrar \/ Compras!Actualizar
  <2>1. PICK t : /\ ida' = ida \o Compras!Listar(t) /\ vuelta' = vuelta /\ srv' = srv
                 /\ KCampos(vista') /\ vista'.ruta = vista.ruta /\ vista'.compra = vista.compra
                 /\ vista.ruta = "lista"
    BY <1>1, <1>3 DEF Compras!Filtrar, Compras!Actualizar, Compras!EnLista, Compras!Recarga, KCampos
  <2>2. PICK q : Compras!Listar(t) = <<q>> /\ q.op = "listar"
    BY KListar
  <2>3. q.op \in KOps(vista.ruta)
    BY <2>1, <2>2 DEF KOps
  <2> QED BY <2>1, <2>2, <2>3, KBaseClic
<1>4. CASE Compras!CambiarEstado \/ Compras!ConfirmarBaja
  <2>1. \E q : /\ ida' = ida \o <<q>> /\ vuelta' = vuelta /\ srv' = srv
               /\ KCampos(vista') /\ vista'.ruta = vista.ruta /\ vista'.compra = vista.compra
               /\ vista.ruta = "lista" /\ q.op \in KC
    <3> USE DEF Compras!Cambia, Compras!Toque, Compras!Tropiezo, KCampos, KC
    <3>1. CASE Compras!CambiarEstado
      <4>1. PICK j, e : /\ vista.ruta = "lista"
                        /\ Compras!Cambia(vista, <<Compras!Tras(Compras!Pedido("estado", j, Nada), e)>>)
        BY <3>1 DEF Compras!CambiarEstado, Compras!Filas, Compras!EnLista
      <4> DEFINE q == Compras!Tras(Compras!Pedido("estado", j, Nada), e)
      <4>2. q.op = "estado"
        BY DEF Compras!Tras, Compras!Pedido
      <4> HIDE DEF q
      <4>3. ida' = ida \o <<q>> /\ vuelta' = vuelta /\ srv' = srv /\ vista' = vista
        BY <4>1 DEF q
      <4> QED BY <1>1, <4>1, <4>2, <4>3
    <3>2. CASE Compras!ConfirmarBaja
      <4> DEFINE q == Compras!Pedido("eliminar", vista.borrar, Nada)
      <4>1. /\ vista.ruta = "lista"
            /\ Compras!Cambia([vista EXCEPT !.ocupada = TRUE], <<q>>)
        BY <3>2 DEF Compras!ConfirmarBaja, Compras!Confirmacion
      <4>2. q.op = "eliminar"
        BY DEF Compras!Pedido
      <4> HIDE DEF q
      <4> QED BY <1>1, <4>1, <4>2
    <3> QED BY <1>4, <3>1, <3>2
  <2>2. PICK q : /\ ida' = ida \o <<q>> /\ vuelta' = vuelta /\ srv' = srv
                 /\ KCampos(vista') /\ vista'.ruta = vista.ruta /\ vista'.compra = vista.compra
                 /\ vista.ruta = "lista" /\ q.op \in KC
    BY <2>1
  <2>3. q.op \in KOps(vista.ruta)
    BY <2>2 DEF KOps
  <2> QED BY <2>2, <2>3, KBaseClic
<1>5. CASE Compras!GuardarCompra
  <2>1. PICK datos : /\ vista.ruta = "nueva"
                     /\ Compras!Toque([vista EXCEPT !.ocupada = TRUE], <<Compras!Pedido("crear", Compras!Nadie, datos)>>)
    BY <1>5 DEF Compras!GuardarCompra, Compras!EnNueva
  <2> DEFINE q == Compras!Pedido("crear", Compras!Nadie, datos)
  <2>2. q.op = "crear"
    BY DEF Compras!Pedido
  <2> HIDE DEF q
  <2>3. /\ ida' = ida \o <<q>> /\ vuelta' = vuelta /\ srv' = srv
        /\ KCampos(vista') /\ vista'.ruta = vista.ruta /\ vista'.compra = vista.compra
    BY <1>1, <2>1 DEF Compras!Toque, KCampos, q
  <2>4. q.op \in KOps(vista.ruta)
    BY <2>1, <2>2 DEF KOps
  <2> QED BY <2>3, <2>4, KBaseClic
<1>6. CASE Compras!CambiarEstadoDetalle
  <2>1. PICK e : /\ vista.ruta = "detalle"
                 /\ Compras!Toque([vista EXCEPT !.ocupada = TRUE],
                                  <<Compras!Tras(Compras!Pedido("estadoDetalle", vista.id, Nada), e)>>)
    BY <1>6 DEF Compras!CambiarEstadoDetalle, Compras!EnDetalle
  <2> DEFINE q == Compras!Tras(Compras!Pedido("estadoDetalle", vista.id, Nada), e)
  <2>2. q.op = "estadoDetalle"
    BY DEF Compras!Pedido, Compras!Tras
  <2> HIDE DEF q
  <2>3. /\ ida' = ida \o <<q>> /\ vuelta' = vuelta /\ srv' = srv
        /\ KCampos(vista') /\ vista'.ruta = vista.ruta /\ vista'.compra = vista.compra
    BY <1>1, <2>1 DEF Compras!Toque, KCampos, q
  <2>4. q.op \in KOps(vista.ruta)
    BY <2>1, <2>2 DEF KOps
  <2> QED BY <2>3, <2>4, KBaseClic
<1>7. CASE Compras!IrANueva
  <2>1. KMontaje(Compras!Nueva, <<>>)
    BY <1>7, KMonta DEF Compras!IrANueva
  <2> QED BY <2>1, KBaseMonta, KPantallas DEF KMontaje
<1>8. CASE Compras!IrADetalle
  <2>1. PICK j : Compras!Montar(Compras!Detalle(j), <<Compras!Pedido("obtener", j, Nada)>>)
    BY <1>8 DEF Compras!IrADetalle
  <2> DEFINE q == Compras!Pedido("obtener", j, Nada)
  <2>2. KMontaje(Compras!Detalle(j), <<q>>)
    BY <2>1, KMonta
  <2>3. q.op = "obtener"
    BY DEF Compras!Pedido
  <2> HIDE DEF q
  <2>4. KVista(vista') /\ vista'.ruta = "detalle"
    BY <2>2, KPantallas DEF KMontaje
  <2>5. q.op \in KOps(vista'.ruta)
    BY <2>3, <2>4 DEF KOps
  <2> QED BY <2>2, <2>4, <2>5, KBaseMonta DEF KMontaje
<1>9. CASE Compras!Volver
  <2>1. KMontaje(Compras!Lista, Compras!Listar(Compras!Todas))
    BY <1>9, KMonta DEF Compras!Volver
  <2>2. PICK q : Compras!Listar(Compras!Todas) = <<q>> /\ q.op = "listar"
    BY KListar
  <2>3. KVista(vista') /\ vista'.ruta = "lista"
    BY <2>1, KPantallas DEF KMontaje
  <2>4. q.op \in KOps(vista'.ruta)
    BY <2>2, <2>3 DEF KOps
  <2> QED BY <2>1, <2>2, <2>3, <2>4, KBaseMonta DEF KMontaje
<1> QED BY <1>2, <1>3, <1>4, <1>5, <1>6, <1>7, <1>8, <1>9, KBaseResponde, KBaseRecibe DEF Compras!Next

-----------------------------------------------------------------------------
\* What is shown, without a reason for doubt.
LEMMA KFielResponde ==
    ASSUME ComprasInv, ComprasFiel, NEW i, Compras!Responde(i), dudosa' # TRUE
    PROVE  KFiel(vista', srv', ida', vuelta')
<1> DEFINE q == ida[1]
           r == Compras!Servidor(srv, q)
           m == [q |-> q, ok |-> r.ok, datos |-> r.datos]
           a1 == Sin(ida, 1)
           b1 == Append(vuelta, m)
<1>1. /\ 1 \in DOMAIN ida /\ srv' = r.srv /\ ida' = a1 /\ vista' = vista
      /\ vuelta' = b1 /\ dudosa # TRUE
  BY DEF Compras!Responde, Compras!Atiende, Compras!Sin, Sin
<1>2. /\ KBanco(srv) /\ Sucesion(vuelta) /\ Vivas(ida, vuelta)
      /\ vista.ruta = "lista" => KLista(vista, srv, ida, vuelta)
      /\ vista.ruta = "detalle" => KDetalle(vista, srv, ida, vuelta)
      /\ \A k \in DOMAIN vuelta : vuelta[k].ok \in BOOLEAN
  BY <1>1 DEF ComprasFiel, KFiel, Vivas
<1>3. q.op \in KO /\ q.op \in KOps(vista.ruta)
  BY <1>1, <1>2 DEF ComprasInv, Correo, SonPedidos, EsPedido, ComprasFiel, KSuyas, Vivas
<1>4. KSalida(srv, q, r)
  <2> HIDE DEF m, q
  <2> QED BY <1>2, <1>3, KBancoDe
<1>5. r.ok \in BOOLEAN
  <2> HIDE DEF r, q
  <2> QED BY <1>4 DEF KSalida
<1> HIDE DEF r
<1>6. m = [q |-> ida[1], ok |-> r.ok, datos |-> r.datos] /\ m.ok \in BOOLEAN
  BY <1>5
<1> HIDE DEF m, a1, b1
<1>7. Vivas(a1, b1)
  BY <1>1, <1>2, <1>6, VivasToma DEF a1, b1
<1>8. vista.ruta = "lista" => KLista(vista, r.srv, a1, b1)
  <2> SUFFICES ASSUME vista.ruta = "lista" PROVE KLista(vista, r.srv, a1, b1)
    OBVIOUS
  <2>1. ida[1].op \in KL \cup KC
    BY <1>3 DEF KOps, KL
  <2> QED BY <1>1, <1>2, <1>4, <1>6, <2>1, KTablaToma DEF a1, b1
<1>9. vista.ruta = "detalle" => KDetalle(vista, r.srv, a1, b1)
  <2> SUFFICES ASSUME vista.ruta = "detalle" PROVE KDetalle(vista, r.srv, a1, b1)
    OBVIOUS
  <2>1. ida[1].op \in KD
    BY <1>3 DEF KOps, KD
  <2> QED BY <1>1, <1>2, <1>4, <1>6, <2>1, KDetalleToma DEF a1, b1
<1>10. \A k \in DOMAIN b1 : b1[k].ok \in BOOLEAN
  <2>1. Salen(b1, vuelta, {m})
    BY <1>2, SalenDe DEF b1
  <2> QED BY <1>2, <1>6, <2>1 DEF Salen
<1> QED BY <1>1, <1>7, <1>8, <1>9, <1>10 DEF KFiel

LEMMA KFielMonta ==
    ASSUME NEW v, NEW s, NEW q, q.viva = TRUE,
           v.ruta = "lista" => q.op = "listar" /\ q.tras = v.filtro /\ q.datos = Nada,
           v.ruta = "detalle" => v.compra = Nada /\ q.id = v.id
    PROVE  KFiel(v, s, <<q>>, <<>>)
<1> DEFINE p == <<q>>
           e == <<>>
<1>1. Vivas(p, e) /\ DOMAIN e = {}
  BY VivasUna, SucesionUna
<1>2. (v.ruta = "lista" => KLista(v, s, p, e)) /\ (v.ruta = "detalle" => KDetalle(v, s, p, e))
  BY KTablaMonta, KDetalleMonta
<1> HIDE DEF p, e
<1>3. KFiel(v, s, p, e)
  BY <1>1, <1>2 DEF KFiel
<1> QED BY <1>3 DEF p, e

LEMMA KFielLleva ==
    ASSUME ComprasInv, ComprasFiel, NEW i, Compras!Recibe(i), dudosa' # TRUE,
           Compras!Recibir(vuelta[i]).va # FALSE
    PROVE  KFiel(vista', srv', ida', vuelta')
<1> DEFINE m == vuelta[i]
           r == Compras!Recibir(m)
           b1 == Sin(vuelta, i)
<1>1. m.q.op \in KO
  BY DEF Compras!Recibe, Compras!Llega, ComprasInv, Correo, SonRespuestas, EsRespuesta, EsPedido
<1>2. r.va = TRUE /\ r.pide = Compras!Listar(Compras!Todas) /\ r.vista = Compras!Lista
  BY <1>1, KRecibirVa
<1>3. /\ vista' = r.vista /\ ida' = Huerfanos(ida) \o r.pide /\ vuelta' = HuerfanasDe(b1)
      /\ ida = <<>> /\ b1 = <<>>
  BY <1>2 DEF Compras!Recibe, Compras!Llega, Compras!Sin, Sin,
     Compras!Huerfanos, Huerfanos, Compras!HuerfanasDe, HuerfanasDe
<1>4. PICK q : Compras!Listar(Compras!Todas) = <<q>> /\ q.op = "listar" /\ q.tras = Compras!Todas /\ q.datos = Nada
               /\ q.viva = TRUE
  BY KListar
<1> HIDE DEF r, b1, m
<1>5. ida' = <<q>> /\ vuelta' = <<>>
  BY <1>2, <1>3, <1>4, NadieEnReposo
<1>6. vista'.ruta = "lista" /\ vista'.filtro = Compras!Todas
  BY <1>2, <1>3, KPantallas
<1> QED BY <1>4, <1>5, <1>6, KFielMonta

LEMMA KFielRecibe ==
    ASSUME ComprasInv, ComprasFiel, NEW i, Compras!Recibe(i), dudosa' # TRUE
    PROVE  KFiel(vista', srv', ida', vuelta')
<1> DEFINE m == vuelta[1]
           r == Compras!Recibir(m)
           v == vista
           w == r.vista
           b1 == Sin(vuelta, 1)
           p == <<>>
<1> SUFFICES ASSUME Compras!Recibir(vuelta[i]).va = FALSE PROVE KFiel(vista', srv', ida', vuelta')
  BY KFielLleva
<1>1. i = 1 /\ dudosa # TRUE /\ 1 \in DOMAIN vuelta /\ m.q.op \in KO /\ r.va = FALSE /\ r.duda # TRUE
  <2>1. i = 1 /\ dudosa # TRUE /\ i \in DOMAIN vuelta /\ Compras!Recibir(vuelta[i]).duda # TRUE
    BY DEF Compras!Recibe, Compras!Llega
  <2> QED BY <2>1 DEF ComprasInv, Correo, SonRespuestas, EsRespuesta, EsPedido
<1>2. /\ Sucesion(ida) /\ Sucesion(vuelta) /\ Vivas(ida, vuelta) /\ KVista(v) /\ KBanco(srv)
      /\ v.ruta = "lista" => KLista(v, srv, ida, vuelta)
      /\ v.ruta = "detalle" => KDetalle(v, srv, ida, vuelta)
      /\ (\A k \in DOMAIN vuelta : vuelta[k].ok \in BOOLEAN)
      /\ m.q.viva = TRUE /\ m.ok \in BOOLEAN /\ m.q.op \in KOps(v.ruta)
  BY <1>1 DEF ComprasFiel, KFiel, Vivas, KSuyas
<1>3. /\ r.pide = <<>> /\ KCampos(w) /\ w.ruta = v.ruta /\ w.filtro = v.filtro /\ w.id = v.id
  BY <1>1, <1>2, KRecibirQueda
<1>4. vista' = w /\ srv' = srv /\ ida' = ida \o r.pide /\ vuelta' = b1
  BY <1>1, <1>2 DEF Compras!Recibe, Compras!Llega, Compras!Sin, Sin
<1>5. ida' = ida /\ Vivas(ida, b1)
  <2>1. ida \o p = ida /\ Vivas(p, <<>>)
    BY <1>2, JuntoNada, VivasNada
  <2>2. Vivas(ida \o p, b1)
    <3> HIDE DEF p
    <3> QED BY <1>1, <1>2, <2>1, VivasLlega
  <2> QED BY <1>3, <1>4, <2>1, <2>2
<1>6. \A k \in DOMAIN b1 : b1[k].ok \in BOOLEAN
  <2>1. Salen(b1, vuelta, {})
    BY <1>1, <1>2, SalenDe
  <2> QED BY <1>2, <2>1 DEF Salen
<1>7. v.ruta = "lista" => KLista(w, srv, ida, b1)
  <2> SUFFICES ASSUME v.ruta = "lista" PROVE KLista(w, srv, ida, b1)
    OBVIOUS
  <2>1. m.q.op \in KL \cup KC
    BY <1>2 DEF KOps, KL
  <2> USE DEF Compras!Recibir, Compras!Queda, Compras!Inventa
  <2>2. m.q.op = "listar" /\ m.ok = TRUE => w.filas = m.datos["filas"]
    BY <1>2 DEF KVista, KCampos
  <2>3. m.q.op = "estado" => KEfecto(v, m, w)
    <3> SUFFICES ASSUME m.q.op = "estado" PROVE KEfecto(v, m, w)
      OBVIOUS
    <3>1. CASE m.ok = FALSE \/ m.q.id \notin DOMAIN v.filas
      <4>1. w = v
        BY <3>1
      <4> QED BY <3>1, <4>1 DEF KEfecto
    <3>2. CASE m.ok = TRUE /\ m.q.id \in DOMAIN v.filas
      <4>1. w.filtro = v.filtro
        BY <1>3
      <4>2. w = [v EXCEPT !.filas[m.q.id].estado = m.datos.estado]
        BY <3>2
      <4>3. v.filtro \in {Compras!Todas, m.datos.estado}
        BY <1>1, <3>2
      <4>4. w.filas = [v.filas EXCEPT ![m.q.id].estado = m.datos.estado]
        <5> HIDE DEF w, r
        <5> QED BY <1>2, <4>2 DEF KVista, KCampos
      <4> HIDE DEF w, r
      <4> QED BY <3>2, <4>1, <4>3, <4>4 DEF KEfecto, KEntra
    <3> QED BY <1>2, <3>1, <3>2
  <2>4. m.q.op = "eliminar" => KEfecto(v, m, w)
    <3> SUFFICES ASSUME m.q.op = "eliminar" PROVE KEfecto(v, m, w)
      OBVIOUS
    <3>1. w.filtro = v.filtro
      BY <1>3
    <3>2. CASE m.ok = FALSE
      <4>1. w.filas = v.filas
        BY <1>2, <3>2 DEF KVista, KCampos
      <4> QED BY <3>1, <3>2, <4>1 DEF KEfecto
    <3>3. CASE m.ok = TRUE
      <4>1. w.filas = [j \in DOMAIN v.filas \ {m.q.id} |-> v.filas[j]]
        BY <1>2, <3>3 DEF KVista, KCampos
      <4> QED BY <3>1, <3>3, <4>1 DEF KEfecto
    <3> QED BY <1>2, <3>2, <3>3
  <2>5. m.q.op \in KC => KEfecto(v, m, w)
    BY <2>3, <2>4 DEF KC
  <2> HIDE DEF w, r
  <2> QED BY <1>1, <1>2, <1>3, <2>1, <2>2, <2>5, KTablaLlega
<1>8. v.ruta = "detalle" => KDetalle(w, srv, ida, b1)
  <2> SUFFICES ASSUME v.ruta = "detalle" PROVE KDetalle(w, srv, ida, b1)
    OBVIOUS
  <2>1. m.q.op \in KD
    BY <1>2 DEF KOps, KD
  <2> USE DEF Compras!Recibir, Compras!Queda
  <2>2. w.id = v.id
    BY <1>3
  <2>3. m.q.op = "obtener" => KRecibe(v, m, w)
    <3> SUFFICES ASSUME m.q.op = "obtener" PROVE KRecibe(v, m, w)
      OBVIOUS
    <3>1. w.compra = IF m.ok THEN m.datos ELSE v.compra
      BY <1>2 DEF KVista, KCampos
    <3> HIDE DEF w, r
    <3> QED BY <1>2, <2>2, <3>1 DEF KRecibe
  <2>4. m.q.op = "estadoDetalle" => KRecibe(v, m, w)
    <3> SUFFICES ASSUME m.q.op = "estadoDetalle" PROVE KRecibe(v, m, w)
      OBVIOUS
    <3>1. CASE m.ok = TRUE /\ v.compra # Nada
      <4> DEFINE libre == [v EXCEPT !.ocupada = FALSE]
                 e == m.datos.estado
      <4>1. w = [libre EXCEPT !.compra.estado = e]
        BY <3>1
      <4>2. libre.compra = v.compra /\ "compra" \in DOMAIN libre
        BY <1>2 DEF KVista, KCampos
      <4> HIDE DEF w, r, libre, e
      <4>3. w.compra = [v.compra EXCEPT !.estado = e]
        BY <4>1, <4>2
      <4> QED BY <2>2, <3>1, <4>3 DEF KRecibe, e
    <3>2. CASE m.ok = FALSE \/ v.compra = Nada
      <4>1. w.compra = v.compra
        BY <1>2, <3>2 DEF KVista, KCampos
      <4> HIDE DEF w, r
      <4> QED BY <2>2, <3>2, <4>1 DEF KRecibe
    <3> QED BY <1>2, <3>1, <3>2
  <2>5. KRecibe(v, m, w)
    BY <2>1, <2>3, <2>4 DEF KD
  <2> HIDE DEF w, r
  <2> QED BY <1>1, <1>2, <2>1, <2>5, KDetalleLlega
<1> HIDE DEF w, r, b1
<1> QED BY <1>3, <1>4, <1>5, <1>6, <1>7, <1>8 DEF KFiel

LEMMA KFielPide ==
    ASSUME Vivas(ida, vuelta), NEW q, q.viva = TRUE, ida' = ida \o <<q>>, vuelta' = vuelta,
           \A k \in DOMAIN vuelta : vuelta[k].ok \in BOOLEAN
    PROVE  Vivas(ida', vuelta') /\ \A k \in DOMAIN vuelta' : vuelta'[k].ok \in BOOLEAN
BY VivasUna, VivasPide

LEMMA ComprasFielSigue == ComprasInv /\ ComprasFiel /\ Compras!Next => ComprasFiel'
<1> SUFFICES ASSUME ComprasInv, ComprasFiel, Compras!Next PROVE ComprasFiel'
  OBVIOUS
<1>1. KBanco(srv) /\ KVista(vista) /\ KCampos(vista) /\ KBase(vista, srv, ida, vuelta)
  BY DEF ComprasFiel, KBase, KVista
<1>2. KBanco(srv') /\ KVista(vista') /\ KSuyas(vista', ida', vuelta')
  BY <1>1, KBaseSigue DEF KBase
<1> SUFFICES ASSUME dudosa' # TRUE PROVE KFiel(vista', srv', ida', vuelta')
  BY <1>2 DEF ComprasFiel
<1>3. dudosa # TRUE => /\ KFiel(vista, srv, ida, vuelta) /\ Vivas(ida, vuelta) /\ Sucesion(ida)
                       /\ \A k \in DOMAIN vuelta : vuelta[k].ok \in BOOLEAN
                       /\ vista.ruta = "lista" => KLista(vista, srv, ida, vuelta)
                       /\ vista.ruta = "detalle" => KDetalle(vista, srv, ida, vuelta)
  BY DEF ComprasFiel, KFiel, Vivas
<1>4. CASE Compras!PedirBaja \/ Compras!CancelarBaja
  <2>1. /\ ida' = ida \o <<>> /\ vuelta' = vuelta /\ srv' = srv /\ dudosa # TRUE
        /\ vista'.filas = vista.filas /\ vista'.filtro = vista.filtro /\ vista'.ruta = "lista"
        /\ vista.ruta = "lista"
    BY <1>1, <1>4 DEF Compras!PedirBaja, Compras!CancelarBaja, Compras!Toque, KCampos,
       Compras!Filas, Compras!EnLista, Compras!Confirmacion
  <2>2. ida' = ida
    BY <1>3, <2>1, JuntoNada
  <2>3. KLista(vista', srv, ida, vuelta)
    BY <1>3, <2>1, KTablaToca
  <2> QED BY <1>3, <2>1, <2>2, <2>3 DEF KFiel
<1>5. CASE Compras!Filtrar \/ Compras!Actualizar
  <2>1. PICK t : /\ ida' = ida \o Compras!Listar(t) /\ vuelta' = vuelta /\ srv' = srv
                 /\ vista'.ruta = "lista" /\ vista.ruta = "lista" /\ vista'.filtro = t
                 /\ dudosa # TRUE \/ (ida = <<>> /\ vuelta = <<>>)
    BY <1>1, <1>5 DEF Compras!Filtrar, Compras!Actualizar, Compras!EnLista, Compras!Recarga, KCampos,
       Compras!EnReposo
  <2>2. PICK q : Compras!Listar(t) = <<q>> /\ q.op = "listar" /\ q.tras = t /\ q.datos = Nada
                 /\ q.viva = TRUE
    BY KListar
  <2>3. CASE ida = <<>> /\ vuelta = <<>>
    <3>1. ida' = <<q>> /\ vuelta' = <<>>
      BY <2>1, <2>2, <2>3, NadieEnReposo
    <3> QED BY <2>1, <2>2, <3>1, KFielMonta
  <2>4. CASE dudosa # TRUE
    <3>1. Vivas(ida', vuelta') /\ \A k \in DOMAIN vuelta' : vuelta'[k].ok \in BOOLEAN
      BY <1>3, <2>1, <2>2, <2>4, KFielPide
    <3>2. KLista(vista', srv, ida \o <<q>>, vuelta)
      BY <1>3, <2>1, <2>2, <2>4, KTablaBusca
    <3>3. KLista(vista', srv', ida', vuelta')
      BY <2>1, <2>2, <3>2
    <3> QED BY <2>1, <3>1, <3>3 DEF KFiel
  <2> QED BY <2>1, <2>3, <2>4
<1>6. ASSUME NEW q, q.viva = TRUE, q.op \in KC, q.op = "estado" => q.id \in DOMAIN vista.filas,
             NEW w, w.filas = vista.filas, w.filtro = vista.filtro, w.ruta = "lista", vista.ruta = "lista",
             Compras!Cambia(w, <<q>>)
      PROVE  KFiel(vista', srv', ida', vuelta')
  <2>1. /\ dudosa # TRUE /\ Compras!EnVuelo({"listar"}) = 0
        /\ vista' = w /\ ida' = ida \o <<q>> /\ vuelta' = vuelta /\ srv' = srv
    BY <1>6 DEF Compras!Cambia, Compras!Toque, Compras!Tropiezo
  <2>2. EnVuelo({"listar"}) = 0
    BY <2>1 DEF Compras!EnVuelo, EnVuelo, Compras!Cardinality, Cardinality
  <2>3. /\ \A k \in DOMAIN ida : ida[k].op # "listar"
        /\ \A k \in DOMAIN vuelta : vuelta[k].q.op # "listar"
    BY <1>3, <2>1, <2>2, NadieVuela
  <2>4. KLista(vista, srv, ida \o <<q>>, vuelta)
    BY <1>3, <1>6, <2>1, <2>3, KTablaPide
  <2>5. KLista(w, srv, ida \o <<q>>, vuelta)
    BY <1>6, <2>4, KTablaToca
  <2>6. Vivas(ida', vuelta') /\ \A k \in DOMAIN vuelta' : vuelta'[k].ok \in BOOLEAN
    BY <1>3, <1>6, <2>1, KFielPide
  <2>7. KLista(vista', srv', ida', vuelta')
    BY <2>1, <2>5
  <2> QED BY <1>6, <2>1, <2>6, <2>7 DEF KFiel
<1>7. CASE Compras!CambiarEstado
  <2>1. PICK j, e : /\ vista.ruta = "lista" /\ j \in DOMAIN vista.filas
                    /\ Compras!Cambia(vista, <<Compras!Tras(Compras!Pedido("estado", j, Nada), e)>>)
    BY <1>7 DEF Compras!CambiarEstado, Compras!Filas, Compras!EnLista
  <2> DEFINE q == Compras!Tras(Compras!Pedido("estado", j, Nada), e)
  <2>2. q.op = "estado" /\ q.viva = TRUE /\ q.id = j
    BY DEF Compras!Tras, Compras!Pedido
  <2> HIDE DEF q
  <2>3. Compras!Cambia(vista, <<q>>) /\ q.op \in KC
    BY <2>1, <2>2 DEF q, KC
  <2> QED BY <1>6, <2>1, <2>2, <2>3
<1>8. CASE Compras!ConfirmarBaja
  <2> DEFINE q == Compras!Pedido("eliminar", vista.borrar, Nada)
             w == [vista EXCEPT !.ocupada = TRUE]
  <2>1. vista.ruta = "lista" /\ Compras!Cambia(w, <<q>>)
    BY <1>8 DEF Compras!ConfirmarBaja, Compras!Confirmacion
  <2>2. q.op = "eliminar" /\ q.viva = TRUE
    BY DEF Compras!Pedido
  <2>3. w.filas = vista.filas /\ w.filtro = vista.filtro /\ w.ruta = vista.ruta
    BY <1>1 DEF KCampos
  <2> HIDE DEF q, w
  <2>4. q.op \in KC
    BY <2>2 DEF KC
  <2> QED BY <1>6, <2>1, <2>2, <2>3, <2>4
<1>9. CASE Compras!GuardarCompra
  <2>1. PICK datos : /\ vista.ruta = "nueva"
                     /\ Compras!Toque([vista EXCEPT !.ocupada = TRUE], <<Compras!Pedido("crear", Compras!Nadie, datos)>>)
    BY <1>9 DEF Compras!GuardarCompra, Compras!EnNueva
  <2> DEFINE q == Compras!Pedido("crear", Compras!Nadie, datos)
  <2>2. q.viva = TRUE
    BY DEF Compras!Pedido
  <2> HIDE DEF q
  <2>3. /\ ida' = ida \o <<q>> /\ vuelta' = vuelta /\ dudosa # TRUE /\ vista'.ruta = "nueva"
    BY <1>1, <2>1 DEF Compras!Toque, KCampos, q
  <2>4. Vivas(ida', vuelta') /\ \A k \in DOMAIN vuelta' : vuelta'[k].ok \in BOOLEAN
    BY <1>3, <2>2, <2>3, KFielPide
  <2> QED BY <2>3, <2>4 DEF KFiel
<1>10. CASE Compras!CambiarEstadoDetalle
  <2>1. PICK e : /\ vista.ruta = "detalle"
                 /\ Compras!Toque([vista EXCEPT !.ocupada = TRUE],
                                  <<Compras!Tras(Compras!Pedido("estadoDetalle", vista.id, Nada), e)>>)
    BY <1>10 DEF Compras!CambiarEstadoDetalle, Compras!EnDetalle
  <2> DEFINE q == Compras!Tras(Compras!Pedido("estadoDetalle", vista.id, Nada), e)
  <2>2. q.viva = TRUE /\ q.id = vista.id
    BY DEF Compras!Pedido, Compras!Tras
  <2> HIDE DEF q
  <2>3. /\ ida' = ida \o <<q>> /\ vuelta' = vuelta /\ srv' = srv /\ dudosa # TRUE
        /\ vista'.ruta = "detalle" /\ vista'.id = vista.id /\ vista'.compra = vista.compra
    BY <1>1, <2>1 DEF Compras!Toque, KCampos, q
  <2>4. Vivas(ida', vuelta') /\ \A k \in DOMAIN vuelta' : vuelta'[k].ok \in BOOLEAN
    BY <1>3, <2>2, <2>3, KFielPide
  <2>5. KDetalle(vista', srv, ida \o <<q>>, vuelta)
    BY <1>3, <2>1, <2>2, <2>3, KDetallePide
  <2>6. KDetalle(vista', srv', ida', vuelta')
    BY <2>3, <2>5
  <2> QED BY <2>3, <2>4, <2>6 DEF KFiel
<1>11. ASSUME NEW v, NEW q, q.viva = TRUE, KMontaje(v, <<q>>),
              v.ruta = "lista" => q.op = "listar" /\ q.tras = v.filtro /\ q.datos = Nada,
              v.ruta = "detalle" => v.compra = Nada /\ q.id = v.id
       PROVE  KFiel(vista', srv', ida', vuelta')
  <2>1. vista' = v /\ ida' = <<q>> /\ vuelta' = <<>>
    BY <1>11, NadieEnReposo DEF KMontaje
  <2> QED BY <1>11, <2>1, KFielMonta
<1>12. CASE Compras!IrANueva
  <2>1. KMontaje(Compras!Nueva, <<>>)
    BY <1>12, KMonta DEF Compras!IrANueva
  <2>2. vista'.ruta = "nueva"
    BY <2>1, KPantallas DEF KMontaje
  <2> DEFINE e == <<>>
  <2>3. e \o e = e /\ Vivas(e, e) /\ DOMAIN e = {} /\ Huerfanos(e) = e /\ HuerfanasDe(e) = e
    BY SucesionUna, JuntoNada, VivasNada, NadieEnReposo
  <2>4. ida' = e /\ vuelta' = e
    BY <2>1, <2>3 DEF KMontaje
  <2> HIDE DEF e
  <2> QED BY <2>2, <2>3, <2>4 DEF KFiel
<1>13. CASE Compras!IrADetalle
  <2>1. PICK j : Compras!Montar(Compras!Detalle(j), <<Compras!Pedido("obtener", j, Nada)>>)
    BY <1>13 DEF Compras!IrADetalle
  <2> DEFINE q == Compras!Pedido("obtener", j, Nada)
             v == Compras!Detalle(j)
  <2>2. KMontaje(v, <<q>>)
    BY <2>1, KMonta
  <2>3. q.viva = TRUE /\ q.id = j
    BY DEF Compras!Pedido
  <2>4. v.ruta = "detalle" /\ v.id = j /\ v.compra = Nada
    BY KPantallas
  <2> HIDE DEF q, v
  <2> QED BY <1>11, <2>2, <2>3, <2>4
<1>14. CASE Compras!Volver
  <2> DEFINE v == Compras!Lista
  <2>1. KMontaje(v, Compras!Listar(Compras!Todas))
    BY <1>14, KMonta DEF Compras!Volver
  <2>2. PICK q : Compras!Listar(Compras!Todas) = <<q>> /\ q.op = "listar" /\ q.tras = Compras!Todas /\ q.datos = Nada
                 /\ q.viva = TRUE
    BY KListar
  <2>3. v.ruta = "lista" /\ v.filtro = Compras!Todas
    BY KPantallas
  <2> HIDE DEF v
  <2> QED BY <1>11, <2>1, <2>2, <2>3
<1>15. ASSUME NEW i, Compras!Responde(i) \/ Compras!Recibe(i) PROVE KFiel(vista', srv', ida', vuelta')
  BY <1>15, KFielResponde, KFielRecibe
<1> QED BY <1>4, <1>5, <1>7, <1>8, <1>9, <1>10, <1>12, <1>13, <1>14, <1>15 DEF Compras!Next

LEMMA ComprasFielEmpieza == Compras!Init => ComprasFiel
<1> SUFFICES ASSUME Compras!Init PROVE ComprasFiel
  OBVIOUS
<1>1. PICK q : Compras!Listar(Compras!Todas) = <<q>> /\ q.op = "listar" /\ q.tras = Compras!Todas /\ q.datos = Nada
               /\ q.viva = TRUE
  BY KListar
<1>2. ida = <<q>> /\ vuelta = <<>> /\ vista = Compras!Lista
  BY <1>1 DEF Compras!Init, Compras!PeticionesInit
<1>3. KVista(vista) /\ vista.ruta = "lista" /\ vista.filtro = Compras!Todas
  BY <1>2, KPantallas
<1>4. KBanco(srv)
  <2> DEFINE z == [estado |-> "pendiente", total |-> 121, pagado |-> 0]
             s == <<z>>
  <2>1. srv = s
    BY DEF Compras!Init
  <2>2. KFila(z)
    BY DEF KFila
  <2>3. DOMAIN s = {1} /\ s[1] = z
    BY SucesionUna
  <2> HIDE DEF s, z
  <2> QED BY <2>1, <2>2, <2>3 DEF KBanco
<1>5. KSuyas(vista, ida, vuelta)
  <2>1. DOMAIN ida = {1} /\ ida[1] = q /\ DOMAIN vuelta = {}
    BY <1>2, SucesionUna
  <2> QED BY <1>1, <1>3, <2>1 DEF KSuyas, KOps
<1>6. KFiel(vista, srv, ida, vuelta)
  BY <1>1, <1>2, <1>3, KFielMonta
<1> QED BY <1>3, <1>4, <1>5, <1>6 DEF ComprasFiel

LEMMA ComprasFielDice == ComprasFiel /\ EnReposo /\ dudosa # TRUE => Compras!Mostrado
<1> SUFFICES ASSUME KFiel(vista, srv, <<>>, <<>>), KVista(vista) PROVE Compras!Mostrado
  BY DEF ComprasFiel, EnReposo
<1> DEFINE e == <<>>
           v == vista
           s == srv
<1>1. DOMAIN e = {} /\ (v.ruta = "lista" => KLista(v, s, e, e)) /\ (v.ruta = "detalle" => KDetalle(v, s, e, e))
  BY SucesionUna DEF KFiel
<1>2. v.ruta = "lista" => v.filas = Compras!DelEstado(s, v.filtro)
  <2> SUFFICES ASSUME v.ruta = "lista" PROVE v.filas = Compras!DelEstado(s, v.filtro)
    OBVIOUS
  <2>1. Fresca(e, e, KListas, KFilas(v, s, e, e), {Compras!DelEstado(s, v.filtro)})
    BY <1>1 DEF KLista
  <2>2. KFilas(v, s, e, e)
    BY <2>1, FrescaEnReposo
  <2>3. \A i \in DOMAIN s : Fresca(e, e, KDe("estado", i), KTal(v, s, i), {s[i]})
    BY <2>2 DEF KFilas, KFrescas
  <2>4. ASSUME NEW i \in DOMAIN s PROVE KTal(v, s, i)
    <3> DEFINE c == KDe("estado", i)
               P == KTal(v, s, i)
               Y == {s[i]}
    <3>1. Fresca(<<>>, <<>>, c, P, Y)
      BY <2>3
    <3> HIDE DEF c, P, Y
    <3>2. P
      BY <3>1, FrescaEnReposo
    <3> QED BY <3>2 DEF P
  <2>5. KRenglones(v, s, e)
    BY <2>2 DEF KFilas
  <2> HIDE DEF e, v, s
  <2>6. \A i : ~KBorrada(e, i)
    BY <1>1 DEF KBorrada
  <2>7. \A i : i \in DOMAIN v.filas <=> i \in DOMAIN s /\ KEntra(v.filtro, s[i])
    BY <2>4, <2>5, <2>6 DEF KRenglones, KTal
  <2>8. DOMAIN v.filas = {j \in DOMAIN s : v.filtro \in {Compras!Todas, s[j].estado}}
    BY <2>7 DEF KEntra
  <2>9. v.filas = [i \in DOMAIN v.filas |-> s[i]]
    BY <2>4, <2>5, <2>7 DEF KRenglones, KTal
  <2> QED BY <2>8, <2>9 DEF Compras!DelEstado
<1>3. v.compra # Nada => v.id \in DOMAIN s /\ v.compra = s[v.id]
  <2> SUFFICES ASSUME v.compra # Nada PROVE v.id \in DOMAIN s /\ v.compra = s[v.id]
    OBVIOUS
  <2>1. v.ruta = "detalle"
    BY DEF KVista
  <2>2. Fresca(e, e, KDetalles(v.id), KCompra(v, s), {s[v.id]})
    BY <1>1, <2>1 DEF KDetalle
  <2>3. KCompra(v, s)
    BY <2>2, FrescaEnReposo
  <2> QED BY <2>3 DEF KCompra
<1> QED BY <1>2, <1>3 DEF Compras!Mostrado

LEMMA ComprasFielQuieta == ComprasFiel /\ UNCHANGED vars => ComprasFiel'
<1> SUFFICES ASSUME ComprasFiel, UNCHANGED vars PROVE ComprasFiel'
  OBVIOUS
<1>1. vista' = vista /\ srv' = srv /\ ida' = ida /\ vuelta' = vuelta /\ dudosa' = dudosa
  BY DEF vars
<1>2. /\ KBanco(srv) /\ KVista(vista) /\ KSuyas(vista, ida, vuelta)
      /\ dudosa # TRUE => KFiel(vista, srv, ida, vuelta)
  BY DEF ComprasFiel
<1>3. /\ KBanco(srv') /\ KVista(vista') /\ KSuyas(vista', ida', vuelta')
      /\ dudosa' # TRUE => KFiel(vista', srv', ida', vuelta')
  BY <1>1, <1>2
<1> QED BY <1>3 DEF ComprasFiel

-----------------------------------------------------------------------------
(* The history of the sales: those of the period that is shown.            *)

HCanal == Canal({"listar"}, {"anular"}, {"listar"}, {}, <<"todo">>)
HTabla(v, s, a, b) ==
    Vivas(a, b) /\ Fresca(a, b, HCanal, v.ventas = Historial!DelPeriodo(s, v.periodo),
                          {Historial!DelPeriodo(s, v.periodo)})
\* What is on its way is of the period that is shown.
HPeriodo(v, a, b) ==
    /\ Encargada(a, {"listar"}, {<<v.periodo, Nada>>})
    /\ \A k \in DOMAIN a : a[k].op = "anular" => a[k].tras = v.periodo
    /\ \A k \in DOMAIN b : b[k].q.op = "anular" => b[k].q.tras = v.periodo
HFiel(v, s, a, b) == HTabla(v, s, a, b) /\ HPeriodo(v, a, b)
HistorialFiel == dudosa # TRUE => HFiel(vista, srv, ida, vuelta)

LEMMA HCuenta == \A K : Historial!EnVuelo(K) = EnVuelo(K)
BY DEF Historial!EnVuelo, EnVuelo, Historial!Cardinality, Cardinality

LEMMA HHabla ==
    ASSUME NEW m
    PROVE  /\ HCanal.pide = {"listar"} /\ HCanal.relee = {"anular"}
           /\ Habla(m, HCanal) <=> m.q.op = "listar"
           /\ Dicho(m, HCanal.dato) = m.datos
BY DEF HCanal, Canal, Habla, Dicho

\* A click that leaves the table as it is.
LEMMA HQuieto ==
    ASSUME NEW v, NEW s, NEW a, NEW b, HFiel(v, s, a, b), NEW w, w.ventas = v.ventas, w.periodo = v.periodo,
           NEW u, \/ u = a \o <<>>
                  \/ \E q : /\ q.viva = TRUE /\ u = a \o <<q>> /\ (q.op = "listar" => Que(q) = <<v.periodo, Nada>>)
                            /\ (q.op = "anular" => q.tras = v.periodo)
    PROVE  HFiel(w, s, u, b)
<1> DEFINE P == v.ventas = Historial!DelPeriodo(s, v.periodo)
           P1 == w.ventas = Historial!DelPeriodo(s, w.periodo)
           Y == {Historial!DelPeriodo(s, v.periodo)}
           t == <<v.periodo, Nada>>
           K == {"listar"}
<1>1. /\ Vivas(a, b) /\ Sucesion(a) /\ Sucesion(b) /\ (P => P1) /\ Fresca(a, b, HCanal, P, Y)
      /\ Encargada(a, K, {t})
  BY DEF HFiel, HTabla, HPeriodo, Vivas
<1>2. HFiel(w, s, u, b) <=> /\ Vivas(u, b) /\ Fresca(u, b, HCanal, P1, Y) /\ Encargada(u, K, {t})
                            /\ \A k \in DOMAIN u : u[k].op = "anular" => u[k].tras = v.periodo
                            /\ \A k \in DOMAIN b : b[k].q.op = "anular" => b[k].q.tras = v.periodo
  BY DEF HFiel, HTabla, HPeriodo
<1> HIDE DEF P, P1, Y
<1>3. CASE u = a \o <<>>
  <2> DEFINE p == <<>>
  <2>1. Vivas(p, <<>>) /\ Sucesion(p) /\ u = a \o p /\ Salen(u, a, {}) /\ SonJuntos(u, a, p)
    BY <1>1, <1>3, PideNada, SalenDe, JuntosDeTodo
  <2>2. u = a
    <3>1. a \o <<>> = a
      BY <1>1, ConcatEmptySeq DEF Sucesion
    <3> QED BY <1>3, <3>1
  <2> HIDE DEF p
  <2>3. Vivas(u, b) /\ Fresca(u, b, HCanal, P1, Y)
    BY <1>1, <2>1, VivasPide, FrescaPide
  <2> QED BY <1>1, <1>2, <2>2, <2>3 DEF HFiel, HPeriodo
<1>4. ASSUME NEW q, q.viva = TRUE, u = a \o <<q>>, q.op = "listar" => Que(q) = t, q.op = "anular" => q.tras = v.periodo
      PROVE  HFiel(w, s, u, b)
  <2> DEFINE p == <<q>>
  <2>1. Vivas(p, <<>>) /\ Sucesion(p) /\ u = a \o p /\ Salen(u, a, {q})
    BY <1>1, <1>4, PideUna, SalenDe
  <2> HIDE DEF p
  <2>2. Vivas(u, b) /\ Fresca(u, b, HCanal, P1, Y)
    BY <1>1, <2>1, VivasPide, FrescaPide
  <2>3. Encargada(a \o <<q>>, K, {t})
    <3> HIDE DEF t
    <3> QED BY <1>1, <1>4, EncargadaPide
  <2>4. \A k \in DOMAIN u : u[k].op = "anular" => u[k].tras = v.periodo
    BY <1>4, <2>1 DEF Salen, HFiel, HPeriodo
  <2> QED BY <1>2, <1>4, <2>2, <2>3, <2>4 DEF HFiel, HPeriodo
<1> QED BY <1>3, <1>4

\* Everything is asked for again, of whatever period, with no annulment on its way.
LEMMA HDeNuevo ==
    ASSUME NEW v, NEW s, NEW a, NEW b, Vivas(a, b), NEW q, q.viva = TRUE, q.op = "listar",
           Que(q) = <<v.periodo, Nada>>,
           \A k \in DOMAIN a : a[k].op = "anular" => a[k].tras = v.periodo,
           \A k \in DOMAIN b : b[k].q.op = "anular" => b[k].q.tras = v.periodo
    PROVE  HFiel(v, s, a \o <<q>>, b)
<1> DEFINE P == v.ventas = Historial!DelPeriodo(s, v.periodo)
           Y == {Historial!DelPeriodo(s, v.periodo)}
           t == <<v.periodo, Nada>>
           K == {"listar"}
           p == <<q>>
           u == a \o p
<1>1. Sucesion(a) /\ Vivas(p, <<>>) /\ Sucesion(p) /\ Hay(p, HCanal.pide) /\ Salen(u, a, {q})
  BY PideUna, SalenDe, HHabla DEF Vivas
<1>2. Encargada(u, K, {t})
  <2>1. q.op \in K /\ Que(q) = t /\ Sucesion(a)
    BY <1>1
  <2> HIDE DEF t, K, u, p, P, Y
  <2>2. Encargada(a \o <<q>>, K, {t})
    BY <2>1, EncargadaUltima
  <2> QED BY <2>2 DEF u, p
<1>3. \A k \in DOMAIN u : u[k].op = "anular" => u[k].tras = v.periodo
  <2> HIDE DEF u, p
  <2> QED BY <1>1 DEF Salen
<1>4. HFiel(v, s, u, b) <=> /\ Vivas(u, b) /\ Fresca(u, b, HCanal, P, Y) /\ Encargada(u, K, {t})
                            /\ \A k \in DOMAIN u : u[k].op = "anular" => u[k].tras = v.periodo
                            /\ \A k \in DOMAIN b : b[k].q.op = "anular" => b[k].q.tras = v.periodo
  <2> HIDE DEF u, p
  <2> QED BY DEF HFiel, HTabla, HPeriodo
<1> HIDE DEF P, Y, p
<1>5. Vivas(u, b) /\ Fresca(u, b, HCanal, P, Y)
  BY <1>1, VivasPide, FrescaPidiendo
<1>6. HFiel(v, s, u, b)
  <2> HIDE DEF u, t, K
  <2> QED BY <1>2, <1>3, <1>4, <1>5
<1> QED BY <1>6 DEF p

LEMMA HFielResponde ==
    ASSUME HistorialInv, HistorialFiel, NEW i, Historial!Responde(i), dudosa' # TRUE
    PROVE  HFiel(vista', srv', ida', vuelta')
<1> DEFINE q == ida[1]
           r == Historial!Servidor(srv, q)
           ok == r.ok
           d == r.datos
           m == [q |-> q, ok |-> ok, datos |-> d]
           z == Historial!DelPeriodo(srv, vista.periodo)
           z1 == Historial!DelPeriodo(srv', vista.periodo)
           t == <<vista.periodo, Nada>>
           K == {"listar"}
<1>1. /\ 1 \in DOMAIN ida /\ srv' = r.srv /\ ida' = Sin(ida, 1) /\ vista' = vista
      /\ vuelta' = Append(vuelta, m) /\ dudosa # TRUE
  BY DEF Historial!Responde, Historial!Atiende, Historial!Sin, Sin
<1>2. HTabla(vista, srv, ida, vuelta) /\ HPeriodo(vista, ida, vuelta)
  BY <1>1 DEF HistorialFiel, HFiel
<1>3. q.op \in {"listar", "anular", "comprobante", "documento"}
  <2>1. q \in HPedidos
    BY <1>1, ElementOfSeq DEF HistorialInv
  <2> HIDE DEF q
  <2> QED BY <2>1 DEF HPedidos
<1> DEFINE P == vista.ventas = z
           P1 == vista.ventas = z1
           Y == {z}
           Y1 == {z1}
<1>4. Sucesion(ida) /\ Sucesion(vuelta) /\ Vivas(ida, vuelta) /\ Fresca(ida, vuelta, HCanal, P, Y)
      /\ Encargada(ida, K, {t})
  BY <1>2 DEF HTabla, Vivas, HPeriodo
<1>5. \/ q.op = "listar" /\ ok = TRUE /\ d = Historial!DelPeriodo(srv, q.tras) /\ r.srv = srv
      \/ q.op = "anular" /\ ok = TRUE
      \/ q.op # "listar" /\ r.srv = srv
  BY <1>3 DEF Historial!Servidor, Historial!Acepta, Historial!Rechaza
<1>6. /\ r.srv = srv => (P => P1) /\ Y \subseteq Y1 /\ z \in Y1
      /\ q.op = ida[1].op
  BY <1>1
<1>7. m.q = q /\ m.ok = ok /\ m.datos = d
  OBVIOUS
<1>8. m = [q |-> ida[1], ok |-> ok, datos |-> d]
  OBVIOUS
<1>9. Que(q) = t => q.tras = vista.periodo
  BY DEF Que
<1>10. Encargada(Sin(ida, 1), K, {t}) /\ (ida[1].op \in K => Que(ida[1]) = t \/ Hay(Sin(ida, 1), K))
  <2> HIDE DEF t, K
  <2> QED BY <1>1, <1>4, EncargadaToma
<1> HIDE DEF P, P1, Y, Y1, m, r, ok, d, t
<1>11. (Habla(m, HCanal) <=> q.op = "listar") /\ Dicho(m, HCanal.dato) = d /\ HCanal.pide = K /\ HCanal.relee = {"anular"}
  BY <1>7, HHabla
<1>12. Vivas(ida', vuelta')
  BY <1>1, <1>4, <1>8, VivasToma
<1>13. Fresca(Sin(ida, 1), Append(vuelta, m), HCanal, P1, Y1)
  <2>1. CASE q.op = "listar" /\ Que(q) = t
    <3>1. ok = TRUE /\ Habla(m, HCanal) /\ Dicho(m, HCanal.dato) \in Y1
      BY <1>5, <1>6, <1>9, <1>11, <2>1
    <3> QED BY <1>1, <1>4, <1>8, <3>1, TomaDice
  <2>2. CASE Hay(Sin(ida, 1), K)
    BY <1>11, <2>2, TomaAunPide
  <2>3. CASE q.op = "anular" /\ ok = TRUE
    <3>1. ida[1].op \in HCanal.relee
      BY <1>11, <2>3
    <3> QED BY <1>1, <1>4, <1>8, <2>3, <3>1, TomaCambia
  <2>4. CASE q.op # "listar" /\ r.srv = srv
    <3>1. ida[1].op \notin HCanal.pide /\ ~Habla(m, HCanal) /\ (P => P1) /\ Y \subseteq Y1
      BY <1>6, <1>11, <2>4
    <3> QED BY <1>1, <1>4, <1>8, <3>1, TomaSigue
  <2> QED BY <1>5, <1>10, <2>1, <2>2, <2>3, <2>4
<1>14. HPeriodo(vista, ida', vuelta')
  <2>1. Salen(Sin(ida, 1), ida, {}) /\ Salen(Append(vuelta, m), vuelta, {m})
    BY <1>1, <1>4, SalenDe
  <2> QED BY <1>1, <1>2, <1>7, <1>10, <2>1 DEF HPeriodo, Salen, t
<1> QED BY <1>1, <1>12, <1>13, <1>14 DEF HFiel, HTabla, P1, Y1

LEMMA HFielRecibe ==
    ASSUME HistorialInv, HistorialFiel, NEW i, Historial!Recibe(i), dudosa' # TRUE
    PROVE  HFiel(vista', srv', ida', vuelta')
<1> DEFINE m == vuelta[1]
           r == Historial!Recibir(m)
           q == Tras(Pedido("listar", Nadie, Nada), m.q.tras)
           x == Tras(Pedido("documento", m.q.id, Nada), m.q.tras)
           HO == {"listar", "anular", "comprobante", "documento"}
<1>1. i = 1 /\ dudosa # TRUE /\ 1 \in DOMAIN vuelta /\ m.q.op \in HO /\ m.ok \in BOOLEAN /\ vista \in HVista
  <2>1. i \in DOMAIN vuelta /\ vuelta[i] \in HRespuestas(srv) /\ vista \in HVista
    BY ElementOfSeq DEF Historial!Recibe, Historial!Llega, HistorialInv, HVista
  <2>2. vuelta[i].q.op \in HO /\ vuelta[i].ok \in BOOLEAN
    BY <2>1 DEF HRespuestas, HPedidos
  <2>3. Historial!Recibir(vuelta[i]).va = FALSE
    BY <2>2 DEF Historial!Recibir, Historial!Queda, Historial!Pide, Historial!AlAnular, Historial!Releer
  <2>4. i = 1 /\ dudosa # TRUE
    BY <2>3 DEF Historial!Recibe, Historial!Llega
  <2> QED BY <2>1, <2>2, <2>4
<1>2. HTabla(vista, srv, ida, vuelta) /\ HPeriodo(vista, ida, vuelta)
  BY <1>1 DEF HistorialFiel, HFiel
<1>3. Sucesion(ida) /\ Sucesion(vuelta) /\ Vivas(ida, vuelta) /\ m.q.viva = TRUE
  BY <1>1, <1>2 DEF HTabla, Vivas
<1>4. /\ r.va = FALSE
      /\ r.vista.periodo = vista.periodo
      /\ \/ m.q.op = "listar" /\ r.pide = <<>> /\ (m.ok = TRUE => r.vista.ventas = m.datos)
         \/ m.q.op = "anular" /\ m.ok = TRUE /\ r.pide = <<q>>
         \/ m.q.op = "anular" /\ m.ok # TRUE /\ r.pide = <<>> /\ r.vista.ventas = vista.ventas
         \/ m.q.op \in {"comprobante", "documento"} /\ r.pide \in {<<>>, <<x>>} /\ r.vista.ventas = vista.ventas
  BY <1>1, <1>3 DEF Historial!Recibir, Historial!Queda, Historial!Pide, Historial!Listar, Historial!AlAnular,
     Historial!Releer, Historial!Pedido, Pedido, Historial!Nadie, Nadie, Historial!Tras, Tras, HVista
<1>5. /\ vista' = r.vista /\ srv' = srv
      /\ ida' = ida \o r.pide /\ vuelta' = Sin(vuelta, 1)
  BY <1>1, <1>3, <1>4 DEF Historial!Recibe, Historial!Llega, Historial!Sin, Sin
<1>6. q.op = "listar" /\ q.viva = TRUE /\ x.op = "documento" /\ x.viva = TRUE /\ Que(q) = <<m.q.tras, Nada>>
  BY DEF Pedido, Tras, Que
<1> DEFINE t == <<vista.periodo, Nada>>
           K == {"listar"}
           z == Historial!DelPeriodo(srv, vista.periodo)
           P == vista.ventas = z
           P1 == r.vista.ventas = z
           Y == {z}
           p == r.pide
<1>7. Fresca(ida, vuelta, HCanal, P, Y) /\ Encargada(ida, K, {t})
  BY <1>2 DEF HTabla, HPeriodo
<1>8. m.ok = TRUE /\ m.datos \in Y /\ m.q.op = "listar" => P1
  BY <1>4
<1>9. m.q.op # "listar" /\ P /\ ~(m.q.op = "anular" /\ m.ok = TRUE) => P1
  BY <1>4
<1>10. m.q.op = "anular" => Que(q) = t
  BY <1>1, <1>2, <1>6 DEF HPeriodo
<1>11. /\ Vivas(p, <<>>) /\ Salen(ida \o p, ida, {q, x})
       /\ \/ Hay(p, HCanal.pide)
          \/ m.ok = TRUE => m.q.op \notin {"anular"}
       /\ Encargada(ida \o p, K, {t})
  <2>1. /\ Vivas(<<q>>, <<>>) /\ Hay(<<q>>, HCanal.pide) /\ Vivas(<<>>, <<>>) /\ Vivas(<<x>>, <<>>)
        /\ Salen(ida \o <<>>, ida, {}) /\ Salen(ida \o <<q>>, ida, {q}) /\ Salen(ida \o <<x>>, ida, {x})
    <3> HIDE DEF q, x
    <3> QED BY <1>3, <1>6, HHabla, PideNada, PideUna, SalenDe
  <2>2. ida \o <<>> = ida
    BY <1>3, JuntoNada
  <2>3. Encargada(ida \o <<x>>, K, {t}) /\ (m.q.op = "anular" => Encargada(ida \o <<q>>, K, {t}))
    <3>1. x.op \notin K /\ q.op \in K
      BY <1>6
    <3> HIDE DEF q, x, t, K, m
    <3> QED BY <1>3, <1>7, <1>10, <3>1, EncargadaPide
  <2>4. \A A, B : A \subseteq B => (Salen(ida \o p, ida, A) => Salen(ida \o p, ida, B))
    BY DEF Salen
  <2>5. \/ p = <<>> /\ (m.q.op = "anular" => m.ok # TRUE)
        \/ m.q.op = "anular" /\ p = <<q>>
        \/ m.q.op \in {"comprobante", "documento"} /\ p = <<x>>
    BY <1>4
  <2>6. Encargada(ida, K, {t}) /\ {} \subseteq {q, x} /\ {q} \subseteq {q, x} /\ {x} \subseteq {q, x}
    BY <1>7
  <2> HIDE DEF q, x, r, m, p, t, K, z, P, P1, Y
  <2>7. CASE p = <<>> /\ (m.q.op = "anular" => m.ok # TRUE)
    <3>1. Salen(ida \o p, ida, {q, x})
      BY <2>1, <2>4, <2>6, <2>7
    <3>2. ida \o p = ida
      BY <2>2, <2>7
    <3>3. Vivas(p, <<>>) /\ (m.ok = TRUE => m.q.op # "anular")
      BY <2>1, <2>7
    <3>4. Encargada(ida \o p, K, {t})
      BY <2>6, <3>2
    <3> QED BY <3>1, <3>3, <3>4
  <2>8. CASE m.q.op = "anular" /\ p = <<q>>
    <3>1. Salen(ida \o p, ida, {q, x})
      BY <2>1, <2>4, <2>6, <2>8
    <3>2. Vivas(p, <<>>) /\ Hay(p, HCanal.pide)
      BY <2>1, <2>8
    <3>3. Encargada(ida \o p, K, {t})
      BY <2>3, <2>8
    <3> QED BY <3>1, <3>2, <3>3
  <2>9. CASE m.q.op \in {"comprobante", "documento"} /\ p = <<x>>
    <3>1. Salen(ida \o p, ida, {q, x})
      BY <2>1, <2>4, <2>6, <2>9
    <3>2. Vivas(p, <<>>) /\ m.q.op # "anular"
      BY <2>1, <2>9
    <3>3. Encargada(ida \o p, K, {t})
      BY <2>3, <2>9
    <3> QED BY <3>1, <3>2, <3>3
  <2> QED BY <2>5, <2>7, <2>8, <2>9
<1>12. (Habla(m, HCanal) <=> m.q.op = "listar") /\ Dicho(m, HCanal.dato) = m.datos /\ HCanal.relee = {"anular"}
  BY HHabla
<1> HIDE DEF P, P1, Y, p, r, q, x
<1>13. Fresca(ida \o p, Sin(vuelta, 1), HCanal, P1, Y)
  BY <1>1, <1>3, <1>7, <1>8, <1>9, <1>11, <1>12, FrescaRecibe
<1>14. Vivas(ida \o p, Sin(vuelta, 1))
  BY <1>1, <1>3, <1>11, VivasLlega
<1>15. HPeriodo(r.vista, ida \o p, Sin(vuelta, 1))
  <2>1. Salen(Sin(vuelta, 1), vuelta, {})
    BY <1>1, <1>3, SalenDe
  <2> QED BY <1>1, <1>2, <1>4, <1>6, <1>11, <2>1 DEF HPeriodo, Salen
<1> QED BY <1>3, <1>4, <1>5, <1>13, <1>14, <1>15 DEF HFiel, HTabla, P1, Y, p

LEMMA HFielEstrena ==
    ASSUME NEW v, NEW s
    PROVE  HFiel(v, s, <<Tras(Pedido("listar", Nadie, Nada), v.periodo)>>, <<>>)
<1> DEFINE q == Tras(Pedido("listar", Nadie, Nada), v.periodo)
<1>1. q.viva = TRUE /\ q.op = "listar" /\ Que(q) = <<v.periodo, Nada>>
  BY DEF Pedido, Tras, Que
<1> HIDE DEF q
<1>2. HFiel(v, s, <<>> \o <<q>>, <<>>)
  BY <1>1, VivasNada, SucesionUna, HDeNuevo
<1>3. HFiel(v, s, <<q>>, <<>>)
  BY <1>2, NadieEnReposo
<1> QED BY <1>3 DEF q

LEMMA HistorialFielSigue == HistorialInv /\ HistorialFiel /\ Historial!Next => HistorialFiel'
<1> SUFFICES ASSUME HistorialInv, HistorialFiel, Historial!Next, dudosa' # TRUE
             PROVE  HFiel(vista', srv', ida', vuelta')
  BY DEF HistorialFiel, HFiel, HTabla, HPeriodo, Encargada, Encarga, Vivas, Sucesion, Fresca, Hay, Confirma, Dice,
     Ultima, Habla, Dicho, HCanal
<1>1. dudosa # TRUE => HFiel(vista, srv, ida, vuelta) /\ Vivas(ida, vuelta) /\ Sucesion(ida)
  BY DEF HistorialFiel, HFiel, HTabla, Vivas
<1>2. vista \in HVista
  BY DEF HistorialInv, HVista
<1> DEFINE Suya == dudosa # TRUE /\ srv' = srv /\ vuelta' = vuelta /\ vista'.ventas = vista.ventas
                   /\ vista'.periodo = vista.periodo
           L(p) == Tras(Pedido("listar", Nadie, Nada), p)
<1>3. CASE Historial!FiltrarEstado \/ Historial!Desplegar \/ Historial!PedirAnulacion \/ Historial!CancelarAnulacion
  <2>1. Suya /\ ida' = ida \o <<>>
    BY <1>2, <1>3 DEF Historial!FiltrarEstado, Historial!Desplegar, Historial!PedirAnulacion,
       Historial!CancelarAnulacion, Historial!Toque, HVista
  <2> QED BY <1>1, <2>1, HQuieto
<1> DEFINE Pidiendo(q) == /\ ida' = ida \o <<q>> /\ q.viva = TRUE /\ q.op # "listar"
                          /\ q.op = "anular" => q.tras = vista.periodo
<1>8. ASSUME NEW q, Suya, Pidiendo(q) PROVE HFiel(vista', srv', ida', vuelta')
  <2>1. \E x : /\ x.viva = TRUE /\ ida' = ida \o <<x>> /\ (x.op = "listar" => Que(x) = <<vista.periodo, Nada>>)
               /\ (x.op = "anular" => x.tras = vista.periodo)
    BY <1>8
  <2> QED BY <1>1, <1>8, <2>1, HQuieto
<1>9. CASE Historial!PedirDocumento
  <2>1. PICK i \in Historial!Filas, para \in {"ver", "imprimir", "pdf"} :
           Historial!Toque(vista, <<Historial!Tras(Historial!Pedido("comprobante", i, Nada), para)>>)
    BY <1>9 DEF Historial!PedirDocumento
  <2> DEFINE q == Tras(Pedido("comprobante", i, Nada), para)
  <2>2. Suya /\ ida' = ida \o <<q>>
    BY <2>1 DEF Historial!Toque, Historial!Tras, Tras, Historial!Pedido, Pedido
  <2>3. q.viva = TRUE /\ q.op = "comprobante"
    BY DEF Tras, Pedido
  <2> HIDE DEF q
  <2> QED BY <1>8, <2>2, <2>3
<1>4. CASE Historial!Anular
  <2> DEFINE q == Tras(Pedido("anular", vista.anular, Nada), vista.periodo)
  <2>2. Suya /\ ida' = ida \o <<q>>
    BY <1>4 DEF Historial!Anular, Historial!Toque, Historial!Tras, Tras, Historial!Pedido, Pedido
  <2>3. q.viva = TRUE /\ q.op = "anular" /\ q.tras = vista.periodo
    BY DEF Tras, Pedido
  <2> HIDE DEF q
  <2> QED BY <1>8, <2>2, <2>3
<1>5. CASE Historial!CambiarPeriodo
  <2>1. /\ dudosa # TRUE \/ (ida = <<>> /\ vuelta = <<>>)
        /\ EnVuelo({"anular"}) = 0
        /\ srv' = srv /\ vuelta' = vuelta /\ ida' = ida \o <<L(vista'.periodo)>>
    <3>1. PICK periodo \in {"todas", "hoy"} \ {vista.periodo} :
             LET v == [vista EXCEPT !.periodo = periodo, !.cargando = TRUE]
             IN  IF Historial!EnVuelo({"anular"}) = 0 THEN Historial!Recarga(v, Historial!Listar(periodo))
                 ELSE Historial!Tropiezo(v, Historial!Listar(periodo))
      BY <1>5 DEF Historial!CambiarPeriodo, Historial!Todas, Historial!Hoy
    <3>2. EnVuelo({"anular"}) = 0 /\ Historial!Recarga([vista EXCEPT !.periodo = periodo, !.cargando = TRUE], Historial!Listar(periodo))
      BY <3>1, HCuenta DEF Historial!Tropiezo
    <3>3. vista'.periodo = periodo
      BY <1>2, <3>2 DEF Historial!Recarga, HVista
    <3> QED BY <3>2, <3>3 DEF Historial!Recarga, Historial!Listar, Historial!EnReposo, Historial!Tras, Tras,
                 Historial!Pedido, Pedido, Historial!Nadie, Nadie
  <2>2. Vivas(ida, vuelta)
    BY <1>1, <2>1, VivasNada
  <2>3. /\ \A k \in DOMAIN ida : ida[k].op \notin {"anular"}
        /\ \A k \in DOMAIN vuelta : vuelta[k].q.op \notin {"anular"}
    BY <2>1, <2>2, NadieVuela
  <2>4. L(vista'.periodo).viva = TRUE /\ L(vista'.periodo).op = "listar" /\ Que(L(vista'.periodo)) = <<vista'.periodo, Nada>>
    BY DEF Pedido, Tras, Que
  <2> DEFINE q == L(vista'.periodo)
  <2>5. ida' = ida \o <<q>> /\ q.viva = TRUE /\ q.op = "listar" /\ Que(q) = <<vista'.periodo, Nada>>
    BY <2>1, <2>4
  <2> HIDE DEF q
  <2>6. HFiel(vista', srv, ida \o <<q>>, vuelta)
    BY <2>2, <2>3, <2>5, HDeNuevo
  <2> QED BY <2>1, <2>5, <2>6
<1>6. CASE Historial!Actualizar
  <2> DEFINE q == L(vista.periodo)
  <2>1. /\ dudosa # TRUE \/ (ida = <<>> /\ vuelta = <<>>)
        /\ srv' = srv /\ vuelta' = vuelta /\ ida' = ida \o <<q>> /\ vista'.periodo = vista.periodo
    BY <1>2, <1>6 DEF Historial!Actualizar, Historial!Recarga, Historial!Listar, Historial!EnReposo, Historial!Tras, Tras,
                 Historial!Pedido, Pedido, Historial!Nadie, Nadie, HVista
  <2>2. q.viva = TRUE /\ q.op = "listar" /\ Que(q) = <<vista'.periodo, Nada>>
    BY <2>1 DEF Pedido, Tras, Que
  <2> HIDE DEF q
  <2>3. /\ Vivas(ida, vuelta)
        /\ \A k \in DOMAIN ida : ida[k].op = "anular" => ida[k].tras = vista'.periodo
        /\ \A k \in DOMAIN vuelta : vuelta[k].q.op = "anular" => vuelta[k].q.tras = vista'.periodo
    <3>1. CASE dudosa # TRUE
      BY <1>1, <2>1, <3>1 DEF HFiel, HPeriodo
    <3>2. CASE ida = <<>> /\ vuelta = <<>>
      BY <3>2, VivasNada, SucesionUna
    <3> QED BY <2>1, <3>1, <3>2
  <2>4. HFiel(vista', srv, ida \o <<q>>, vuelta)
    BY <2>2, <2>3, HDeNuevo
  <2> QED BY <2>1, <2>4
<1>7. CASE Historial!Montar(Historial!VistaInicial, Historial!Listar("todas"))
  <2> DEFINE q == L(vista'.periodo)
  <2>1. /\ ida' = Huerfanos(ida) \o <<q>> /\ vuelta' = HuerfanasDe(vuelta) /\ srv' = srv
        /\ ida = <<>> /\ vuelta = <<>>
    BY <1>7 DEF Historial!Montar, Historial!VistaInicial, Historial!Listar, Historial!Huerfanos, Huerfanos,
       Historial!HuerfanasDe, HuerfanasDe, Historial!Pedido, Pedido, Historial!Tras, Tras, Historial!Nadie, Nadie,
       Historial!EnReposo, Historial!Todas
  <2> HIDE DEF q
  <2>2. ida' = <<q>> /\ vuelta' = <<>>
    BY <2>1, NadieEnReposo
  <2> QED BY <2>1, <2>2, HFielEstrena DEF q
<1> QED BY <1>3, <1>4, <1>5, <1>6, <1>7, <1>9, HFielResponde, HFielRecibe DEF Historial!Next, Historial!Todas

LEMMA HistorialFielEmpieza == Historial!Init => HistorialFiel
<1> SUFFICES ASSUME Historial!Init PROVE HFiel(vista, srv, ida, vuelta)
  BY DEF HistorialFiel
<1>1. ida = <<Tras(Pedido("listar", Nadie, Nada), vista.periodo)>> /\ vuelta = <<>>
  BY DEF Historial!Init, Historial!PeticionesInit, Historial!VistaInicial, Historial!Listar, Historial!Pedido, Pedido,
     Historial!Tras, Tras, Historial!Nadie, Nadie, Historial!Todas
<1> QED BY <1>1, HFielEstrena

LEMMA HistorialFielDice == HistorialFiel /\ EnReposo /\ dudosa # TRUE => Historial!Mostrado
<1> DEFINE P == vista.ventas = Historial!DelPeriodo(srv, vista.periodo)
           Y == {Historial!DelPeriodo(srv, vista.periodo)}
<1> SUFFICES ASSUME HFiel(vista, srv, <<>>, <<>>) PROVE P
  BY DEF HistorialFiel, EnReposo, Historial!Mostrado
<1>1. Fresca(<<>>, <<>>, HCanal, P, Y)
  BY DEF HFiel, HTabla
<1> HIDE DEF P, Y
<1> QED BY <1>1, FrescaEnReposo

LEMMA HistorialFielQuieta == HistorialFiel /\ UNCHANGED vars => HistorialFiel'
<1> SUFFICES ASSUME HistorialFiel, UNCHANGED vars PROVE HistorialFiel'
  OBVIOUS
<1>1. vista' = vista /\ srv' = srv /\ ida' = ida /\ vuelta' = vuelta /\ dudosa' = dudosa
  BY DEF vars
<1>2. dudosa # TRUE => HFiel(vista, srv, ida, vuelta)
  BY DEF HistorialFiel
<1>3. dudosa' # TRUE => HFiel(vista', srv', ida', vuelta')
  BY <1>1, <1>2
<1> QED BY <1>3 DEF HistorialFiel

-----------------------------------------------------------------------------
(* The till: the session of the point of sale, and the report on which it  *)
(* is closed.                                                              *)

JCampos(v) ==
    /\ {"ruta", "tienda", "iniciando", "modal", "informe"} \subseteq DOMAIN v /\ "sesion" \in DOMAIN v.tienda
    /\ v.ruta \in {"pos", "cierre"} /\ v.iniciando \in BOOLEAN /\ v.modal \in BOOLEAN
JAbiertas(s) == Caja!Abiertas(s)

\* The point of sale asks first for its session, and nothing else is asked for meanwhile.
JConsulta(q) == (q.op = "activa" /\ q.tras = "") \/ (q.op = "reporte" /\ q.tras = "restaurar")
JSabe(s, m) ==
    /\ JConsulta(m.q)
    /\ m.q.op = "activa" => IF m.ok = TRUE THEN m.datos.id \in JAbiertas(s) ELSE Caja!Propias(s) = {}
    /\ m.q.op = "reporte" => m.ok = TRUE /\ m.q.id \in DOMAIN s /\ m.datos = Caja!Reporte(s, m.q.id)
JInicia(s, a, b) ==
    \/ b = <<>> /\ 1 \in DOMAIN a /\ a = <<a[1]>> /\ JConsulta(a[1])
    \/ a = <<>> /\ 1 \in DOMAIN b /\ b = <<b[1]>> /\ JSabe(s, b[1])

\* Then it opens the session, or sells in it: nobody closes it meanwhile.
JAbrio(b) == \E k \in DOMAIN b : b[k].ok = TRUE /\ b[k].q.op = "abrir"
JVende(q) == q.op \in {"abrir", "venta"} /\ q.tras = ""
JOpera(v, s, a, b) ==
    /\ \A k \in DOMAIN a : JVende(a[k])
    /\ \A k \in DOMAIN b : JVende(b[k].q)
    /\ v.tienda.sesion # Nadie => v.tienda.sesion \in JAbiertas(s)
    /\ v.tienda.sesion = Nadie => Caja!Propias(s) = {} \/ JAbrio(b)
    /\ \A k \in DOMAIN b : b[k].q.op = "abrir" => b[k].ok = TRUE /\ b[k].datos.id \in JAbiertas(s)

\* The closing: a report is good until a count is accepted, which leaves no session.
JCerro(b) == \E k \in DOMAIN b : b[k].ok = TRUE /\ b[k].q.op = "arqueo"
JVigente(v, s, b, x) ==
    x.id # Nadie /\ (x = Caja!Reporte(s, x.id) \/ x.id # v.tienda.sesion \/ JCerro(b))
JCuenta(q) ==
    \/ q.op \in {"arqueo", "historial"} /\ q.tras = ""
    \/ q.op = "reporte" /\ q.tras = "cierre" /\ q.id # Nadie
JCierra(v, s, a, b) ==
    /\ \A k \in DOMAIN a : JCuenta(a[k])
    /\ \A k \in DOMAIN b : JCuenta(b[k].q)
    /\ \A k \in DOMAIN b : b[k].q.op = "reporte" /\ b[k].ok = TRUE => JVigente(v, s, b, b[k].datos)
    /\ v.informe # Nada => JVigente(v, s, b, v.informe)

JFiel(v, s, a, b) ==
    /\ Vivas(a, b) /\ (\A k \in DOMAIN b : b[k].ok \in BOOLEAN) /\ JCampos(v)
    /\ v.ruta = "pos" => v.informe = Nada
    /\ v.ruta = "pos" /\ v.iniciando = TRUE => v.modal = FALSE /\ JInicia(s, a, b)
    /\ v.ruta = "pos" /\ v.iniciando = FALSE => JOpera(v, s, a, b)
    /\ v.ruta = "cierre" => v.modal = FALSE /\ JCierra(v, s, a, b)
CajaFiel == dudosa # TRUE => JFiel(vista, srv, ida, vuelta)

LEMMA JUnaSola ==
    ASSUME NEW x
    PROVE  Sin(<<x>>, 1) = <<>> /\ Append(<<>>, x) = <<x>>
<1>1. Sucesion(<<x>>) /\ DOMAIN <<x>> = {1} /\ Len(<<x>>) = 1
  BY SucesionUna
<1> DEFINE s == <<x>>
<1>2. Sucesion(s) /\ 1 \in DOMAIN s /\ Len(s) = 1
  BY <1>1
<1> HIDE DEF s
<1>3. Sucesion(Sin(s, 1)) /\ DOMAIN Sin(s, 1) = 1 .. 0
  BY <1>2, PrimeroSale
<1>4. Sin(s, 1) = <<>>
  <2> DEFINE u == Sin(s, 1)
  <2>1. Sucesion(u) /\ DOMAIN u = 1 .. 0
    BY <1>3
  <2> HIDE DEF u
  <2>2. PICK S : u \in Seq(S)
    BY <2>1 DEF Sucesion
  <2>3. Len(u) = 0
    BY <2>1, <2>2, LenProperties
  <2>4. u = <<>>
    BY <2>2, <2>3, EmptySeq
  <2> QED BY <2>4 DEF u
<1>5. Append(<<>>, x) = <<x>>
  BY SucesionUna, SucesionMas, NadieEnReposo
<1> QED BY <1>4, <1>5 DEF s

\* What the backend makes of each request, of those whose order matters here.
JSalida(s, q, r) ==
    /\ q.op = "activa" => r.srv = s /\ (IF r.ok = TRUE THEN r.datos.id \in JAbiertas(s) ELSE Caja!Propias(s) = {})
    /\ q.op = "reporte" => r.srv = s /\ r.ok = TRUE /\ r.datos = Caja!Reporte(s, q.id)
    /\ q.op = "abrir" => /\ r.ok = TRUE /\ JAbiertas(s) \subseteq JAbiertas(r.srv)
                         /\ r.datos.id \in JAbiertas(r.srv)
    /\ q.op = "venta" => JAbiertas(r.srv) = JAbiertas(s) /\ Caja!Propias(r.srv) = Caja!Propias(s)
    /\ q.op = "arqueo" => r.ok = TRUE \/ r.srv = s
    /\ q.op = "historial" => r.srv = s
    /\ r.ok \in BOOLEAN

LEMMA JBanco ==
    ASSUME NEW s, TBanco(s), NEW q, q.op \in {"reporte", "activa", "abrir", "venta", "arqueo", "historial"},
           q.op \in {"reporte", "venta", "arqueo"} => q.id \in DOMAIN s
    PROVE  JSalida(s, q, Caja!Servidor(s, q))
<1> DEFINE r == Caja!Servidor(s, q)
<1> USE DEF Caja!Servidor, Caja!Acepta, Caja!Rechaza
<1>1. CASE q.op = "reporte"
  <2>1. r = [srv |-> s, ok |-> TRUE, datos |-> Caja!Reporte(s, q.id)]
    BY <1>1
  <2> HIDE DEF r
  <2>2. JSalida(s, q, r)
    BY <1>1, <2>1 DEF JSalida
  <2> QED BY <2>2 DEF r
<1>2. CASE q.op = "activa"
  <2> DEFINE n == CHOOSE i \in Caja!Propias(s) : TRUE
  <2>1. CASE Caja!Propias(s) = {}
    <3>1. r = [srv |-> s, ok |-> FALSE, datos |-> Nada]
      BY <1>2, <2>1
    <3> HIDE DEF r
    <3>2. JSalida(s, q, r)
      BY <1>2, <2>1, <3>1 DEF JSalida
    <3> QED BY <3>2 DEF r
  <2>2. CASE Caja!Propias(s) # {}
    <3>1. r = [srv |-> s, ok |-> TRUE, datos |-> Caja!Reporte(s, n)]
      BY <1>2, <2>2
    <3>2. n \in JAbiertas(s)
      BY <2>2 DEF Caja!Propias, JAbiertas
    <3> HIDE DEF r, n
    <3>3. Caja!Reporte(s, n).id = n
      BY DEF Caja!Reporte
    <3>4. JSalida(s, q, r)
      BY <1>2, <3>1, <3>2, <3>3 DEF JSalida
    <3> QED BY <3>4 DEF r
  <2> QED BY <2>1, <2>2
<1>3. CASE q.op = "abrir"
  <2>1. CASE JAbiertas(s) # {}
    <3> DEFINE n == CHOOSE i \in JAbiertas(s) : TRUE
    <3>1. r = [srv |-> s, ok |-> TRUE, datos |-> Caja!Reporte(s, n)] /\ n \in JAbiertas(s)
      BY <1>3, <2>1 DEF JAbiertas
    <3> HIDE DEF r, n
    <3>2. Caja!Reporte(s, n).id = n
      BY DEF Caja!Reporte
    <3>3. JSalida(s, q, r)
      BY <1>3, <3>1, <3>2 DEF JSalida
    <3> QED BY <3>3 DEF r
  <2>2. CASE JAbiertas(s) = {}
    <3> DEFINE x == [estado |-> "abierta", propia |-> TRUE, efectivo |-> q.datos.fondo,
                     digital |-> 0, movs |-> 0, cierre |-> Nada]
               t == Append(s, x)
               n == Len(t)
    <3>1. r = [srv |-> t, ok |-> TRUE, datos |-> Caja!Reporte(t, n)]
      BY <1>3, <2>2 DEF JAbiertas
    <3>2. x.estado = "abierta"
      OBVIOUS
    <3> HIDE DEF x
    <3>3. Len(s) \in Nat /\ DOMAIN t = 1 .. Len(s) + 1 /\ t[Len(s) + 1] = x /\ Len(t) = Len(s) + 1
      <4>1. Sucesion(s) /\ Len(s) \in Nat
        BY TBancoTipos DEF TBanco, Sucesion
      <4>2. Sucesion(t) /\ DOMAIN t = 1 .. Len(s) + 1 /\ t[Len(s) + 1] = x
        BY <4>1, UnoMas
      <4>3. Len(t) \in Nat /\ DOMAIN t = 1 .. Len(t)
        BY <4>2, SucesionLarga
      <4> HIDE DEF t
      <4>4. Len(t) = Len(s) + 1
        BY <4>1, <4>2, <4>3
      <4> QED BY <4>1, <4>2, <4>4
    <3> HIDE DEF t, r
    <3>4. n \in DOMAIN t /\ t[n].estado = "abierta"
      BY <3>2, <3>3
    <3> HIDE DEF n
    <3>5. n \in JAbiertas(t) /\ Caja!Reporte(t, n).id = n
      BY <3>4 DEF JAbiertas, Caja!Abiertas, Caja!Reporte
    <3>6. JSalida(s, q, r)
      BY <1>3, <2>2, <3>1, <3>5 DEF JSalida
    <3> QED BY <3>6 DEF r
  <2> QED BY <2>1, <2>2
<1>4. CASE q.op = "venta"
  <2>1. CASE s[q.id].estado # "abierta"
    <3>1. r = [srv |-> s, ok |-> FALSE, datos |-> Nada]
      BY <1>4, <2>1
    <3> HIDE DEF r
    <3>2. JSalida(s, q, r)
      BY <1>4, <3>1 DEF JSalida
    <3> QED BY <3>2 DEF r
  <2>2. CASE s[q.id].estado = "abierta"
    <3> DEFINE t == [s EXCEPT ![q.id].efectivo = @ + q.datos.efectivo,
                              ![q.id].digital = @ + q.datos.digital,
                              ![q.id].movs = @ + 1]
    <3>1. r = [srv |-> t, ok |-> TRUE, datos |-> Nada]
      BY <1>4, <2>2
    <3>2. DOMAIN t = DOMAIN s
      OBVIOUS
    <3>3. ASSUME NEW i \in DOMAIN s PROVE t[i].estado = s[i].estado /\ t[i].propia = s[i].propia
      BY TBancoTipos DEF TSesiones
    <3> HIDE DEF t, r
    <3>4. JAbiertas(t) = JAbiertas(s) /\ Caja!Propias(t) = Caja!Propias(s)
      BY <3>2, <3>3 DEF JAbiertas, Caja!Abiertas, Caja!Propias
    <3>5. JSalida(s, q, r)
      BY <1>4, <3>1, <3>4 DEF JSalida
    <3> QED BY <3>5 DEF r
  <2> QED BY <2>1, <2>2
<1>5. CASE q.op = "arqueo"
  <2>1. (r.ok = TRUE \/ r.srv = s) /\ r.ok \in BOOLEAN
    BY <1>5 DEF Caja!Cerrar
  <2> HIDE DEF r
  <2>2. JSalida(s, q, r)
    BY <1>5, <2>1 DEF JSalida
  <2> QED BY <2>2 DEF r
<1>6. CASE q.op = "historial"
  <2>1. r.srv = s /\ r.ok = TRUE
    BY <1>6
  <2> HIDE DEF r
  <2>2. JSalida(s, q, r)
    BY <1>6, <2>1 DEF JSalida
  <2> QED BY <2>2 DEF r
<1> QED BY <1>1, <1>2, <1>3, <1>4, <1>5, <1>6

LEMMA JPide ==
    ASSUME CajaInv
    PROVE  /\ TBanco(srv)
           /\ \A k \in DOMAIN ida : /\ ida[k].op \in {"reporte", "activa", "abrir", "venta", "arqueo", "historial"}
                                    /\ ida[k].op \in {"reporte", "venta", "arqueo"} => ida[k].id \in DOMAIN srv
           /\ \A k \in DOMAIN vuelta : /\ vuelta[k] \in TRespuestas(srv)
                                       /\ vuelta[k].q.op \in {"reporte", "activa", "abrir", "venta", "arqueo", "historial"}
<1>1. \A k \in DOMAIN ida : ida[k] \in TPedidos(srv)
  BY ElementOfSeq DEF CajaInv
<1>2. \A k \in DOMAIN vuelta : vuelta[k] \in TRespuestas(srv)
  BY ElementOfSeq DEF CajaInv
<1> QED BY <1>1, <1>2 DEF CajaInv, TPedidos, TPide, TRespuestas

-----------------------------------------------------------------------------
LEMMA JFielResponde ==
    ASSUME CajaInv, CajaFiel, NEW i, Caja!Responde(i), dudosa' # TRUE
    PROVE  JFiel(vista', srv', ida', vuelta')
<1> DEFINE q == ida[1]
           r == Caja!Servidor(srv, q)
           m == [q |-> q, ok |-> r.ok, datos |-> r.datos]
           a1 == Sin(ida, 1)
           b1 == Append(vuelta, m)
           v == vista
           s1 == r.srv
<1>1. /\ 1 \in DOMAIN ida /\ srv' = r.srv /\ ida' = a1 /\ vista' = vista
      /\ vuelta' = b1 /\ dudosa # TRUE
  BY DEF Caja!Responde, Caja!Atiende, Caja!Sin, Sin
<1>2. JFiel(v, srv, ida, vuelta) /\ Vivas(ida, vuelta) /\ Sucesion(vuelta) /\ Sucesion(ida) /\ JCampos(v)
  BY <1>1 DEF CajaFiel, JFiel, Vivas
<1>3. JSalida(srv, q, r)
  <2>1. /\ TBanco(srv) /\ q.op \in {"reporte", "activa", "abrir", "venta", "arqueo", "historial"}
        /\ q.op \in {"reporte", "venta", "arqueo"} => q.id \in DOMAIN srv
    BY <1>1, JPide
  <2> HIDE DEF m, q
  <2> QED BY <2>1, JBanco
<1>4. r.ok \in BOOLEAN
  <2> HIDE DEF r, q
  <2> QED BY <1>3 DEF JSalida
<1>5. q.op = "reporte" => q.id \in DOMAIN srv
  BY <1>1, JPide
<1> HIDE DEF r
<1>6. m = [q |-> ida[1], ok |-> r.ok, datos |-> r.datos] /\ m.ok = r.ok /\ m.datos = r.datos /\ m.q = q
  OBVIOUS
<1> HIDE DEF m
<1>7. Vivas(a1, b1)
  BY <1>1, <1>2, <1>6, VivasToma
<1>8. Salen(b1, vuelta, {m}) /\ Salen(a1, ida, {})
  BY <1>1, <1>2, SalenDe
<1>9. \A k \in DOMAIN b1 : b1[k].ok \in BOOLEAN
  BY <1>2, <1>4, <1>6, <1>8 DEF JFiel, Salen
<1>10. (\A k \in DOMAIN vuelta : k \in DOMAIN b1 /\ b1[k] = vuelta[k]) /\ \E k \in DOMAIN b1 : b1[k] = m
  <2>1. /\ Len(vuelta) \in Nat /\ DOMAIN vuelta = 1 .. Len(vuelta) /\ DOMAIN b1 = 1 .. Len(vuelta) + 1
        /\ \A k \in 1 .. Len(vuelta) : b1[k] = vuelta[k]
        /\ b1[Len(vuelta) + 1] = m
    BY <1>2, UnoMas
  <2> HIDE DEF b1
  <2>2. Len(vuelta) + 1 \in DOMAIN b1
    BY <2>1
  <2> QED BY <2>1, <2>2
<1>11. v.ruta = "pos" /\ v.iniciando = TRUE => JInicia(s1, a1, b1)
  <2> SUFFICES ASSUME v.ruta = "pos", v.iniciando = TRUE PROVE JInicia(s1, a1, b1)
    OBVIOUS
  <2>1. JInicia(srv, ida, vuelta)
    BY <1>2 DEF JFiel
  <2>2. vuelta = <<>> /\ ida = <<q>> /\ JConsulta(q)
    <3>1. DOMAIN <<>> = {}
      BY SucesionUna
    <3> QED BY <1>1, <2>1, <3>1 DEF JInicia
  <2> HIDE DEF q, s1
  <2>3. a1 = <<>> /\ b1 = <<m>>
    BY <2>2, JUnaSola
  <2>4. s1 = srv /\ JSabe(s1, m)
    BY <1>3, <1>5, <1>6, <2>2 DEF JConsulta, JSalida, JSabe, s1
  <2> HIDE DEF a1, b1
  <2>5. 1 \in DOMAIN b1 /\ b1[1] = m
    BY <2>3, SucesionUna
  <2> QED BY <2>3, <2>4, <2>5 DEF JInicia
<1> HIDE DEF a1, b1, s1, q
<1>12. v.ruta = "pos" /\ v.iniciando = FALSE => JOpera(v, s1, a1, b1)
  <2> SUFFICES ASSUME v.ruta = "pos", v.iniciando = FALSE PROVE JOpera(v, s1, a1, b1)
    OBVIOUS
  <2>1. JOpera(v, srv, ida, vuelta)
    BY <1>2 DEF JFiel
  <2>2. JVende(q)
    BY <1>1, <2>1 DEF JOpera, q
  <2>3. JAbiertas(srv) \subseteq JAbiertas(s1)
    BY <1>3, <2>2 DEF JVende, JSalida, s1
  <2>4. Caja!Propias(srv) = {} => Caja!Propias(s1) = {} \/ JAbrio(b1)
    <3>1. CASE q.op = "venta"
      BY <1>3, <3>1 DEF JSalida, s1
    <3>2. CASE q.op = "abrir"
      <4>1. m.ok = TRUE
        BY <1>3, <1>6, <3>2 DEF JSalida
      <4>2. JAbrio(b1)
        BY <1>6, <1>10, <3>2, <4>1 DEF JAbrio
      <4> QED BY <4>2
    <3> QED BY <2>2, <3>1, <3>2 DEF JVende
  <2>5. JAbrio(vuelta) => JAbrio(b1)
    BY <1>10 DEF JAbrio
  <2>6. q.op = "abrir" => m.ok = TRUE /\ m.datos.id \in JAbiertas(s1)
    BY <1>3, <1>6 DEF JSalida, s1
  <2>7. (\A k \in DOMAIN a1 : JVende(a1[k])) /\ \A k \in DOMAIN b1 : JVende(b1[k].q)
    BY <1>6, <1>8, <2>1, <2>2 DEF JOpera, Salen
  <2>8. \A k \in DOMAIN b1 : b1[k].q.op = "abrir" => b1[k].ok = TRUE /\ b1[k].datos.id \in JAbiertas(s1)
    BY <1>6, <1>8, <2>1, <2>3, <2>6 DEF JOpera, Salen
  <2> QED BY <2>1, <2>3, <2>4, <2>5, <2>7, <2>8 DEF JOpera
<1>13. v.ruta = "cierre" => JCierra(v, s1, a1, b1)
  <2> SUFFICES ASSUME v.ruta = "cierre" PROVE JCierra(v, s1, a1, b1)
    OBVIOUS
  <2>1. JCierra(v, srv, ida, vuelta)
    BY <1>2 DEF JFiel
  <2>2. JCuenta(q)
    BY <1>1, <2>1 DEF JCierra, q
  <2>3. JCerro(vuelta) => JCerro(b1)
    BY <1>10 DEF JCerro
  <2>4. s1 = srv \/ JCerro(b1)
    <3>1. CASE q.op = "arqueo" /\ r.ok = TRUE
      BY <1>6, <1>10, <3>1 DEF JCerro
    <3>2. CASE ~(q.op = "arqueo" /\ r.ok = TRUE)
      BY <1>3, <2>2, <3>2 DEF JCuenta, JSalida, s1
    <3> QED BY <3>1, <3>2
  <2>5. ASSUME NEW x, JVigente(v, srv, vuelta, x) PROVE JVigente(v, s1, b1, x)
    BY <2>3, <2>4, <2>5 DEF JVigente
  <2>6. q.op = "reporte" => JVigente(v, s1, b1, m.datos)
    <3> SUFFICES ASSUME q.op = "reporte" PROVE JVigente(v, s1, b1, m.datos)
      OBVIOUS
    <3>1. s1 = srv /\ m.datos = Caja!Reporte(srv, q.id)
      BY <1>3, <1>6 DEF JSalida, s1
    <3>2. m.datos.id = q.id /\ q.id # Nadie
      BY <2>2, <3>1 DEF JCuenta, Caja!Reporte
    <3> QED BY <3>1, <3>2 DEF JVigente
  <2>7. (\A k \in DOMAIN a1 : JCuenta(a1[k])) /\ \A k \in DOMAIN b1 : JCuenta(b1[k].q)
    BY <1>6, <1>8, <2>1, <2>2 DEF JCierra, Salen
  <2>8. \A k \in DOMAIN b1 : b1[k].q.op = "reporte" /\ b1[k].ok = TRUE => JVigente(v, s1, b1, b1[k].datos)
    <3> SUFFICES ASSUME NEW k \in DOMAIN b1, b1[k].q.op = "reporte", b1[k].ok = TRUE
                 PROVE  JVigente(v, s1, b1, b1[k].datos)
      OBVIOUS
    <3>1. CASE b1[k] = m
      BY <1>6, <2>6, <3>1
    <3>2. ASSUME NEW j \in DOMAIN vuelta, b1[k] = vuelta[j] PROVE JVigente(v, s1, b1, b1[k].datos)
      <4>1. JVigente(v, srv, vuelta, vuelta[j].datos)
        BY <2>1, <3>2 DEF JCierra
      <4> QED BY <2>5, <3>2, <4>1
    <3> QED BY <1>8, <3>1, <3>2 DEF Salen
  <2> QED BY <2>1, <2>5, <2>7, <2>8 DEF JCierra
<1>14. JFiel(v, s1, a1, b1)
  BY <1>2, <1>7, <1>9, <1>11, <1>12, <1>13 DEF JFiel
<1> QED BY <1>1, <1>14 DEF s1


\* What the page becomes (w), and what it asks for (p), when answer m arrives.
JTrae(v, m, w, p) ==
    /\ JCampos(w) /\ w.ruta = v.ruta
    /\ m.q.op = "reporte" /\ m.q.tras = "restaurar" =>
          /\ w.informe = v.informe /\ w.modal = v.modal
          /\ m.ok = TRUE =>
               \/ m.datos.estado = "abierta" /\ w.tienda.sesion = m.datos.id /\ w.iniciando = FALSE /\ p = <<>>
               \/ w.iniciando = v.iniciando /\ p = <<Caja!Pedido("activa", Nadie, Nada)>>
    /\ m.q.op = "activa" =>
          /\ w.informe = v.informe /\ w.iniciando = FALSE /\ p = <<>>
          /\ w.tienda.sesion = IF m.ok = TRUE THEN m.datos.id ELSE Nadie
    /\ m.q.op = "abrir" =>
          /\ w.informe = v.informe /\ w.iniciando = v.iniciando /\ p = <<>>
          /\ m.ok = TRUE => w.tienda.sesion = m.datos.id
    /\ m.q.op \in {"venta", "historial", "arqueo"} \/ (m.q.op = "reporte" /\ m.q.tras = "cierre") =>
          /\ w.modal = v.modal /\ w.iniciando = v.iniciando /\ p = <<>>
          /\ w.informe = IF m.q.op # "reporte" THEN v.informe ELSE IF m.ok = TRUE THEN m.datos ELSE Nada
          /\ w.tienda.sesion = IF m.q.op = "arqueo" /\ m.ok = TRUE THEN Nadie ELSE v.tienda.sesion

LEMMA JRecibir ==
    ASSUME JCampos(vista), NEW m, m.q.tras # "olvidada", m.ok \in BOOLEAN,
           m.q.op \in {"activa", "abrir", "venta", "arqueo", "historial"}
               \/ (m.q.op = "reporte" /\ m.q.tras \in {"restaurar", "cierre"})
    PROVE  JTrae(vista, m, Caja!Recibir(m).vista, Caja!Recibir(m).pide)
<1> USE DEF Caja!Recibir, Caja!Queda, Caja!Pide, Caja!Adoptar, Caja!Activa, Caja!Nadie, Nadie, JCampos
<1>1. CASE m.q.op = "reporte" /\ m.q.tras = "restaurar"
  BY <1>1 DEF JTrae
<1>2. CASE m.q.op = "activa"
  BY <1>2 DEF JTrae
<1>3. CASE m.q.op = "reporte" /\ m.q.tras = "cierre"
  BY <1>3 DEF JTrae
<1>4. CASE m.q.op = "abrir"
  BY <1>4 DEF JTrae
<1>5. CASE m.q.op \in {"venta", "historial"}
  BY <1>5 DEF JTrae
<1>6. CASE m.q.op = "arqueo"
  BY <1>6 DEF JTrae
<1> HIDE DEF Caja!Recibir
<1> QED BY <1>1, <1>2, <1>3, <1>4, <1>5, <1>6

LEMMA JFielRecibe ==
    ASSUME CajaInv, CajaFiel, NEW i, Caja!Recibe(i), dudosa' # TRUE
    PROVE  JFiel(vista', srv', ida', vuelta')
<1> DEFINE m == vuelta[1]
           r == Caja!Recibir(m)
           v == vista
           w == r.vista
           p == r.pide
           b1 == Sin(vuelta, 1)
           s == srv
<1>1. i = 1 /\ dudosa # TRUE /\ 1 \in DOMAIN vuelta
  BY DEF Caja!Recibe
<1>2. /\ JFiel(v, s, ida, vuelta) /\ Vivas(ida, vuelta) /\ Sucesion(vuelta) /\ Sucesion(ida) /\ JCampos(v)
      /\ m.q.viva = TRUE /\ m.ok \in BOOLEAN
  BY <1>1 DEF CajaFiel, JFiel, Vivas
<1>3. /\ v.ruta = "pos" /\ v.iniciando = TRUE => JInicia(s, ida, vuelta) /\ JConsulta(m.q) /\ v.modal = FALSE
      /\ v.ruta = "pos" /\ v.iniciando = FALSE => JOpera(v, s, ida, vuelta) /\ JVende(m.q)
      /\ v.ruta = "cierre" => v.modal = FALSE /\ JCierra(v, s, ida, vuelta) /\ JCuenta(m.q)
      /\ v.ruta = "pos" => v.informe = Nada
      /\ v.ruta \in {"pos", "cierre"} /\ v.iniciando \in BOOLEAN
  <2>1. JInicia(s, ida, vuelta) => JConsulta(m.q)
    BY <1>1, SucesionUna DEF JInicia, JSabe
  <2>2. JOpera(v, s, ida, vuelta) => JVende(m.q)
    BY <1>1 DEF JOpera
  <2>3. JCierra(v, s, ida, vuelta) => JCuenta(m.q)
    BY <1>1 DEF JCierra
  <2> QED BY <1>2, <2>1, <2>2, <2>3 DEF JFiel, JCampos
<1>4. JTrae(v, m, w, p)
  <2>1. /\ m.q.tras # "olvidada"
        /\ m.q.op \in {"activa", "abrir", "venta", "arqueo", "historial"}
               \/ (m.q.op = "reporte" /\ m.q.tras \in {"restaurar", "cierre"})
    BY <1>3 DEF JConsulta, JVende, JCuenta
  <2> HIDE DEF m
  <2> QED BY <1>2, <2>1, JRecibir
<1>5. /\ srv' = s /\ vuelta' = b1
      /\ \/ ~Caja!CambiaDeSesion(w) /\ vista' = w /\ ida' = ida \o p
         \/ /\ Caja!CambiaDeSesion(w) /\ vista' = Caja!Leyendo(w)
            /\ ida' = (ida \o p) \o Caja!Leer(w.tienda.sesion)
  BY <1>1, <1>2 DEF Caja!Recibe, Caja!Sin, Sin
<1>6. Salen(b1, vuelta, {}) /\ \A k \in DOMAIN vuelta : k = 1 \/ \E j \in DOMAIN b1 : b1[j] = vuelta[k]
  <2>1. Salen(b1, vuelta, {})
    BY <1>1, <1>2, SalenDe
  <2>2. /\ Len(vuelta) \in Nat \ {0} /\ DOMAIN vuelta = 1 .. Len(vuelta) /\ DOMAIN b1 = 1 .. Len(vuelta) - 1
        /\ \A k \in 1 .. Len(vuelta) - 1 : b1[k] = vuelta[k + 1]
    BY <1>1, <1>2, PrimeroSale
  <2> HIDE DEF b1
  <2>3. ASSUME NEW k \in DOMAIN vuelta, k # 1 PROVE \E j \in DOMAIN b1 : b1[j] = vuelta[k]
    <3>1. k - 1 \in DOMAIN b1 /\ b1[k - 1] = vuelta[k]
      BY <2>2, <2>3
    <3> QED BY <3>1
  <2> QED BY <2>1, <2>3
<1>7. \A k \in DOMAIN b1 : b1[k].ok \in BOOLEAN
  BY <1>2, <1>6 DEF JFiel, Salen
<1> HIDE DEF w, p, r
<1>8. w.ruta = v.ruta /\ JCampos(w)
  BY <1>4 DEF JTrae
<1>9. ida \o <<>> = ida
  BY <1>2, JuntoNada
<1>10. Vivas(ida, b1)
  <2> DEFINE e == <<>>
  <2>1. Vivas(e, <<>>) /\ ida \o e = ida
    BY <1>9, VivasNada
  <2> HIDE DEF e
  <2>2. Vivas(ida \o e, b1)
    BY <1>1, <1>2, <2>1, VivasLlega
  <2> QED BY <2>1, <2>2
<1>11. CASE v.ruta = "pos" /\ v.iniciando = TRUE
  <2>1. ida = <<>> /\ vuelta = <<m>> /\ JSabe(s, m)
    BY <1>1, <1>3, <1>11, SucesionUna DEF JInicia
  <2>2. b1 = <<>> /\ vista' = w /\ ida' = ida \o p
    <3> HIDE DEF m
    <3> QED BY <1>5, <1>8, <1>11, <2>1, JUnaSola DEF Caja!CambiaDeSesion
  <2>3. w.informe = Nada
    BY <1>3, <1>4, <1>11 DEF JTrae, JConsulta
  <2> DEFINE e == <<>>
  <2>4. e \o e = e /\ Vivas(e, e) /\ DOMAIN e = {} /\ \A q : e \o <<q>> = <<q>>
    BY SucesionUna, JuntoNada, VivasNada, NadieEnReposo
  <2>5. ida = e /\ b1 = e /\ JSabe(s, m) /\ vuelta' = e
    BY <1>5, <2>1, <2>2
  <2>6. CASE m.q.op = "activa"
    <3>1. p = e /\ w.iniciando = FALSE /\ w.tienda.sesion = IF m.ok = TRUE THEN m.datos.id ELSE Nadie
      BY <1>4, <2>6 DEF JTrae
    <3> HIDE DEF e, m
    <3>2. IF m.ok = TRUE THEN m.datos.id \in JAbiertas(s) ELSE Caja!Propias(s) = {}
      BY <2>5, <2>6 DEF JSabe
    <3>3. ida' = e
      BY <2>2, <2>4, <2>5, <3>1
    <3>4. ASSUME NEW j \in JAbiertas(s) PROVE j # Nadie
      <4>1. j \in DOMAIN s
        BY DEF JAbiertas, Caja!Abiertas
      <4>2. Len(s) \in Nat /\ DOMAIN s = 1 .. Len(s)
        BY TBancoTipos DEF CajaInv
      <4> QED BY <4>1, <4>2 DEF Nadie
    <3>5. JOpera(w, s, e, e)
      BY <2>4, <3>1, <3>2, <3>4 DEF JOpera
    <3>6. JFiel(w, s, e, e)
      BY <1>8, <1>11, <2>3, <2>4, <3>1, <3>5 DEF JFiel
    <3> QED BY <1>5, <2>2, <2>5, <3>3, <3>6
  <2>7. CASE m.q.op = "reporte"
    <3>1. m.q.tras = "restaurar" /\ m.ok = TRUE /\ m.q.id \in DOMAIN s /\ m.datos = Caja!Reporte(s, m.q.id)
      BY <2>1, <2>7 DEF JSabe, JConsulta
    <3>2. CASE m.datos.estado = "abierta" /\ w.tienda.sesion = m.datos.id /\ w.iniciando = FALSE /\ p = e
      <4> HIDE DEF e, m
      <4>1. w.tienda.sesion \in JAbiertas(s)
        BY <3>1, <3>2 DEF JAbiertas, Caja!Abiertas, Caja!Reporte
      <4>2. w.tienda.sesion # Nadie
        <5>1. Len(s) \in Nat /\ DOMAIN s = 1 .. Len(s)
          BY TBancoTipos DEF CajaInv
        <5> QED BY <4>1, <5>1 DEF Nadie, JAbiertas, Caja!Abiertas
      <4>3. JOpera(w, s, e, e)
        BY <2>4, <4>1, <4>2 DEF JOpera
      <4>4. JFiel(w, s, e, e)
        BY <1>8, <1>11, <2>3, <2>4, <3>2, <4>3 DEF JFiel
      <4> QED BY <1>5, <2>2, <2>4, <2>5, <3>2, <4>4
    <3>3. CASE w.iniciando = v.iniciando /\ p = <<Caja!Pedido("activa", Nadie, Nada)>>
      <4> DEFINE q == Caja!Pedido("activa", Nadie, Nada)
                 u == <<q>>
      <4>1. q.viva = TRUE /\ JConsulta(q)
        BY DEF Caja!Pedido, JConsulta
      <4> HIDE DEF q
      <4>2. ida' = u /\ 1 \in DOMAIN u /\ u = <<u[1]>> /\ u[1] = q /\ Vivas(u, e)
        BY <2>2, <2>4, <2>5, <3>3, <4>1, VivasUna, SucesionUna DEF q
      <4> HIDE DEF e, m, u
      <4>3. JInicia(s, u, e)
        BY <4>1, <4>2 DEF JInicia, e
      <4>4. w.modal = FALSE
        BY <1>3, <1>4, <1>11, <2>7, <3>1 DEF JTrae
      <4>5. JFiel(w, s, u, e)
        BY <1>8, <1>11, <2>3, <2>4, <3>3, <4>2, <4>3, <4>4 DEF JFiel
      <4> QED BY <1>5, <2>2, <2>5, <4>2, <4>5
    <3> QED BY <1>4, <2>7, <3>1, <3>2, <3>3 DEF JTrae
  <2> QED BY <1>3, <1>11, <2>6, <2>7 DEF JConsulta
<1>12. CASE v.ruta = "pos" /\ v.iniciando = FALSE
  <2>1. JOpera(v, s, ida, vuelta) /\ JVende(m.q)
    BY <1>3, <1>12
  <2>2. p = <<>> /\ w.iniciando = FALSE /\ w.informe = Nada
    BY <1>3, <1>4, <1>12, <2>1 DEF JVende, JTrae
  <2>3. vista' = w /\ ida' = ida
    BY <1>5, <1>8, <1>9, <1>12, <2>2 DEF Caja!CambiaDeSesion
  <2>4. JOpera(w, s, ida, b1)
    <3>1. /\ \A k \in DOMAIN ida : JVende(ida[k])
          /\ \A k \in DOMAIN b1 : JVende(b1[k].q)
          /\ \A k \in DOMAIN b1 : b1[k].q.op = "abrir" => b1[k].ok = TRUE /\ b1[k].datos.id \in JAbiertas(s)
      BY <1>6, <2>1 DEF JOpera, Salen
    <3>2. CASE m.q.op = "abrir"
      <4>1. m.ok = TRUE /\ m.datos.id \in JAbiertas(s)
        BY <1>1, <2>1, <3>2 DEF JOpera
      <4>2. w.tienda.sesion = m.datos.id
        BY <1>4, <3>2, <4>1 DEF JTrae
      <4>3. w.tienda.sesion # Nadie
        <5>1. Len(s) \in Nat /\ DOMAIN s = 1 .. Len(s)
          BY TBancoTipos DEF CajaInv
        <5> QED BY <4>1, <4>2, <5>1 DEF Nadie, JAbiertas, Caja!Abiertas
      <4> QED BY <3>1, <4>1, <4>2, <4>3 DEF JOpera
    <3>3. CASE m.q.op = "venta"
      <4>1. w.tienda.sesion = v.tienda.sesion
        BY <1>4, <3>3 DEF JTrae
      <4>2. JAbrio(vuelta) => JAbrio(b1)
        BY <1>6, <3>3 DEF JAbrio
      <4> QED BY <2>1, <3>1, <4>1, <4>2 DEF JOpera
    <3> QED BY <2>1, <3>2, <3>3 DEF JVende
  <2> HIDE DEF b1
  <2>5. JFiel(w, s, ida, b1)
    BY <1>7, <1>8, <1>10, <1>12, <2>2, <2>4 DEF JFiel
  <2> QED BY <1>5, <2>3, <2>5
<1>13. CASE v.ruta = "cierre"
  <2>1. JCierra(v, s, ida, vuelta) /\ JCuenta(m.q)
    BY <1>3, <1>13
  <2>2. /\ p = <<>> /\ w.modal = FALSE
        /\ w.informe = (IF m.q.op # "reporte" THEN v.informe ELSE IF m.ok = TRUE THEN m.datos ELSE Nada)
        /\ w.tienda.sesion = (IF m.q.op = "arqueo" /\ m.ok = TRUE THEN Nadie ELSE v.tienda.sesion)
    BY <1>3, <1>4, <1>13, <2>1 DEF JCuenta, JTrae
  <2>3. vista' = w /\ ida' = ida
    <3>1. CASE ~Caja!CambiaDeSesion(w)
      BY <1>5, <1>9, <2>2, <3>1
    <3>2. CASE Caja!CambiaDeSesion(w)
      <4>1. w.tienda.sesion = Nadie
        BY <2>2, <3>2 DEF Caja!CambiaDeSesion
      <4>2. Caja!Leyendo(w) = w /\ Caja!Leer(w.tienda.sesion) = <<>>
        BY <4>1 DEF Caja!Leyendo, Caja!Leer, Caja!Nadie, Nadie
      <4> QED BY <1>5, <1>9, <2>2, <3>2, <4>2
    <3> QED BY <3>1, <3>2
  <2>4. ASSUME NEW x, JVigente(v, s, vuelta, x) PROVE JVigente(w, s, b1, x)
    <3>1. CASE m.q.op = "arqueo" /\ m.ok = TRUE
      BY <2>2, <2>4, <3>1 DEF JVigente
    <3>2. CASE ~(m.q.op = "arqueo" /\ m.ok = TRUE)
      <4>1. JCerro(vuelta) => JCerro(b1)
        BY <1>6, <3>2 DEF JCerro
      <4>2. w.tienda.sesion = v.tienda.sesion
        BY <2>2, <3>2
      <4> QED BY <2>4, <4>1, <4>2 DEF JVigente
    <3> QED BY <3>1, <3>2
  <2>5. \A k \in DOMAIN vuelta : vuelta[k].q.op = "reporte" /\ vuelta[k].ok = TRUE => JVigente(w, s, b1, vuelta[k].datos)
    BY <2>1, <2>4 DEF JCierra
  <2>6. w.informe # Nada => JVigente(w, s, b1, w.informe)
    <3>1. CASE w.informe = v.informe
      BY <2>1, <2>4, <3>1 DEF JCierra
    <3>2. CASE w.informe = m.datos /\ m.q.op = "reporte" /\ m.ok = TRUE
      BY <1>1, <2>5, <3>2
    <3> QED BY <2>2, <3>1, <3>2
  <2>7. /\ \A k \in DOMAIN ida : JCuenta(ida[k])
        /\ \A k \in DOMAIN b1 : JCuenta(b1[k].q)
        /\ \A k \in DOMAIN b1 : b1[k].q.op = "reporte" /\ b1[k].ok = TRUE => JVigente(w, s, b1, b1[k].datos)
    BY <1>6, <2>1, <2>5 DEF JCierra, Salen
  <2> HIDE DEF b1
  <2>8. JCierra(w, s, ida, b1)
    BY <2>6, <2>7 DEF JCierra
  <2>9. JFiel(w, s, ida, b1)
    BY <1>7, <1>8, <1>10, <1>13, <2>2, <2>8 DEF JFiel
  <2> QED BY <1>5, <2>3, <2>9
<1> QED BY <1>3, <1>11, <1>12, <1>13

\* A page that is mounted, with nothing else on its way.
LEMMA JPos ==
    ASSUME NEW t, "sesion" \in DOMAIN t, NEW s
    PROVE  JFiel(Caja!EnPos(t), s, Caja!Consultar(t.sesion), <<>>)
<1> DEFINE v == Caja!EnPos(t)
           e == <<>>
<1>1. JCampos(v) /\ v.ruta = "pos" /\ v.iniciando = TRUE /\ v.modal = FALSE /\ v.informe = Nada
  BY DEF Caja!EnPos, JCampos
<1>2. \E q : Caja!Consultar(t.sesion) = <<q>> /\ q.viva = TRUE /\ JConsulta(q)
  <2> DEFINE q1 == Caja!Tras(Caja!Pedido("reporte", t.sesion, Nada), "restaurar")
             q2 == Caja!Pedido("activa", Caja!Nadie, Nada)
  <2>1. Caja!Consultar(t.sesion) \in {<<q1>>, <<q2>>}
    BY DEF Caja!Consultar
  <2>2. q1.viva = TRUE /\ JConsulta(q1) /\ q2.viva = TRUE /\ JConsulta(q2)
    BY DEF Caja!Pedido, Caja!Tras, JConsulta
  <2> HIDE DEF q1, q2
  <2> QED BY <2>1, <2>2
<1>3. PICK q : Caja!Consultar(t.sesion) = <<q>> /\ q.viva = TRUE /\ JConsulta(q)
  BY <1>2
<1> DEFINE a == <<q>>
<1>4. Vivas(a, e) /\ 1 \in DOMAIN a /\ a = <<a[1]>> /\ a[1] = q /\ DOMAIN e = {}
  BY <1>3, VivasUna, SucesionUna
<1> HIDE DEF v, e, a
<1>5. JInicia(s, a, e)
  BY <1>3, <1>4 DEF JInicia, e
<1>6. JFiel(v, s, a, e)
  BY <1>1, <1>4, <1>5 DEF JFiel
<1> QED BY <1>3, <1>6 DEF v, e, a

LEMMA JPideCierre ==
    ASSUME NEW n
    PROVE  Caja!Leer(n) = <<>> \/ \E q : Caja!Leer(n) = <<q>> /\ q.viva = TRUE /\ JCuenta(q)
<1> DEFINE q == Caja!Tras(Caja!Pedido("reporte", n, Nada), "cierre")
<1>1. Caja!Leer(n) = IF n = Nadie THEN <<>> ELSE <<q>>
  BY DEF Caja!Leer, Caja!Nadie, Nadie
<1>2. n # Nadie => q.viva = TRUE /\ JCuenta(q)
  BY DEF Caja!Pedido, Caja!Tras, JCuenta
<1> HIDE DEF q
<1> QED BY <1>1, <1>2

LEMMA JCierre ==
    ASSUME NEW t, "sesion" \in DOMAIN t, NEW s
    PROVE  JFiel(Caja!EnCierre(t), s, Caja!Leer(t.sesion), <<>>)
<1> DEFINE v == Caja!EnCierre(t)
           e == <<>>
           a == Caja!Leer(t.sesion)
<1>1. JCampos(v) /\ v.ruta = "cierre" /\ v.modal = FALSE /\ v.informe = Nada
  BY DEF Caja!EnCierre, Caja!Leyendo, Caja!EnPos, JCampos
<1>2. Vivas(a, e) /\ DOMAIN e = {} /\ \A k \in DOMAIN a : JCuenta(a[k])
  <2>1. CASE a = e
    BY <2>1, VivasNada, SucesionUna
  <2>2. ASSUME NEW q, a = <<q>>, q.viva = TRUE, JCuenta(q)
        PROVE  Vivas(a, e) /\ DOMAIN e = {} /\ \A k \in DOMAIN a : JCuenta(a[k])
    <3>1. DOMAIN a = {1} /\ a[1] = q
      BY <2>2, SucesionUna
    <3> HIDE DEF a
    <3> QED BY <2>2, <3>1, VivasUna, SucesionUna
  <2> QED BY <2>1, <2>2, JPideCierre
<1> HIDE DEF v, e, a
<1>3. JCierra(v, s, a, e)
  BY <1>1, <1>2 DEF JCierra
<1>4. JFiel(v, s, a, e)
  BY <1>1, <1>2, <1>3 DEF JFiel
<1> QED BY <1>4 DEF v, e, a

LEMMA JClic ==
    ASSUME NEW v, NEW s, NEW a, NEW b, JFiel(v, s, a, b), NEW w, JCampos(w), w.ruta = v.ruta,
           w.iniciando = v.iniciando, w.informe = v.informe, w.tienda.sesion = v.tienda.sesion,
           v.ruta = "pos" => v.iniciando = FALSE,
           v.ruta = "cierre" => w.modal = v.modal,
           NEW p, p = <<>> \/ \E q : p = <<q>> /\ q.viva = TRUE /\ (IF v.ruta = "pos" THEN JVende(q) ELSE JCuenta(q))
    PROVE  JFiel(w, s, a \o p, b)
<1> DEFINE u == a \o p
<1>1. Vivas(a, b) /\ Sucesion(a)
  BY DEF JFiel, Vivas
<1>2. Vivas(u, b) /\ \A k \in DOMAIN u : \/ \E j \in DOMAIN a : u[k] = a[j]
                                         \/ IF v.ruta = "pos" THEN JVende(u[k]) ELSE JCuenta(u[k])
  <2>1. CASE p = <<>>
    <3>1. u = a
      BY <1>1, <2>1, JuntoNada
    <3> HIDE DEF u
    <3> QED BY <1>1, <3>1
  <2>2. ASSUME NEW q, p = <<q>>, q.viva = TRUE, IF v.ruta = "pos" THEN JVende(q) ELSE JCuenta(q)
        PROVE  Vivas(u, b) /\ \A k \in DOMAIN u : \/ \E j \in DOMAIN a : u[k] = a[j]
                                                  \/ IF v.ruta = "pos" THEN JVende(u[k]) ELSE JCuenta(u[k])
    <3>1. Vivas(u, b) /\ Salen(u, a, {q})
      BY <1>1, <2>2, VivasUna, VivasPide, SalenDe
    <3> HIDE DEF u
    <3> QED BY <2>2, <3>1 DEF Salen
  <2> QED BY <2>1, <2>2
<1> HIDE DEF u
<1>3. v.ruta = "pos" => JOpera(w, s, u, b)
  <2> SUFFICES ASSUME v.ruta = "pos" PROVE JOpera(w, s, u, b)
    OBVIOUS
  <2>1. JOpera(v, s, a, b)
    BY DEF JFiel
  <2> QED BY <1>2, <2>1 DEF JOpera
<1>4. v.ruta = "cierre" => w.modal = FALSE /\ JCierra(w, s, u, b)
  <2> SUFFICES ASSUME v.ruta = "cierre" PROVE w.modal = FALSE /\ JCierra(w, s, u, b)
    OBVIOUS
  <2>1. JCierra(v, s, a, b) /\ v.modal = FALSE
    BY DEF JFiel
  <2> QED BY <1>2, <2>1 DEF JCierra, JVigente
<1>5. JFiel(w, s, u, b)
  BY <1>2, <1>3, <1>4 DEF JFiel
<1> QED BY <1>5 DEF u

LEMMA JMonta ==
    ASSUME NEW v, NEW p, Sucesion(p), Caja!Montar(v, p), dudosa' # TRUE
    PROVE  vista' = v /\ srv' = srv /\ ida' = p /\ vuelta' = <<>>
<1>1. /\ vista' = v /\ srv' = srv /\ ida' = Huerfanos(<<>>) \o p /\ vuelta' = HuerfanasDe(<<>>)
  BY DEF Caja!Montar, Caja!Huerfanos, Huerfanos, Caja!HuerfanasDe, HuerfanasDe, Caja!EnReposo
<1>2. <<>> \o p = p
  BY ConcatEmptySeq DEF Sucesion
<1> QED BY <1>1, <1>2, NadieEnReposo

LEMMA JSucesiones ==
    ASSUME NEW n
    PROVE  Sucesion(Caja!Leer(n)) /\ Sucesion(Caja!Consultar(n))
BY SucesionUna DEF Caja!Leer, Caja!Consultar

LEMMA CajaFielSigue == CajaInv /\ CajaFiel /\ Caja!Next => CajaFiel'
<1> SUFFICES ASSUME CajaInv, CajaFiel, Caja!Next, dudosa' # TRUE PROVE JFiel(vista', srv', ida', vuelta')
  BY DEF CajaFiel
<1> DEFINE n == vista.tienda.sesion
<1>1. /\ dudosa # TRUE => JFiel(vista, srv, ida, vuelta) /\ JCampos(vista)
      /\ "sesion" \in DOMAIN vista.tienda
  BY DEF CajaFiel, JFiel, CajaInv, TVista
<1>2. ASSUME dudosa # TRUE, srv' = srv, vuelta' = vuelta, NEW p, ida' = ida \o p,
             JCampos(vista'), vista'.ruta = vista.ruta,
             vista'.iniciando = vista.iniciando, vista'.informe = vista.informe, vista'.tienda.sesion = n,
             vista.ruta = "pos" => vista.iniciando = FALSE,
             vista.ruta = "cierre" => vista'.modal = vista.modal,
             p = <<>> \/ \E q : p = <<q>> /\ q.viva = TRUE
                                /\ (IF vista.ruta = "pos" THEN JVende(q) ELSE JCuenta(q))
      PROVE  JFiel(vista', srv', ida', vuelta')
  <2> DEFINE v == vista
             w == vista'
  <2>1. /\ JFiel(v, srv, ida, vuelta) /\ JCampos(w) /\ w.ruta = v.ruta
        /\ w.iniciando = v.iniciando /\ w.informe = v.informe /\ w.tienda.sesion = v.tienda.sesion
        /\ v.ruta = "pos" => v.iniciando = FALSE
        /\ v.ruta = "cierre" => w.modal = v.modal
        /\ p = <<>> \/ \E q : p = <<q>> /\ q.viva = TRUE /\ (IF v.ruta = "pos" THEN JVende(q) ELSE JCuenta(q))
    BY <1>1, <1>2
  <2> HIDE DEF v, w
  <2>2. JFiel(w, srv, ida \o p, vuelta)
    BY <2>1, JClic
  <2> QED BY <1>2, <2>2 DEF w
<1>3. CASE Caja!MostrarApertura
  <2>1. /\ dudosa # TRUE /\ srv' = srv /\ vuelta' = vuelta /\ ida' = ida /\ vista.ruta = "pos"
        /\ vista' = [vista EXCEPT !.modal = vista.tienda.sesion = Nadie] /\ ~vista.iniciando
    BY <1>3 DEF Caja!MostrarApertura, Caja!Nadie, Nadie
  <2>2. /\ JCampos(vista') /\ vista'.ruta = vista.ruta
        /\ vista'.iniciando = vista.iniciando /\ vista'.informe = vista.informe /\ vista'.tienda.sesion = n
        /\ vista.iniciando = FALSE
    BY <1>1, <2>1 DEF JCampos
  <2>3. ida' = ida \o <<>>
    BY <1>1, <2>1, JuntoNada DEF JFiel, Vivas
  <2> QED BY <1>2, <2>1, <2>2, <2>3
<1>4. CASE Caja!AbrirCaja
  <2>1. PICK f : Caja!Toque([vista EXCEPT !.tienda.cargando = TRUE], <<Caja!Pedido("abrir", Caja!Nadie, f)>>)
    BY <1>4 DEF Caja!AbrirCaja
  <2> DEFINE q == Caja!Pedido("abrir", Caja!Nadie, f)
  <2>2. q.viva = TRUE /\ JVende(q)
    BY DEF Caja!Pedido, JVende
  <2>3. /\ dudosa # TRUE /\ srv' = srv /\ vuelta' = vuelta /\ ida' = ida \o <<q>> /\ vista.modal
        /\ vista' = [vista EXCEPT !.tienda.cargando = TRUE]
    BY <1>4, <2>1 DEF Caja!Toque, Caja!AbrirCaja, Caja!Apertura
  <2>4. vista.ruta = "pos" /\ vista.iniciando = FALSE
    BY <1>1, <2>3 DEF JFiel, JCampos
  <2> HIDE DEF q
  <2>5. /\ JCampos(vista') /\ vista'.ruta = vista.ruta
        /\ vista'.iniciando = vista.iniciando /\ vista'.informe = vista.informe /\ vista'.tienda.sesion = n
    BY <1>1, <2>3 DEF JCampos
  <2> QED BY <1>2, <2>2, <2>3, <2>4, <2>5
<1>5. CASE Caja!Vender
  <2>1. PICK e : Caja!Toque(vista, <<Caja!Pedido("venta", n, [efectivo |-> e, digital |-> 1 - e])>>)
    BY <1>5 DEF Caja!Vender
  <2> DEFINE q == Caja!Pedido("venta", n, [efectivo |-> e, digital |-> 1 - e])
  <2>2. q.viva = TRUE /\ JVende(q)
    BY DEF Caja!Pedido, JVende
  <2>3. dudosa # TRUE /\ srv' = srv /\ vuelta' = vuelta /\ ida' = ida \o <<q>> /\ vista' = vista
    BY <2>1 DEF Caja!Toque
  <2> HIDE DEF q
  <2>4. vista.ruta = "pos" /\ vista.iniciando = FALSE
    BY <1>1, <1>5, <2>3 DEF Caja!Vender, Caja!Operando, JCampos
  <2> QED BY <1>1, <1>2, <2>2, <2>3, <2>4
<1>6. CASE Caja!IrACierre
  <2> DEFINE v == Caja!EnCierre(vista.tienda)
             p == Caja!Leer(n)
  <2>1. Caja!Montar(v, p) /\ Sucesion(p) /\ JFiel(v, srv, p, <<>>)
    BY <1>1, <1>6, JSucesiones, JCierre DEF Caja!IrACierre
  <2> HIDE DEF v, p
  <2>2. vista' = v /\ srv' = srv /\ ida' = p /\ vuelta' = <<>>
    BY <2>1, JMonta
  <2> QED BY <2>1, <2>2
<1>7. ASSUME NEW t, "sesion" \in DOMAIN t, Caja!Montar(Caja!EnPos(t), Caja!Consultar(t.sesion))
      PROVE  JFiel(vista', srv', ida', vuelta')
  <2> DEFINE v == Caja!EnPos(t)
             p == Caja!Consultar(t.sesion)
  <2>1. Caja!Montar(v, p) /\ Sucesion(p) /\ JFiel(v, srv, p, <<>>)
    BY <1>7, JSucesiones, JPos
  <2> HIDE DEF v, p
  <2>2. vista' = v /\ srv' = srv /\ ida' = p /\ vuelta' = <<>>
    BY <2>1, JMonta
  <2> QED BY <2>1, <2>2
<1>8. CASE Caja!IrAPos
  BY <1>1, <1>7, <1>8 DEF Caja!IrAPos
<1>9. CASE Caja!Salir
  <2> DEFINE t == [vista.tienda EXCEPT !.sesion = Caja!Nadie]
  <2>1. Caja!Montar(Caja!EnPos(t), Caja!Consultar(t.sesion))
    BY <1>9 DEF Caja!Salir
  <2>2. "sesion" \in DOMAIN t
    BY <1>1
  <2> HIDE DEF t
  <2> QED BY <1>7, <2>1, <2>2
<1>10. CASE Caja!Reabrir
  <2> DEFINE t == Caja!Tienda(n)
             v == Caja!EnPos(t)
             p == Caja!Consultar(t.sesion)
             f == [k \in DOMAIN ida |-> [ida[k] EXCEPT !.viva = FALSE, !.tras = "olvidada"]]
  <2>1. vista' = v /\ ida' = f \o p /\ vuelta' = <<>> /\ srv' = srv /\ ida = <<>>
    BY <1>10 DEF Caja!Reabrir
  <2>2. "sesion" \in DOMAIN t
    BY DEF Caja!Tienda
  <2>3. f = <<>>
    <3>1. DOMAIN ida = {}
      BY <2>1, SucesionUna
    <3>2. \A g : DOMAIN g = {} => [k \in DOMAIN g |-> [g[k] EXCEPT !.viva = FALSE, !.tras = "olvidada"]] = [k \in {} |-> k]
      OBVIOUS
    <3>3. \A g : DOMAIN g = {} => [k \in DOMAIN g |-> [g[k] EXCEPT !.viva = FALSE]] = [k \in {} |-> k]
      OBVIOUS
    <3>4. Huerfanos(<<>>) = [k \in {} |-> k]
      BY <3>3, SucesionUna DEF Huerfanos
    <3> QED BY <3>1, <3>2, <3>4, NadieEnReposo
  <2>4. Sucesion(p) /\ JFiel(v, srv, p, <<>>)
    BY <2>2, JSucesiones, JPos
  <2> HIDE DEF f, v, p
  <2>5. <<>> \o p = p
    BY <2>4, ConcatEmptySeq DEF Sucesion
  <2> QED BY <2>1, <2>3, <2>4, <2>5
<1>11. CASE Caja!Actualizar
  <2>1. /\ dudosa # TRUE /\ srv' = srv /\ vuelta' = vuelta /\ ida' = ida \o Caja!Leer(n) /\ vista.ruta = "cierre"
        /\ vista' = Caja!Leyendo(vista)
    BY <1>11 DEF Caja!Toque, Caja!Actualizar, Caja!Formulario, Caja!EnArqueo
  <2>2. /\ JCampos(vista') /\ vista'.ruta = vista.ruta
        /\ vista'.iniciando = vista.iniciando /\ vista'.informe = vista.informe /\ vista'.tienda.sesion = n
        /\ vista'.modal = vista.modal
    BY <1>1, <2>1 DEF JCampos, Caja!Leyendo
  <2> DEFINE p == Caja!Leer(n)
  <2>3. p = <<>> \/ \E q : p = <<q>> /\ q.viva = TRUE /\ (IF vista.ruta = "pos" THEN JVende(q) ELSE JCuenta(q))
    BY <2>1, JPideCierre
  <2> HIDE DEF p
  <2> QED BY <1>2, <2>1, <2>2, <2>3 DEF p
<1>12. CASE Caja!EnviarArqueo
  <2>1. PICK d : /\ Caja!Toque([vista EXCEPT !.tienda.cargando = TRUE], <<Caja!Pedido("arqueo", n, d)>>)
                 /\ vista.ruta = "cierre"
    BY <1>12 DEF Caja!EnviarArqueo, Caja!Formulario, Caja!EnArqueo
  <2> DEFINE q == Caja!Pedido("arqueo", n, d)
  <2>2. q.viva = TRUE /\ JCuenta(q)
    BY DEF Caja!Pedido, JCuenta
  <2>3. /\ dudosa # TRUE /\ srv' = srv /\ vuelta' = vuelta /\ ida' = ida \o <<q>>
        /\ vista' = [vista EXCEPT !.tienda.cargando = TRUE]
    BY <2>1 DEF Caja!Toque
  <2> HIDE DEF q
  <2>4. /\ JCampos(vista') /\ vista'.ruta = vista.ruta
        /\ vista'.iniciando = vista.iniciando /\ vista'.informe = vista.informe /\ vista'.tienda.sesion = n
        /\ vista'.modal = vista.modal
    BY <1>1, <2>3 DEF JCampos
  <2> QED BY <1>2, <2>1, <2>2, <2>3, <2>4
<1>13. CASE Caja!NuevoArqueo \/ Caja!CambiarPestana
  <2> DEFINE q == Caja!Pedido("historial", Caja!Nadie, Nada)
  <2>1. q.viva = TRUE /\ JCuenta(q)
    BY DEF Caja!Pedido, JCuenta
  <2>2. /\ dudosa # TRUE /\ srv' = srv /\ vuelta' = vuelta /\ vista.ruta = "cierre"
        /\ ida' \in {ida \o <<>>, ida \o <<q>>}
        /\ \/ vista' = [vista EXCEPT !.resultado = Nada]
           \/ vista' = [vista EXCEPT !.pestana = "historial", !.listando = TRUE]
           \/ vista' = [vista EXCEPT !.pestana = "arqueo"]
    BY <1>13 DEF Caja!NuevoArqueo, Caja!CambiarPestana, Caja!Toque, Caja!Resultado, Caja!EnArqueo, Caja!EnHistorial
  <2> HIDE DEF q
  <2>3. /\ JCampos(vista') /\ vista'.ruta = vista.ruta
        /\ vista'.iniciando = vista.iniciando /\ vista'.informe = vista.informe /\ vista'.tienda.sesion = n
        /\ vista'.modal = vista.modal
    BY <1>1, <2>2 DEF JCampos
  <2>4. CASE ida' = ida \o <<>>
    BY <1>2, <2>2, <2>3, <2>4
  <2>5. CASE ida' = ida \o <<q>>
    BY <1>2, <2>1, <2>2, <2>3, <2>5
  <2> QED BY <2>2, <2>4, <2>5
<1> QED BY <1>3, <1>4, <1>5, <1>6, <1>8, <1>9, <1>10, <1>11, <1>12, <1>13, JFielResponde, JFielRecibe DEF Caja!Next

LEMMA CajaFielEmpieza == Caja!Init => CajaFiel
<1> SUFFICES ASSUME Caja!Init PROVE JFiel(vista, srv, ida, vuelta)
  BY DEF CajaFiel
<1> DEFINE t == Caja!Tienda(Caja!Nadie)
<1>1. vista = Caja!EnPos(t) /\ ida = Caja!Consultar(t.sesion) /\ vuelta = <<>> /\ "sesion" \in DOMAIN t
  BY DEF Caja!Init, Caja!PeticionesInit, Caja!Tienda
<1> HIDE DEF t
<1> QED BY <1>1, JPos

LEMMA CajaFielDice == CajaFiel /\ EnReposo /\ dudosa # TRUE => Caja!Mostrado
<1> SUFFICES ASSUME JFiel(vista, srv, <<>>, <<>>) PROVE Caja!Mostrado
  BY DEF CajaFiel, EnReposo
<1> DEFINE e == <<>>
           v == vista
           s == srv
<1>1. DOMAIN e = {} /\ JFiel(v, s, e, e)
  BY SucesionUna
<1>2. v.ruta \in {"pos", "cierre"} /\ v.iniciando \in BOOLEAN
  BY <1>1 DEF JFiel, JCampos
<1>3. ~JInicia(s, e, e)
  BY <1>1 DEF JInicia
<1> HIDE DEF e
<1>4. v.ruta = "pos" => JOpera(v, s, e, e) /\ v.informe = Nada
  BY <1>1, <1>2, <1>3 DEF JFiel
<1>5. v.ruta = "cierre" => JCierra(v, s, e, e)
  BY <1>1 DEF JFiel
<1>6. v.ruta = "pos" => IF v.tienda.sesion = Nadie THEN Caja!Propias(s) = {} ELSE v.tienda.sesion \in JAbiertas(s)
  BY <1>1, <1>4 DEF JOpera, JAbrio
<1>7. v.informe # Nada => v.informe = Caja!Reporte(s, v.informe.id) \/ v.informe.id # v.tienda.sesion
  BY <1>1, <1>2, <1>4, <1>5 DEF JCierra, JVigente, JCerro
<1> QED BY <1>6, <1>7 DEF Caja!Mostrado, JAbiertas, Caja!Nadie, Nadie

LEMMA CajaFielQuieta == CajaFiel /\ UNCHANGED vars => CajaFiel'
<1> SUFFICES ASSUME CajaFiel, UNCHANGED vars PROVE CajaFiel'
  OBVIOUS
<1>1. vista' = vista /\ srv' = srv /\ ida' = ida /\ vuelta' = vuelta /\ dudosa' = dudosa
  BY DEF vars
<1>2. dudosa' # TRUE => JFiel(vista', srv', ida', vuelta')
  BY <1>1 DEF CajaFiel
<1> QED BY <1>2 DEF CajaFiel

-----------------------------------------------------------------------------
(* The session of the user: the tokens that the page has are the last that *)
(* were issued, and nobody leaves none behind.                             *)

SDom == {"usuario", "acceso", "refresco", "timer", "cambia", "ingresando", "error", "renovando",
         "esperan", "iniciando"}
SBanco(s) == DOMAIN s = {"ultimo", "gastados", "caducos", "debe"} /\ s.ultimo \in Nat

\* The answers that bring a new pair of tokens.
SEmisor == {"entrar", "refrescar", "restaurar"}
SCanal == Canal({}, {}, {}, {<<op, id>> : op \in SEmisor, id \in Nat}, <<"campo", "par">>)
SEmite(m) == m.ok = TRUE /\ m.q.op \in SEmisor
SVuela(a, b, op) == Hay(a, {op}) \/ \E k \in DOMAIN b : b[k].q.op = op

\* The tokens of the page, with nothing on its way that brings others.
SPar(v, s) == v.acceso # 0 => v.acceso = s.ultimo
SFichas(v, s, a, b) ==
    /\ Vivas(a, b)
    /\ Fresca(a, b, SCanal, SPar(v, s), {s.ultimo})
    /\ \A k \in DOMAIN a : a[k].id \in Nat
    /\ \A k \in DOMAIN b : b[k].q.id \in Nat /\ (SEmite(b[k]) => b[k].datos.par \in Nat \ {0})
    /\ v.acceso \in Nat /\ v.refresco \in Nat
\* Nothing is before the request that restores the user, and who leaves does not renew.
SOrden(a, b) ==
    /\ Orden(a, b, {"salir", "refrescar"}, {"refrescar"}, FALSE)
    /\ Orden(a, b, SO, {"restaurar"}, FALSE)
SQuien(v, a, b) ==
    /\ v.usuario # TRUE => v.acceso = 0 /\ v.refresco = 0 /\ v.timer # TRUE
    /\ v.usuario = TRUE /\ v.cambia # TRUE => v.acceso # 0 \/ SVuela(a, b, "restaurar")
    /\ v.acceso # 0 => v.refresco = v.acceso
    /\ SVuela(a, b, "refrescar") => v.usuario = TRUE
    /\ SVuela(a, b, "restaurar") => v.acceso = 0 /\ v.timer # TRUE /\ ~SVuela(a, b, "refrescar")
SFiel(v, s, a, b) == SFichas(v, s, a, b) /\ SOrden(a, b) /\ SQuien(v, a, b)
SesionFiel == DOMAIN vista = SDom /\ SBanco(srv) /\ (dudosa # TRUE => SFiel(vista, srv, ida, vuelta))

LEMMA SCuenta == \A K : Sesion!EnVuelo(K) = EnVuelo(K)
BY DEF Sesion!EnVuelo, EnVuelo, Sesion!Cardinality, Cardinality

LEMMA SHabla ==
    /\ SCanal.pide = {} /\ SCanal.relee = {}
    /\ \A m : /\ m.q.id \in Nat => (Habla(m, SCanal) <=> SEmite(m))
              /\ Dicho(m, SCanal.dato) = m.datos.par
<1>1. SCanal.pide = {} /\ SCanal.relee = {} /\ SCanal.lista = {} /\ SCanal.dato = <<"campo", "par">>
      /\ SCanal.propia = {<<op, id>> : op \in SEmisor, id \in Nat}
  BY DEF SCanal, Canal
<1>2. ASSUME NEW m PROVE Dicho(m, SCanal.dato) = m.datos.par
  BY <1>1 DEF Dicho
<1>3. ASSUME NEW m, m.q.id \in Nat PROVE Habla(m, SCanal) <=> SEmite(m)
  BY <1>1, <1>3 DEF Habla, SEmite
<1> QED BY <1>1, <1>2, <1>3

\* Requests of other operations do not disturb the order.
LEMMA OrdenSigue ==
    ASSUME NEW a, NEW b, Vivas(a, b), NEW A, NEW B, Orden(a, b, A, B, FALSE), NEW p, Sucesion(p),
           \A k \in DOMAIN p : p[k].op \notin B
    PROVE  Orden(a \o p, b, A, B, FALSE)
<1> DEFINE u == a \o p
           n == Len(a)
           F(x, y) == Antes(x, y, A, B, FALSE)
<1>1. /\ n \in Nat /\ DOMAIN a = 1 .. n /\ Len(p) \in Nat /\ DOMAIN p = 1 .. Len(p)
      /\ DOMAIN u = 1 .. n + Len(p)
      /\ \A k \in 1 .. n : u[k] = a[k]
      /\ \A k \in 1 .. Len(p) : u[n + k] = p[k]
  BY SucesionLarga, SucesionJunta DEF Vivas
<1> HIDE DEF u, n
<1>2. ASSUME NEW k \in DOMAIN u, k \notin DOMAIN a PROVE u[k].op \notin B
  <2>1. k - n \in DOMAIN p /\ u[n + (k - n)] = p[k - n] /\ n + (k - n) = k
    BY <1>1, <1>2
  <2> QED BY <2>1
<1>3. ASSUME NEW j \in DOMAIN u, NEW k \in DOMAIN u, j < k PROVE ~F(u[j], u[k])
  <2>1. CASE k \notin DOMAIN a
    BY <1>2, <2>1 DEF Antes
  <2>2. CASE k \in DOMAIN a
    <3>1. j \in DOMAIN a /\ u[j] = a[j] /\ u[k] = a[k]
      BY <1>1, <1>3, <2>2
    <3> QED BY <1>3, <2>2, <3>1 DEF Orden
  <2> QED BY <2>1, <2>2
<1>4. ASSUME NEW j \in DOMAIN b, NEW k \in DOMAIN u PROVE ~F(b[j].q, u[k])
  <2>1. CASE k \notin DOMAIN a
    BY <1>2, <2>1 DEF Antes
  <2>2. CASE k \in DOMAIN a
    <3>1. u[k] = a[k]
      BY <1>1, <2>2
    <3> QED BY <2>2, <3>1 DEF Orden
  <2> QED BY <2>1, <2>2
<1>5. \A j, k \in DOMAIN b : j < k => ~F(b[j].q, b[k].q)
  BY DEF Orden
<1>6. Orden(u, b, A, B, FALSE)
  BY <1>3, <1>4, <1>5 DEF Orden
<1> QED BY <1>6 DEF u

\* The first answer is of K, and of K there is no more than one.
LEMMA SoloEsa ==
    ASSUME Vivas(ida, vuelta), 1 \in DOMAIN vuelta, NEW K, vuelta[1].q.op \in K, ~(EnVuelo(K) > 1)
    PROVE  /\ \A k \in DOMAIN ida : ida[k].op \notin K
           /\ \A k \in DOMAIN vuelta : k # 1 => vuelta[k].q.op \notin K
<1> DEFINE A == {k \in DOMAIN ida : ida[k].viva /\ ida[k].op \in K}
           B == {k \in DOMAIN vuelta : vuelta[k].q.viva /\ vuelta[k].q.op \in K}
<1>1. /\ Len(ida) \in Nat /\ DOMAIN ida = 1 .. Len(ida)
      /\ Len(vuelta) \in Nat /\ DOMAIN vuelta = 1 .. Len(vuelta)
  BY SucesionLarga DEF Vivas
<1>2. A \in SUBSET (1 .. Len(ida)) /\ B \in SUBSET (1 .. Len(vuelta))
  BY <1>1
<1>3. EnVuelo(K) = Cardinality(A) + Cardinality(B)
  BY DEF EnVuelo
<1>4. \A k \in DOMAIN ida : ida[k].op \in K => k \in A
  BY DEF Vivas
<1>5. \A k \in DOMAIN vuelta : vuelta[k].q.op \in K => k \in B
  BY DEF Vivas
<1> HIDE DEF A, B
<1>6. /\ IsFiniteSet(A) /\ Cardinality(A) \in Nat
      /\ IsFiniteSet(B) /\ Cardinality(B) \in Nat
  BY <1>1, <1>2, DelUnoAl
<1>7. 1 \in B
  BY <1>5
<1>8. IsFiniteSet(B \ {1}) /\ Cardinality(B \ {1}) = Cardinality(B) - 1
  BY <1>6, <1>7, FS_RemoveElement
<1>9. Cardinality(B \ {1}) \in Nat
  BY <1>8, FS_CardinalityType
<1>10. Cardinality(A) = 0 /\ Cardinality(B \ {1}) = 0
  BY <1>3, <1>6, <1>8, <1>9
<1>11. A = {} /\ B \ {1} = {}
  BY <1>6, <1>8, <1>10, FS_EmptySet
<1> QED BY <1>4, <1>5, <1>11

\* What is on its way, of an operation, after each kind of step.
LEMMA SVuelaPide ==
    ASSUME NEW a, NEW b, Vivas(a, b), NEW p, Sucesion(p), NEW op
    PROVE  SVuela(a \o p, b, op) <=> SVuela(a, b, op) \/ Hay(p, {op})
<1> DEFINE u == a \o p
<1>1. SonJuntos(u, a, p)
  BY JuntosDeTodo DEF Vivas
<1> HIDE DEF u
<1>2. Hay(u, {op}) <=> Hay(a, {op}) \/ Hay(p, {op})
  BY <1>1 DEF Hay, SonJuntos
<1> QED BY <1>2 DEF SVuela, u

LEMMA SVuelaToma ==
    ASSUME NEW a, NEW b, Vivas(a, b), 1 \in DOMAIN a, NEW m, m.q = a[1], NEW op
    PROVE  SVuela(Sin(a, 1), Append(b, m), op) <=> SVuela(a, b, op)
<1> DEFINE a1 == Sin(a, 1)
           b1 == Append(b, m)
           n == Len(b) + 1
<1>1. /\ Len(b) \in Nat /\ DOMAIN b = 1 .. Len(b) /\ DOMAIN b1 = 1 .. n
      /\ \A k \in 1 .. Len(b) : b1[k] = b[k]
      /\ b1[n] = m
  BY UnoMas DEF Vivas
<1>2. /\ Len(a) \in Nat \ {0} /\ DOMAIN a = 1 .. Len(a) /\ DOMAIN a1 = 1 .. Len(a) - 1
      /\ \A k \in 1 .. Len(a) - 1 : a1[k] = a[k + 1]
  BY PrimeroSale DEF Vivas
<1> HIDE DEF a1, b1
<1>3. \A k \in DOMAIN a1 : k + 1 \in DOMAIN a /\ a1[k] = a[k + 1]
  BY <1>2
<1>4. \A k \in DOMAIN a : k = 1 \/ (k - 1 \in DOMAIN a1 /\ a1[k - 1] = a[k])
  BY <1>2
<1>5. \A k \in DOMAIN b1 : k = n \/ (k \in DOMAIN b /\ b1[k] = b[k])
  BY <1>1
<1>6. n \in DOMAIN b1 /\ \A k \in DOMAIN b : k \in DOMAIN b1 /\ b1[k] = b[k]
  BY <1>1
<1>7. SVuela(a1, b1, op) => SVuela(a, b, op)
  BY <1>1, <1>3, <1>5 DEF SVuela, Hay
<1>8. SVuela(a, b, op) => SVuela(a1, b1, op)
  BY <1>1, <1>4, <1>6 DEF SVuela, Hay
<1> QED BY <1>7, <1>8 DEF a1, b1

LEMMA SVuelaLlega ==
    ASSUME NEW a, NEW b, Vivas(a, b), 1 \in DOMAIN b, NEW op, SVuela(a, Sin(b, 1), op)
    PROVE  SVuela(a, b, op)
<1>1. Salen(Sin(b, 1), b, {})
  BY SalenDe DEF Vivas
<1> QED BY <1>1 DEF SVuela, Salen

\* More is asked for, with the tokens that there are or with none of them left.
LEMMA SFichasPide ==
    ASSUME NEW v, NEW s, NEW a, NEW b, SFichas(v, s, a, b), NEW p, Vivas(p, <<>>),
           \A k \in DOMAIN p : p[k].id \in Nat,
           NEW w, \/ w.acceso = v.acceso /\ w.refresco = v.refresco
                  \/ w.acceso = 0 /\ w.refresco = 0
    PROVE  SFichas(w, s, a \o p, b)
<1> DEFINE P == SPar(v, s)
           P1 == SPar(w, s)
           Y == {s.ultimo}
           u == a \o p
<1>1. Vivas(a, b) /\ Sucesion(a) /\ Sucesion(p) /\ (P => P1) /\ Fresca(a, b, SCanal, P, Y)
  BY DEF SFichas, Vivas, SPar
<1>2. SonJuntos(u, a, p)
  BY <1>1, JuntosDeTodo
<1> HIDE DEF P, P1, Y
<1>3. Vivas(u, b) /\ Fresca(u, b, SCanal, P1, Y)
  BY <1>1, VivasPide, FrescaPide
<1> HIDE DEF u
<1>4. \A k \in DOMAIN u : u[k].id \in Nat
  BY <1>2 DEF SonJuntos, SFichas
<1>5. SFichas(w, s, u, b)
  BY <1>3, <1>4 DEF SFichas, P1, Y
<1> QED BY <1>5 DEF u

LEMMA SOrdenPide ==
    ASSUME NEW a, NEW b, Vivas(a, b), SOrden(a, b), NEW p, Sucesion(p),
           \/ \A k \in DOMAIN p : p[k].op \notin {"refrescar", "restaurar"}
           \/ \E q : /\ p = <<q>> /\ q.op = "refrescar"
                     /\ \A k \in DOMAIN a : a[k].op \notin {"salir", "refrescar"}
                     /\ \A k \in DOMAIN b : b[k].q.op \notin {"salir", "refrescar"}
    PROVE  SOrden(a \o p, b)
<1>1. CASE \A k \in DOMAIN p : p[k].op \notin {"refrescar", "restaurar"}
  BY <1>1, OrdenSigue DEF SOrden
<1>2. ASSUME NEW q, p = <<q>>, q.op = "refrescar",
             \A k \in DOMAIN a : a[k].op \notin {"salir", "refrescar"},
             \A k \in DOMAIN b : b[k].q.op \notin {"salir", "refrescar"}
      PROVE  SOrden(a \o p, b)
  <2>1. Orden(a \o <<q>>, b, {"salir", "refrescar"}, {"refrescar"}, FALSE)
    <3>1. /\ \A k \in DOMAIN a : ~Antes(a[k], q, {"salir", "refrescar"}, {"refrescar"}, FALSE)
          /\ \A k \in DOMAIN b : ~Antes(b[k].q, q, {"salir", "refrescar"}, {"refrescar"}, FALSE)
      BY <1>2 DEF Antes
    <3> QED BY <3>1, OrdenPide DEF SOrden
  <2>2. \A k \in DOMAIN p : p[k].op \notin {"restaurar"}
    BY <1>2, SucesionUna
  <2>3. Orden(a \o p, b, SO, {"restaurar"}, FALSE)
    BY <2>2, OrdenSigue DEF SOrden
  <2> QED BY <1>2, <2>1, <2>3 DEF SOrden
<1> QED BY <1>1, <1>2

\* A click that asks for something in the name of who is there, or for nothing.
LEMMA SClic ==
    ASSUME NEW v, NEW s, NEW a, NEW b, SFiel(v, s, a, b), NEW p,
           p = <<>> \/ \E q : p = <<q>> /\ q.viva = TRUE /\ q.id \in Nat /\ q.op \in SE,
           NEW w, w.usuario = v.usuario, w.cambia = v.cambia, w.acceso = v.acceso, w.refresco = v.refresco,
           w.timer = v.timer \/ w.timer = FALSE
    PROVE  SFiel(w, s, a \o p, b)
<1>1. /\ Vivas(p, <<>>) /\ Sucesion(p) /\ \A k \in DOMAIN p : p[k].id \in Nat /\ p[k].op \in SE
      /\ \A op : Hay(p, {op}) => op \in SE
  <2>1. CASE p = <<>>
    BY <2>1, SucesionUna, PideNada DEF Hay
  <2>2. ASSUME NEW q, p = <<q>>, q.viva = TRUE, q.id \in Nat, q.op \in SE
        PROVE  /\ Vivas(p, <<>>) /\ Sucesion(p) /\ \A k \in DOMAIN p : p[k].id \in Nat /\ p[k].op \in SE
               /\ \A op : Hay(p, {op}) => op \in SE
    <3>1. Vivas(<<q>>, <<>>) /\ Sucesion(<<q>>) /\ \A op : Hay(<<q>>, {op}) <=> q.op \in {op}
      BY <2>2, PideUna
    <3>2. DOMAIN p = {1} /\ p[1] = q
      BY <2>2, SucesionUna
    <3> QED BY <2>2, <3>1, <3>2
  <2> QED BY <2>1, <2>2
<1>2. Vivas(a, b) /\ SFichas(v, s, a, b) /\ SOrden(a, b) /\ SQuien(v, a, b)
  BY DEF SFiel, SFichas
<1>3. \A k \in DOMAIN p : p[k].op \notin {"refrescar", "restaurar"}
  BY <1>1 DEF SE
<1>4. \A op : SVuela(a \o p, b, op) <=> SVuela(a, b, op) \/ Hay(p, {op})
  BY <1>1, <1>2, SVuelaPide
<1>5. /\ SVuela(a \o p, b, "refrescar") <=> SVuela(a, b, "refrescar")
      /\ SVuela(a \o p, b, "restaurar") <=> SVuela(a, b, "restaurar")
  <2>1. ~Hay(p, {"refrescar"}) /\ ~Hay(p, {"restaurar"})
    <3>1. "refrescar" \notin SE /\ "restaurar" \notin SE
      BY DEF SE
    <3> QED BY <1>1, <3>1
  <2> QED BY <1>4, <2>1
<1> DEFINE u == a \o p
<1>6. SFichas(w, s, u, b) /\ SOrden(u, b)
  BY <1>1, <1>2, <1>3, SFichasPide, SOrdenPide
<1>7. /\ SVuela(u, b, "refrescar") <=> SVuela(a, b, "refrescar")
      /\ SVuela(u, b, "restaurar") <=> SVuela(a, b, "restaurar")
  BY <1>5
<1> HIDE DEF u
<1>8. SQuien(w, u, b)
  BY <1>2, <1>7 DEF SQuien
<1>9. SFiel(w, s, u, b)
  BY <1>6, <1>8 DEF SFiel
<1> QED BY <1>9 DEF u

\* A renewal begins, with nobody leaving and no other one on its way.
LEMMA SRenueva ==
    ASSUME NEW v, NEW s, NEW a, NEW b, SFiel(v, s, a, b),
           NEW q, q.viva = TRUE, q.id \in Nat, q.op = "refrescar",
           \A k \in DOMAIN a : a[k].op \notin {"salir", "refrescar"},
           \A k \in DOMAIN b : b[k].q.op \notin {"salir", "refrescar"},
           v.usuario = TRUE, ~SVuela(a, b, "restaurar"),
           NEW w, w.usuario = v.usuario, w.cambia = v.cambia, w.acceso = v.acceso, w.refresco = v.refresco
    PROVE  SFiel(w, s, a \o <<q>>, b)
<1> DEFINE p == <<q>>
<1>1. Vivas(p, <<>>) /\ Sucesion(p) /\ \A k \in DOMAIN p : p[k].id \in Nat
  <2>1. Vivas(<<q>>, <<>>) /\ Sucesion(<<q>>)
    BY PideUna
  <2>2. DOMAIN p = {1} /\ p[1] = q
    BY SucesionUna
  <2> QED BY <2>1, <2>2
<1>2. ~Hay(p, {"restaurar"})
  BY PideUna
<1>3. Vivas(a, b) /\ SFichas(v, s, a, b) /\ SOrden(a, b) /\ SQuien(v, a, b)
  BY DEF SFiel, SFichas
<1>4. SOrden(a \o p, b)
  BY <1>1, <1>3, SOrdenPide
<1> HIDE DEF p
<1> DEFINE u == a \o p
<1>5. SFichas(w, s, u, b)
  BY <1>1, <1>3, SFichasPide
<1>6. ~SVuela(u, b, "restaurar")
  BY <1>1, <1>2, <1>3, SVuelaPide
<1> HIDE DEF u
<1>7. SQuien(w, u, b)
  BY <1>3, <1>6 DEF SQuien
<1>8. SFiel(w, s, u, b)
  BY <1>4, <1>5, <1>7 DEF SFiel, u
<1> QED BY <1>8 DEF u, p

\* Nobody is left.
LEMMA SNadie ==
    ASSUME NEW v, NEW s, NEW a, NEW b, SFiel(v, s, a, b), ~SVuela(a, b, "refrescar"),
           NEW w, w.usuario # TRUE, w.acceso = 0, w.refresco = 0, w.timer # TRUE
    PROVE  SFiel(w, s, a \o <<>>, b)
<1> DEFINE p == <<>>
           u == a \o p
<1>1. Vivas(p, <<>>) /\ Sucesion(p) /\ \A k \in DOMAIN p : p[k].id \in Nat
  BY PideNada, SucesionUna
<1>2. Vivas(a, b) /\ Sucesion(a) /\ SFichas(v, s, a, b) /\ SOrden(a, b) /\ SQuien(v, a, b)
  BY DEF SFiel, SFichas, Vivas
<1>3. u = a
  BY <1>2, JuntoNada
<1> HIDE DEF p
<1>4. SFichas(w, s, u, b)
  BY <1>1, <1>2, SFichasPide
<1> HIDE DEF u
<1>5. SQuien(w, u, b) /\ SOrden(u, b)
  BY <1>2, <1>3 DEF SQuien
<1>6. SFiel(w, s, u, b)
  BY <1>4, <1>5 DEF SFiel
<1> QED BY <1>6 DEF u, p

\* A page that has just been loaded, with nothing on its way from before.
LEMMA SEstrena ==
    ASSUME NEW v, NEW s, v.acceso = 0, v.refresco \in Nat, v.timer # TRUE, NEW p,
           \/ p = <<>> /\ v.usuario # TRUE /\ v.refresco = 0
           \/ \E q : p = <<q>> /\ q.op = "restaurar" /\ q.viva = TRUE /\ q.id \in Nat /\ v.usuario = TRUE
    PROVE  SFiel(v, s, p, <<>>)
<1> DEFINE P == SPar(v, s)
           Y == {s.ultimo}
<1>1. P
  BY DEF SPar
<1>2. DOMAIN <<>> = {}
  BY SucesionUna
<1> HIDE DEF P, Y
<1>3. Fresca(p, <<>>, SCanal, P, Y)
  BY <1>1, <1>2 DEF Fresca, Dice
<1>4. CASE p = <<>> /\ v.usuario # TRUE /\ v.refresco = 0
  <2>1. SFichas(v, s, p, <<>>)
    BY <1>2, <1>3, <1>4, VivasNada DEF SFichas, P, Y
  <2>2. SOrden(p, <<>>)
    BY <1>4, OrdenUna DEF SOrden
  <2>3. SQuien(v, p, <<>>)
    BY <1>2, <1>4 DEF SQuien, SVuela, Hay
  <2> QED BY <2>1, <2>2, <2>3 DEF SFiel
<1>5. ASSUME NEW q, p = <<q>>, q.op = "restaurar", q.viva = TRUE, q.id \in Nat, v.usuario = TRUE
      PROVE  SFiel(v, s, p, <<>>)
  <2>1. Vivas(p, <<>>) /\ DOMAIN p = {1} /\ p[1] = q
    BY <1>5, VivasUna, SucesionUna
  <2>2. SFichas(v, s, p, <<>>)
    BY <1>2, <1>3, <1>5, <2>1 DEF SFichas, P, Y
  <2>3. SOrden(p, <<>>)
    BY <1>5, OrdenUna DEF SOrden
  <2>4. SVuela(p, <<>>, "restaurar") /\ ~SVuela(p, <<>>, "refrescar")
    BY <1>2, <1>5, <2>1 DEF SVuela, Hay
  <2>5. SQuien(v, p, <<>>)
    BY <1>5, <2>4 DEF SQuien
  <2> QED BY <2>2, <2>3, <2>5 DEF SFiel
<1> QED BY <1>4, <1>5

\* What the backend makes of a request: a new pair, the next one, or the same pairs.
LEMMA SServidor ==
    ASSUME NEW s, SBanco(s), NEW q, q.op \in SO, NEW r, r = Sesion!Servidor(s, q)
    PROVE  /\ SBanco(r.srv)
           /\ \/ q.op \in SEmisor /\ r.ok = TRUE /\ r.datos.par = s.ultimo + 1 /\ r.srv.ultimo = s.ultimo + 1
              \/ ~(q.op \in SEmisor /\ r.ok = TRUE) /\ r.srv.ultimo = s.ultimo
<1> DEFINE Bien(x) == /\ SBanco(x.srv)
                      /\ \/ q.op \in SEmisor /\ x.ok = TRUE /\ x.datos.par = s.ultimo + 1 /\ x.srv.ultimo = s.ultimo + 1
                         \/ ~(q.op \in SEmisor /\ x.ok = TRUE) /\ x.srv.ultimo = s.ultimo
<1>1. Bien(Sesion!NoAutorizado(s))
  BY DEF Sesion!NoAutorizado, Sesion!Rechaza, SBanco
<1>2. ASSUME NEW t, SBanco(t), t.ultimo = s.ultimo, q.op \in SEmisor PROVE Bien(Sesion!Emitir(t))
  BY <1>2 DEF Sesion!Emitir, Sesion!Acepta, SBanco
<1>3. ASSUME NEW t, SBanco(t), t.ultimo = s.ultimo, q.op \notin SEmisor, NEW d PROVE Bien(Sesion!Acepta(t, d))
  BY <1>3 DEF Sesion!Acepta, SBanco
<1>4. ASSUME q.op \in SEmisor PROVE Bien(Sesion!Renovar(s, q))
  <2> DEFINE t == [s EXCEPT !.gastados = @ \cup {q.id}]
  <2>1. SBanco(t) /\ t.ultimo = s.ultimo
    BY DEF SBanco
  <2>2. Sesion!Renovar(s, q) = IF q.id \in s.gastados THEN Sesion!NoAutorizado(s) ELSE Sesion!Emitir(t)
    BY DEF Sesion!Renovar
  <2> HIDE DEF t, Bien
  <2>3. Bien(Sesion!Emitir(t))
    BY <1>2, <1>4, <2>1
  <2> QED BY <1>1, <2>2, <2>3
<1> DEFINE sale == [s EXCEPT !.caducos = @ \cup {q.id}]
           clave == [s EXCEPT !.debe = FALSE]
<1>5. /\ SBanco(sale) /\ sale.ultimo = s.ultimo
      /\ SBanco(clave) /\ clave.ultimo = s.ultimo
  BY DEF SBanco
<1>6. \/ r = Sesion!NoAutorizado(s)
      \/ q.op = "entrar" /\ r = Sesion!Emitir(s)
      \/ q.op \in {"refrescar", "restaurar"} /\ r = Sesion!Renovar(s, q)
      \/ q.op = "datos" /\ r = Sesion!Acepta(s, Nada)
      \/ q.op = "salir" /\ r = Sesion!Acepta(sale, Nada)
      \/ q.op = "clave" /\ r = Sesion!Acepta(clave, Nada)
  BY DEF Sesion!Servidor, SO, SE
<1>7. /\ q.op = "entrar" => q.op \in SEmisor
      /\ q.op \in {"refrescar", "restaurar"} => q.op \in SEmisor
      /\ q.op \in {"datos", "salir", "clave"} => q.op \notin SEmisor
  BY DEF SEmisor
<1> HIDE DEF sale, clave, Bien
<1>8. Bien(r)
  BY <1>1, <1>2, <1>3, <1>4, <1>5, <1>6, <1>7
<1> QED BY <1>8 DEF Bien

LEMMA SFielPrima ==
    ASSUME DOMAIN vista' = SDom, SBanco(srv'), dudosa' # TRUE => SFiel(vista', srv', ida', vuelta')
    PROVE  SesionFiel'
<1> DEFINE F == SFiel(vista', srv', ida', vuelta')
<1>1. SesionFiel' <=> DOMAIN vista' = SDom /\ SBanco(srv') /\ (dudosa' # TRUE => F)
  BY DEF SesionFiel, SFiel, SFichas, SOrden, SQuien, SVuela, Hay, Orden, Antes, Vivas, Sucesion, Fresca, Confirma,
     Dice, Ultima, Habla, Dicho, SCanal, SPar, SEmite, SBanco
<1> HIDE DEF F
<1>2. dudosa' # TRUE => F
  BY DEF F
<1> QED BY <1>1, <1>2

LEMMA SFielResponde ==
    ASSUME SesionInv, SesionFiel, NEW i, Sesion!Responde(i)
    PROVE  SesionFiel'
<1>1. /\ i \in DOMAIN ida /\ ida[i].op \in SO
      /\ vista' = vista
      /\ srv' \in {srv, Sesion!Servidor(srv, ida[i]).srv}
  BY DEF Sesion!Responde, Sesion!Atiende, SesionInv, Correo, SonPedidos, EsPedido
<1>2. SBanco(srv')
  <2>1. SBanco(srv)
    BY DEF SesionFiel
  <2> QED BY <1>1, <2>1, SServidor
<1>3. ASSUME dudosa' # TRUE PROVE SFiel(vista', srv', ida', vuelta')
  <2> DEFINE q == ida[1]
             r == Sesion!Servidor(srv, q)
             ok == r.ok
             d == r.datos
             m == [q |-> q, ok |-> ok, datos |-> d]
             n == srv.ultimo
  <2>1. /\ 1 \in DOMAIN ida /\ srv' = r.srv /\ ida' = Sin(ida, 1) /\ vista' = vista
        /\ vuelta' = Append(vuelta, m) /\ dudosa # TRUE /\ q.op \in SO
    BY <1>1, <1>3 DEF Sesion!Responde, Sesion!Atiende, Sesion!Sin, Sin
  <2>2. SFiel(vista, srv, ida, vuelta) /\ SBanco(srv)
    BY <2>1 DEF SesionFiel
  <2>3. /\ Vivas(ida, vuelta) /\ Sucesion(ida) /\ Sucesion(vuelta)
        /\ SFichas(vista, srv, ida, vuelta) /\ SOrden(ida, vuelta)
        /\ SQuien(vista, ida, vuelta)
        /\ q.id \in Nat /\ n \in Nat
    BY <2>1, <2>2 DEF SFiel, SFichas, Vivas, SBanco
  <2>4. \/ q.op \in SEmisor /\ ok = TRUE /\ d.par = n + 1 /\ srv'.ultimo = n + 1
        \/ ~(q.op \in SEmisor /\ ok = TRUE) /\ srv'.ultimo = n
    <3>1. r = Sesion!Servidor(srv, q)
      OBVIOUS
    <3> QED BY <2>1, <2>2, <3>1, SServidor
  <2>5. m.q = ida[1] /\ m.q.id \in Nat /\ m.datos = d /\ m = [q |-> ida[1], ok |-> ok, datos |-> d]
        /\ (SEmite(m) <=> q.op \in SEmisor /\ ok = TRUE)
    BY <2>3 DEF SEmite
  <2> HIDE DEF m, r, ok, d
  <2>6. (Habla(m, SCanal) <=> SEmite(m)) /\ Dicho(m, SCanal.dato) = d.par
        /\ SCanal.pide = {} /\ SCanal.relee = {}
    BY <2>5, SHabla
  <2> DEFINE P == SPar(vista, srv)
             P1 == SPar(vista, srv')
             Y == {n}
             Y1 == {srv'.ultimo}
             a1 == Sin(ida, 1)
             b1 == Append(vuelta, m)
  <2>7. Fresca(a1, b1, SCanal, P1, Y1)
    <3>1. Fresca(ida, vuelta, SCanal, P, Y)
      BY <2>3 DEF SFichas
    <3>2. CASE q.op \in SEmisor /\ ok = TRUE /\ d.par = n + 1 /\ srv'.ultimo = n + 1
      <4>1. Habla(m, SCanal) /\ Dicho(m, SCanal.dato) \in Y1 /\ m = [q |-> ida[1], ok |-> TRUE, datos |-> d]
        BY <2>5, <2>6, <3>2
      <4> HIDE DEF P1, Y1
      <4> QED BY <2>1, <2>3, <4>1, TomaDice
    <3>3. CASE ~(q.op \in SEmisor /\ ok = TRUE) /\ srv'.ultimo = n
      <4>1. ida[1].op \notin SCanal.pide /\ ~Habla(m, SCanal) /\ (P => P1) /\ Y \subseteq Y1
        BY <2>5, <2>6, <3>3 DEF SPar
      <4> HIDE DEF P, P1, Y, Y1
      <4> QED BY <2>1, <2>3, <2>5, <3>1, <4>1, TomaSigue
    <3> QED BY <2>4, <3>2, <3>3
  <2>8. Vivas(a1, b1)
    BY <2>1, <2>3, <2>5, VivasToma
  <2>9. Salen(a1, ida, {}) /\ Salen(b1, vuelta, {m})
    BY <2>1, <2>3, SalenDe
  <2>10. \A op : SVuela(a1, b1, op) <=> SVuela(ida, vuelta, op)
    BY <2>1, <2>3, <2>5, SVuelaToma
  <2>11. SOrden(a1, b1)
    BY <2>1, <2>3, <2>5, OrdenToma DEF SOrden
  <2>12. SEmite(m) => m.datos.par \in Nat \ {0}
    <3>1. n + 1 \in Nat \ {0}
      BY <2>3
    <3> QED BY <2>4, <2>5, <3>1
  <2> HIDE DEF a1, b1, P1, Y1
  <2>13. SQuien(vista, a1, b1)
    BY <2>3, <2>10 DEF SQuien
  <2>14. SFichas(vista, srv', a1, b1)
    <3>1. \A k \in DOMAIN a1 : a1[k].id \in Nat
      BY <2>3, <2>9 DEF SFichas, Salen
    <3>2. \A k \in DOMAIN b1 : b1[k].q.id \in Nat /\ (SEmite(b1[k]) => b1[k].datos.par \in Nat \ {0})
      BY <2>3, <2>5, <2>9, <2>12 DEF SFichas, Salen
    <3> QED BY <2>3, <2>7, <2>8, <3>1, <3>2 DEF SFichas, P1, Y1
  <2> QED BY <2>1, <2>11, <2>13, <2>14 DEF SFiel, a1, b1
<1> QED BY <1>1, <1>2, <1>3, SFielPrima DEF SesionFiel

LEMMA SesionFielDice == SesionFiel /\ EnReposo /\ dudosa # TRUE => Sesion!Mostrado
<1> SUFFICES ASSUME SFiel(vista, srv, <<>>, <<>>) PROVE Sesion!Mostrado
  BY DEF SesionFiel, EnReposo
<1> DEFINE P == SPar(vista, srv)
           Y == {srv.ultimo}
<1>1. Fresca(<<>>, <<>>, SCanal, P, Y)
  BY DEF SFiel, SFichas
<1> HIDE DEF P, Y
<1>2. P
  BY <1>1, FrescaEnReposo
<1>3. \A op : ~SVuela(<<>>, <<>>, op)
  BY SucesionUna DEF SVuela, Hay
<1> QED BY <1>2, <1>3 DEF SFiel, SQuien, P, SPar, Sesion!Mostrado, Sesion!Nadie

LEMMA SesionFielQuieta == SesionFiel /\ UNCHANGED vars => SesionFiel'
<1> SUFFICES ASSUME SesionFiel, UNCHANGED vars PROVE SesionFiel'
  OBVIOUS
<1>1. DOMAIN vista' = SDom /\ SBanco(srv') /\ (dudosa' # TRUE => SFiel(vista', srv', ida', vuelta'))
  BY DEF SesionFiel, vars
<1> QED BY <1>1, SFielPrima

LEMMA SesionFielEmpieza == Sesion!Init => SesionFiel
<1> SUFFICES ASSUME Sesion!Init PROVE SesionFiel
  OBVIOUS
<1>1. /\ ida = <<>> /\ vuelta = <<>> /\ DOMAIN vista = SDom /\ SBanco(srv)
      /\ vista.acceso = 0 /\ vista.refresco = 0 /\ vista.timer # TRUE /\ vista.usuario # TRUE
  BY DEF Sesion!Init, Sesion!PeticionesInit, Sesion!VistaInicial, Sesion!Cargada, SDom, SBanco, Sesion!Nadie
<1> DEFINE p == <<>>
<1>2. p = <<>> /\ vista.refresco \in Nat
  BY <1>1
<1> HIDE DEF p
<1>3. SFiel(vista, srv, p, <<>>)
  BY <1>1, <1>2, SEstrena
<1> QED BY <1>1, <1>2, <1>3 DEF SesionFiel

\* What an answer does to who is there: it brings tokens, throws them away, or does neither.
SRecados(p) == Vivas(p, <<>>) /\ \A k \in DOMAIN p : p[k].op \in SE /\ p[k].id \in Nat
STrae(v, m, w, p) ==
    /\ SEmite(m) /\ SRecados(p)
    /\ w.acceso = m.datos.par /\ w.refresco = w.acceso
    /\ w.usuario = TRUE \/ (m.q.op = "refrescar" /\ w.usuario = v.usuario)
SDeja(v, m, w, p) ==
    /\ ~SEmite(m) /\ m.q.op # "restaurar" /\ p = <<>>
    /\ w.acceso = v.acceso /\ w.refresco = v.refresco /\ w.timer = v.timer /\ w.usuario = v.usuario
    /\ (w.cambia = TRUE <=> v.cambia = TRUE) \/ v.acceso # 0
STira(v, m, w, p) ==
    /\ ~SEmite(m) /\ p = <<>>
    /\ w.acceso = 0 /\ w.refresco = 0 /\ w.timer # TRUE
    /\ \/ w.usuario # TRUE /\ m.q.op \in {"salir", "restaurar", "refrescar"}
       \/ w.usuario = v.usuario /\ w.cambia = v.cambia /\ (v.usuario # TRUE \/ v.cambia = TRUE)
SRenovar(v, m, w, p) ==
    /\ m.q.op \in SE /\ m.ok # TRUE
    /\ p = <<Pedido("refrescar", v.refresco, Nada)>>
    /\ v.refresco # 0 /\ v.renovando # TRUE /\ ~(EnVuelo({"salir"}) > IF m.q.op = "salir" THEN 1 ELSE 0)
    /\ w.acceso = v.acceso /\ w.refresco = v.refresco /\ w.usuario = v.usuario /\ w.cambia = v.cambia
SEfecto(v, m, w, p) ==
    /\ DOMAIN w = SDom
    /\ STrae(v, m, w, p) \/ SDeja(v, m, w, p) \/ STira(v, m, w, p) \/ SRenovar(v, m, w, p)

LEMMA SFallan ==
    ASSUME NEW v, DOMAIN v = SDom, NEW qs, NEW w, w = Sesion!Fallan(Sesion!SinTokens(v), qs)
    PROVE  /\ DOMAIN w = SDom /\ w.acceso = 0 /\ w.refresco = 0 /\ w.timer # TRUE
           /\ \/ w.usuario = v.usuario /\ w.cambia = v.cambia
              \/ w.usuario # TRUE /\ \E k \in DOMAIN qs : qs[k].op = "salir"
<1> DEFINE t == Sesion!SinTokens(v)
           f == [Sesion!Fuera(t) EXCEPT !.cambia = FALSE]
           salen == \E k \in DOMAIN qs : qs[k].op \in {"salir"}
           u == IF salen THEN f ELSE t
<1>1. /\ DOMAIN t = SDom /\ t.acceso = 0 /\ t.refresco = 0 /\ t.timer = FALSE
      /\ t.usuario = v.usuario /\ t.cambia = v.cambia
  BY DEF Sesion!SinTokens, Sesion!Nadie, SDom
<1> HIDE DEF t
<1>2. DOMAIN f = SDom /\ f.acceso = 0 /\ f.refresco = 0 /\ f.timer = FALSE /\ f.usuario = FALSE
  BY <1>1 DEF Sesion!Fuera, Sesion!SinTokens, Sesion!Nadie, SDom
<1>3. w = u \/ w = [u EXCEPT !.ingresando = FALSE, !.error = TRUE]
  BY DEF Sesion!Fallan, t
<1>4. u = t \/ (u = f /\ \E k \in DOMAIN qs : qs[k].op = "salir")
  OBVIOUS
<1> HIDE DEF f, u
<1>5. /\ DOMAIN u = SDom /\ u.acceso = 0 /\ u.refresco = 0 /\ u.timer = FALSE
      /\ \/ u.usuario = v.usuario /\ u.cambia = v.cambia
         \/ u.usuario = FALSE /\ \E k \in DOMAIN qs : qs[k].op = "salir"
  BY <1>1, <1>2, <1>4
<1>6. DOMAIN w = SDom /\ w.acceso = u.acceso /\ w.refresco = u.refresco /\ w.timer = u.timer
      /\ w.usuario = u.usuario /\ w.cambia = u.cambia
  BY <1>3, <1>5 DEF SDom
<1> HIDE DEF salen
<1> QED BY <1>5, <1>6

\* Those that waited are asked for again in the name of who is there now.
LEMMA SReintentar ==
    ASSUME NEW v, Aguardan(v.esperan), v.acceso \in Nat, NEW p, p = Sesion!Reintentar(v)
    PROVE  SRecados(p)
<1> DEFINE s == v.esperan
<1>1. Sucesion(s) /\ Len(s) \in Nat /\ DOMAIN s = 1 .. Len(s)
      /\ \A k \in DOMAIN s : s[k].op \in SE
  BY SucesionLarga DEF Aguardan, SonPedidos, EsPedido
<1>2. p = [k \in DOMAIN s |-> Tras(Pedido(s[k].op, v.acceso, s[k].datos), "reintento")]
  BY DEF Sesion!Reintentar, Sesion!Tras, Tras, Sesion!Con, Sesion!Pedido, Pedido
<1> HIDE DEF s
<1>3. ASSUME NEW k \in DOMAIN p PROVE p[k].op \in SE /\ p[k].viva = TRUE /\ p[k].id \in Nat
  <2> DEFINE q == Tras(Pedido(s[k].op, v.acceso, s[k].datos), "reintento")
  <2>1. p[k] = q /\ k \in DOMAIN s
    BY <1>2
  <2>2. q.op = s[k].op /\ q.viva = TRUE /\ q.id = v.acceso
    BY DEF Tras, Pedido
  <2> QED BY <1>1, <2>1, <2>2
<1>4. DOMAIN p = DOMAIN s /\ p = [k \in 1 .. Len(s) |-> p[k]]
  BY <1>1, <1>2
<1>5. Sucesion(p)
  BY <1>1, <1>4, SucesionDe
<1> QED BY <1>3, <1>5, VivasNada DEF SRecados, Vivas

\* Of a page, what says who is there.
SIgual(v, t) ==
    /\ DOMAIN t = SDom /\ t.usuario = v.usuario /\ t.cambia = v.cambia /\ t.timer = v.timer
    /\ t.acceso = v.acceso /\ t.refresco = v.refresco

SEchado(v, r, qs) ==
    /\ DOMAIN r.vista = SDom /\ r.pide = <<>>
    /\ r.vista.acceso = 0 /\ r.vista.refresco = 0 /\ r.vista.timer # TRUE
    /\ v.usuario # TRUE \/ v.cambia = TRUE
    /\ \/ r.vista.usuario = v.usuario /\ r.vista.cambia = v.cambia
       \/ r.vista.usuario # TRUE /\ \E k \in DOMAIN qs : qs[k].op = "salir"

LEMMA SExpulsa ==
    ASSUME NEW v, NEW t, SIgual(v, t), NEW qs, NEW r, r = Sesion!Expulsar(t, qs), r.va # TRUE
    PROVE  SEchado(v, r, qs)
<1> DEFINE w == Sesion!Fallan(Sesion!SinTokens(t), qs)
<1>1. Sesion!EnLogin(t) <=> v.usuario # TRUE \/ v.cambia = TRUE
  BY DEF Sesion!EnLogin, SIgual
<1>2. /\ DOMAIN w = SDom /\ w.acceso = 0 /\ w.refresco = 0 /\ w.timer # TRUE
      /\ \/ w.usuario = t.usuario /\ w.cambia = t.cambia
         \/ w.usuario # TRUE /\ \E k \in DOMAIN qs : qs[k].op = "salir"
  <2>1. DOMAIN t = SDom
    BY DEF SIgual
  <2> QED BY <2>1, SFallan
<1>3. r = IF Sesion!EnLogin(t) THEN Sesion!Queda(w)
          ELSE Sesion!LlevaA(Sesion!Arrancar(Sesion!SinTokens(t)), Sesion!Restaurar(Sesion!SinTokens(t)))
  BY DEF Sesion!Expulsar
<1> HIDE DEF w
<1>4. \A x, y : Sesion!LlevaA(x, y).va = TRUE
  BY DEF Sesion!LlevaA, Sesion!Pide, Sesion!Queda
<1>5. Sesion!EnLogin(t) /\ r = Sesion!Queda(w)
  BY <1>3, <1>4
<1>6. r.vista = w /\ r.pide = <<>>
  BY <1>5 DEF Sesion!Queda
<1> QED BY <1>1, <1>2, <1>5, <1>6 DEF SIgual, SEchado

LEMMA SHace ==
    ASSUME DOMAIN vista = SDom, Aguardan(vista.esperan), NEW m, m.q.viva = TRUE, m.q.op \in SO,
           SEmite(m) => m.datos.par \in Nat,
           NEW r, r = Sesion!Recibir(m), r.va # TRUE, r.duda # TRUE
    PROVE  SEfecto(vista, m, r.vista, r.pide)
<1> DEFINE v == [vista EXCEPT !.renovando = FALSE, !.esperan = <<>>]
           o == [vista EXCEPT !.iniciando = FALSE]
           x == Sesion!ConPar(v, m.datos.par)
           y == [x EXCEPT !.esperan = vista.esperan]
           z == [Sesion!ConPar(o, m.datos.par) EXCEPT !.usuario = TRUE]
<1>1. SIgual(vista, v) /\ SIgual(vista, o) /\ SIgual(vista, vista)
  BY DEF SDom, SIgual
<1>2. /\ DOMAIN x = SDom /\ x.acceso = m.datos.par /\ x.refresco = m.datos.par /\ x.usuario = vista.usuario
      /\ y.esperan = vista.esperan /\ y.acceso = m.datos.par
      /\ DOMAIN z = SDom /\ z.acceso = m.datos.par /\ z.refresco = m.datos.par /\ z.usuario = TRUE
  BY DEF Sesion!ConPar, SDom
<1>5. CASE m.q.op = "refrescar"
  <2>1. r = Sesion!Renovado(m)
    BY <1>5 DEF Sesion!Recibir
  <2>2. CASE m.ok
    <3>1. r.vista = x /\ r.pide = Sesion!Reintentar(y) /\ SEmite(m)
      BY <1>5, <2>1, <2>2 DEF Sesion!Renovado, Sesion!Pide, Sesion!Queda, SEmite, SEmisor
    <3> HIDE DEF x, y
    <3>2. SRecados(r.pide)
      BY <1>2, <3>1, SReintentar
    <3> QED BY <1>2, <1>5, <3>1, <3>2 DEF SEfecto, STrae
  <2>3. CASE ~m.ok /\ vista.esperan = <<>>
    <3>1. r.vista = v /\ r.pide = <<>> /\ ~SEmite(m)
      BY <2>1, <2>3 DEF Sesion!Renovado, Sesion!Queda, SEmite
    <3> HIDE DEF v
    <3> QED BY <1>1, <1>5, <3>1 DEF SEfecto, SDeja, SIgual
  <2>4. CASE ~m.ok /\ vista.esperan # <<>>
    <3>1. r = Sesion!Expulsar(v, vista.esperan) /\ ~SEmite(m)
      BY <2>1, <2>4 DEF Sesion!Renovado, SEmite
    <3> HIDE DEF v
    <3>2. /\ DOMAIN r.vista = SDom /\ r.pide = <<>>
          /\ r.vista.acceso = 0 /\ r.vista.refresco = 0 /\ r.vista.timer # TRUE
          /\ vista.usuario # TRUE \/ vista.cambia = TRUE
          /\ r.vista.usuario # TRUE \/ (r.vista.usuario = vista.usuario /\ r.vista.cambia = vista.cambia)
      <4> DEFINE qs == vista.esperan
      <4>1. r = Sesion!Expulsar(v, qs)
        BY <3>1
      <4> HIDE DEF qs
      <4>2. SEchado(vista, r, qs)
        BY <1>1, <4>1, SExpulsa
      <4> QED BY <4>2 DEF SEchado
    <3> QED BY <1>5, <3>1, <3>2 DEF SEfecto, STira
  <2> QED BY <2>2, <2>3, <2>4
<1>6. CASE m.q.op = "restaurar"
  <2>1. r = Sesion!Restaurado(m)
    BY <1>6 DEF Sesion!Recibir
  <2>2. CASE m.ok
    <3>1. r.vista = z /\ r.pide = <<>> /\ SEmite(m)
      BY <1>6, <2>1, <2>2 DEF Sesion!Restaurado, Sesion!Queda, SEmite, SEmisor
    <3>2. SRecados(<<>>)
      BY VivasNada, SucesionUna DEF SRecados
    <3> HIDE DEF z
    <3> QED BY <1>2, <3>1, <3>2 DEF SEfecto, STrae
  <2>3. CASE ~m.ok
    <3>1. r.vista = Sesion!Fuera(o) /\ r.pide = <<>> /\ ~SEmite(m)
      BY <2>1, <2>3 DEF Sesion!Restaurado, Sesion!Queda, SEmite
    <3> HIDE DEF o
    <3>2. /\ DOMAIN r.vista = SDom /\ r.vista.acceso = 0 /\ r.vista.refresco = 0 /\ r.vista.timer # TRUE
          /\ r.vista.usuario # TRUE
      BY <1>1, <3>1 DEF Sesion!Fuera, Sesion!SinTokens, Sesion!Nadie, SDom, SIgual
    <3> QED BY <1>6, <3>1, <3>2 DEF SEfecto, STira
  <2> QED BY <2>2, <2>3
<1>7. CASE m.q.op \in SE
  <2> DEFINE Acaba(ok, datos) == Sesion!Fin(vista, m.q, ok, datos)
  <2>1. m.q.op \notin {"refrescar", "restaurar"}
    BY <1>7 DEF SE
  <2>2. CASE ~m.ok /\ m.datos # Nada
    <3>1. r = Sesion!Caduca(vista, m.q) /\ ~SEmite(m)
      BY <2>1, <2>2 DEF Sesion!Recibir, SEmite
    <3>2. CASE m.q.id = Sesion!Nadie
      <4>1. r.vista = Acaba(FALSE, Nada) /\ r.pide = <<>>
        BY <3>1, <3>2 DEF Sesion!Caduca, Sesion!Queda
      <4>2. SEfecto(vista, m, r.vista, r.pide)
        BY <1>7, <2>1, <3>1, <4>1 DEF SE, SEfecto, SDeja, STira, Sesion!Fin, Sesion!Fuera, Sesion!SinTokens, Sesion!Nadie, SDom
      <4> QED BY <4>2
    <3>3. ASSUME r = Sesion!Expulsar(vista, <<m.q>>) PROVE SEfecto(vista, m, r.vista, r.pide)
      <4> DEFINE qs == <<m.q>>
      <4>1. \A k \in DOMAIN qs : qs[k] = m.q
        BY SucesionUna
      <4>2. r = Sesion!Expulsar(vista, qs)
        BY <3>3
      <4> HIDE DEF qs
      <4>3. /\ DOMAIN r.vista = SDom /\ r.pide = <<>>
            /\ r.vista.acceso = 0 /\ r.vista.refresco = 0 /\ r.vista.timer # TRUE
            /\ vista.usuario # TRUE \/ vista.cambia = TRUE
            /\ \/ r.vista.usuario = vista.usuario /\ r.vista.cambia = vista.cambia
               \/ r.vista.usuario # TRUE /\ \E k \in DOMAIN qs : qs[k].op = "salir"
        <5>1. SEchado(vista, r, qs)
          BY <1>1, <4>2, SExpulsa
        <5> QED BY <5>1 DEF SEchado
      <4>4. (\E k \in DOMAIN qs : qs[k].op = "salir") => m.q.op = "salir"
        BY <4>1
      <4> QED BY <3>1, <4>3, <4>4 DEF SEfecto, STira
    <3>4. CASE m.q.id # Sesion!Nadie /\ m.q.tras # "reintento" /\ vista.renovando
      <4>1. r.vista = [vista EXCEPT !.esperan = Append(@, m.q)] /\ r.pide = <<>>
        BY <3>1, <3>4 DEF Sesion!Caduca, Sesion!Queda
      <4> QED BY <2>1, <3>1, <4>1 DEF SEfecto, SDeja, SDom
    <3>5. CASE m.q.id # Sesion!Nadie /\ m.q.tras # "reintento" /\ ~vista.renovando /\ vista.refresco # Sesion!Nadie
      <4>1. /\ r.vista = [vista EXCEPT !.renovando = TRUE, !.esperan = <<m.q>>]
            /\ r.pide = <<Pedido("refrescar", vista.refresco, Nada)>>
            /\ r.duda = (EnVuelo({"salir"}) > IF m.q.op = "salir" THEN 1 ELSE 0)
        BY <3>1, <3>5, SCuenta DEF Sesion!Caduca, Sesion!Pide, Sesion!Queda, Sesion!Pedido, Pedido, Sesion!Saliendo
      <4>2. ~(EnVuelo({"salir"}) > IF m.q.op = "salir" THEN 1 ELSE 0)
        BY <4>1
      <4> QED BY <1>7, <2>2, <3>5, <4>1, <4>2 DEF SEfecto, SRenovar, SDom, Sesion!Nadie
    <3>6. \/ m.q.id = Sesion!Nadie
          \/ r = Sesion!Expulsar(vista, <<m.q>>)
          \/ m.q.id # Sesion!Nadie /\ m.q.tras # "reintento" /\ vista.renovando
          \/ m.q.id # Sesion!Nadie /\ m.q.tras # "reintento" /\ ~vista.renovando /\ vista.refresco # Sesion!Nadie
      BY <3>1 DEF Sesion!Caduca
    <3> QED BY <3>2, <3>3, <3>4, <3>5, <3>6
  <2>3. CASE m.ok \/ m.datos = Nada
    <3>1. /\ r.vista = Acaba(m.ok, m.datos) /\ r.pide = <<>>
          /\ r.duda = (m.q.op = "clave" /\ m.ok /\ vista.acceso = Sesion!Nadie)
      BY <2>1, <2>3 DEF Sesion!Recibir, Sesion!Queda, Sesion!SinNada
    <3>2. SRecados(<<>>)
      BY VivasNada, SucesionUna DEF SRecados
    <3> DEFINE w == r.vista
    <3>8. ASSUME m.q.op = "entrar", m.ok
          PROVE  DOMAIN w = SDom /\ w.acceso = m.datos.par /\ w.refresco = m.datos.par /\ w.usuario = TRUE
      <4> DEFINE c == Sesion!ConPar(vista, m.datos.par)
      <4>1. DOMAIN c = SDom /\ c.acceso = m.datos.par /\ c.refresco = m.datos.par
        BY DEF Sesion!ConPar, SDom
      <4>2. w = [c EXCEPT !.usuario = TRUE, !.cambia = m.datos.cambia, !.ingresando = FALSE]
        BY <3>1, <3>8 DEF Sesion!Fin
      <4> HIDE DEF c, w
      <4> QED BY <4>1, <4>2 DEF SDom
    <3>3. CASE m.q.op = "entrar" /\ m.ok
      <4>1. SEmite(m)
        BY <3>3 DEF SEmite, SEmisor
      <4> HIDE DEF w
      <4>2. w.acceso = m.datos.par /\ w.refresco = w.acceso /\ w.usuario = TRUE /\ DOMAIN w = SDom
        BY <3>3, <3>8
      <4> QED BY <3>1, <3>2, <4>1, <4>2 DEF SEfecto, STrae, w
    <3>9. ASSUME m.q.op = "clave"
          PROVE  /\ DOMAIN w = SDom /\ w.acceso = vista.acceso /\ w.refresco = vista.refresco /\ w.timer = vista.timer
                 /\ w.usuario = vista.usuario /\ w.cambia = (vista.cambia /\ ~m.ok)
      BY <3>1, <3>9 DEF Sesion!Fin, SDom
    <3>5. CASE m.q.op = "clave"
      <4>1. ~SEmite(m)
        BY <3>5 DEF SEmite, SEmisor
      <4>2. vista.acceso # 0 \/ m.ok # TRUE
        BY <3>1, <3>5 DEF Sesion!Nadie
      <4>3. m.ok # TRUE => (w.cambia = TRUE <=> vista.cambia = TRUE)
        BY <3>5, <3>9
      <4> HIDE DEF w
      <4> QED BY <3>1, <3>5, <3>9, <4>1, <4>2, <4>3 DEF SEfecto, SDeja, w
    <3> USE DEF Sesion!Fin, Sesion!Fuera, Sesion!SinTokens, Sesion!ConPar, Sesion!Nadie, SDom, SEfecto, SEmite, SEmisor
    <3>4. CASE m.q.op = "entrar" /\ ~m.ok
      BY <3>1, <3>4 DEF SDeja
    <3>6. CASE m.q.op = "salir"
      BY <3>1, <3>6 DEF STira
    <3>7. CASE m.q.op = "datos"
      BY <3>1, <3>7 DEF SDeja
    <3> QED BY <1>7, <3>3, <3>4, <3>5, <3>6, <3>7 DEF SE
  <2> QED BY <2>2, <2>3
<1> QED BY <1>5, <1>6, <1>7 DEF SO

\* A page loaded with no token left.
LEMMA SEchada ==
    ASSUME NEW w, w = Sesion!Cargada(FALSE, 0) \/ w = Sesion!Fuera(Sesion!Cargada(TRUE, 0))
    PROVE  w.usuario # TRUE /\ w.timer # TRUE /\ w.acceso = 0 /\ w.refresco = 0
<1> DEFINE Echada(x) == x.usuario # TRUE /\ x.timer # TRUE /\ x.acceso = 0 /\ x.refresco = 0
<1>1. Echada(Sesion!Cargada(FALSE, 0))
  BY DEF Sesion!Cargada, Sesion!Nadie
<1>2. Echada(Sesion!Fuera(Sesion!Cargada(TRUE, 0)))
  <2> DEFINE c == Sesion!Cargada(TRUE, 0)
  <2>1. {"usuario", "acceso", "refresco", "timer"} \subseteq DOMAIN c
    BY DEF Sesion!Cargada
  <2> HIDE DEF c
  <2>2. Echada(Sesion!Fuera(c))
    BY <2>1 DEF Sesion!Fuera, Sesion!SinTokens, Sesion!Nadie
  <2> QED BY <2>2 DEF c
<1> HIDE DEF Echada
<1>3. Echada(w)
  BY <1>1, <1>2
<1> QED BY <1>3 DEF Echada

LEMMA SNoRenueva ==
    ASSUME SesionInv, Vivas(ida, vuelta), vista.renovando # TRUE
    PROVE  /\ \A k \in DOMAIN ida : ida[k].op \notin SR
           /\ \A k \in DOMAIN vuelta : vuelta[k].q.op \notin SR
<1>1. Correo(SO) /\ Cabe(EnCurso(SR, {}), vista.renovando)
  BY DEF SesionInv
<1>2. EnVuelo(SR) <= EnCurso(SR, {}) /\ EnVuelo(SR) \in Nat /\ EnCurso(SR, {}) \in Nat
  BY <1>1, CursoNatural
<1>3. EnCurso(SR, {}) = 0
  BY <1>1 DEF Cabe
<1>4. EnVuelo(SR) = 0
  BY <1>2, <1>3
<1> QED BY <1>4, NadieVuela

LEMMA SLibre ==
    ASSUME SesionInv, Vivas(ida, vuelta), 1 \in DOMAIN vuelta, vista.renovando # TRUE, vuelta[1].q.op \in SE,
           ~(EnVuelo({"salir"}) > IF vuelta[1].q.op = "salir" THEN 1 ELSE 0)
    PROVE  /\ \A k \in DOMAIN ida : ida[k].op \notin {"salir", "refrescar"}
           /\ \A k \in DOMAIN Sin(vuelta, 1) : Sin(vuelta, 1)[k].q.op \notin {"salir", "refrescar"}
<1> DEFINE b1 == Sin(vuelta, 1)
           K == {"salir"}
<1>1. \A k \in DOMAIN b1 : \E j \in DOMAIN vuelta : j # 1 /\ b1[k] = vuelta[j]
  <2>1. /\ Len(vuelta) \in Nat \ {0} /\ DOMAIN vuelta = 1 .. Len(vuelta) /\ DOMAIN b1 = 1 .. Len(vuelta) - 1
        /\ \A k \in 1 .. Len(vuelta) - 1 : b1[k] = vuelta[k + 1]
    BY PrimeroSale DEF Vivas
  <2> HIDE DEF b1
  <2>2. ASSUME NEW k \in DOMAIN b1 PROVE k + 1 \in DOMAIN vuelta /\ k + 1 # 1 /\ b1[k] = vuelta[k + 1]
    BY <2>1
  <2> QED BY <2>2
<1> HIDE DEF b1
<1>3. /\ \A k \in DOMAIN ida : ida[k].op \notin SR
      /\ \A k \in DOMAIN vuelta : vuelta[k].q.op \notin SR
  BY SNoRenueva
<1>4. /\ \A k \in DOMAIN ida : ida[k].op \notin K
      /\ \A k \in DOMAIN vuelta : k # 1 => vuelta[k].q.op \notin K
  <2>1. CASE vuelta[1].q.op = "salir"
    <3>1. vuelta[1].q.op \in K /\ ~(EnVuelo(K) > 1)
      BY <2>1
    <3> HIDE DEF K
    <3> QED BY <3>1, SoloEsa
  <2>2. CASE vuelta[1].q.op # "salir"
    <3>1. ~(EnVuelo(K) > 0)
      BY <2>2
    <3> HIDE DEF K
    <3> QED BY <3>1, NadieVuela
  <2> QED BY <2>1, <2>2
<1>5. ASSUME NEW k \in DOMAIN ida PROVE ida[k].op \notin {"salir", "refrescar"}
  BY <1>3, <1>4 DEF SR
<1>6. ASSUME NEW k \in DOMAIN b1 PROVE b1[k].q.op \notin {"salir", "refrescar"}
  BY <1>1, <1>3, <1>4 DEF SR
<1> QED BY <1>5, <1>6 DEF b1

LEMMA SAplica ==
    ASSUME SesionInv, SFiel(vista, srv, ida, vuelta), 1 \in DOMAIN vuelta, vuelta[1].q.op \in SO,
           NEW w, NEW p, SEfecto(vista, vuelta[1], w, p)
    PROVE  SFiel(w, srv, ida \o p, Sin(vuelta, 1))
<1> DEFINE m == vuelta[1]
           a1 == ida \o p
           b1 == Sin(vuelta, 1)
<1>1. /\ Vivas(ida, vuelta) /\ Sucesion(ida) /\ Sucesion(vuelta)
      /\ SFichas(vista, srv, ida, vuelta) /\ SOrden(ida, vuelta) /\ SQuien(vista, ida, vuelta)
      /\ m.q.id \in Nat /\ (SEmite(m) => m.datos.par \in Nat \ {0})
      /\ vista.acceso \in Nat /\ vista.refresco \in Nat
  BY DEF SFiel, SFichas, Vivas
<1>2. /\ SOrden(ida, b1)
      /\ \A k \in DOMAIN ida : ~Antes(m.q, ida[k], {"salir", "refrescar"}, {"refrescar"}, FALSE)
      /\ \A k \in DOMAIN b1 : ~Antes(m.q, b1[k].q, {"salir", "refrescar"}, {"refrescar"}, FALSE)
      /\ \A k \in DOMAIN ida : ~Antes(m.q, ida[k], SO, {"restaurar"}, FALSE)
      /\ \A k \in DOMAIN b1 : ~Antes(m.q, b1[k].q, SO, {"restaurar"}, FALSE)
  BY <1>1, OrdenLlega DEF SOrden
<1>3. \A k \in DOMAIN vuelta : k = 1 \/ \E j \in DOMAIN b1 : b1[j] = vuelta[k]
  <2>1. /\ Len(vuelta) \in Nat \ {0} /\ DOMAIN vuelta = 1 .. Len(vuelta) /\ DOMAIN b1 = 1 .. Len(vuelta) - 1
        /\ \A k \in 1 .. Len(vuelta) - 1 : b1[k] = vuelta[k + 1]
    BY <1>1, PrimeroSale
  <2> HIDE DEF b1
  <2>2. ASSUME NEW k \in DOMAIN vuelta, k # 1 PROVE k - 1 \in DOMAIN b1 /\ b1[k - 1] = vuelta[k]
    BY <2>1, <2>2
  <2> QED BY <2>2
<1>4. /\ Salen(b1, vuelta, {})
      /\ \A op : SVuela(ida, b1, op) => SVuela(ida, vuelta, op)
  BY <1>1, SalenDe, SVuelaLlega
<1> HIDE DEF b1
<1>5. /\ m.q.op \in {"salir", "refrescar"} => ~SVuela(ida, b1, "refrescar")
      /\ ~SVuela(ida, b1, "restaurar")
  BY <1>2 DEF Antes, SVuela, Hay
<1>6. /\ m.q.op # "restaurar" => ~SVuela(ida, vuelta, "restaurar")
      /\ m.q.op = "restaurar" => SVuela(ida, vuelta, "restaurar")
      /\ m.q.op = "refrescar" => SVuela(ida, vuelta, "refrescar")
  BY <1>3, <1>5 DEF SVuela, Hay
<1>7. /\ Vivas(p, <<>>) /\ Sucesion(p) /\ \A k \in DOMAIN p : p[k].id \in Nat
      /\ ~Hay(p, {"restaurar"})
      /\ Hay(p, {"refrescar"}) => SRenovar(vista, m, w, p)
  <2>1. CASE SRenovar(vista, m, w, p)
    <3> DEFINE q == Pedido("refrescar", vista.refresco, Nada)
    <3>1. p = <<q>> /\ q.op = "refrescar" /\ q.viva = TRUE /\ q.id \in Nat
      BY <1>1, <2>1 DEF SRenovar, Pedido
    <3> HIDE DEF q
    <3>2. Vivas(<<q>>, <<>>) /\ Sucesion(<<q>>) /\ \A N : Hay(<<q>>, N) <=> q.op \in N
      BY <3>1, PideUna
    <3>3. DOMAIN p = {1} /\ p[1] = q
      BY <3>1, SucesionUna
    <3> QED BY <2>1, <3>1, <3>2, <3>3
  <2>2. CASE p = <<>>
    <3>1. \A N : Sucesion(<<>>) /\ Vivas(<<>>, <<>>) /\ ~Hay(<<>>, N)
      BY PideNada
    <3> QED BY <2>2, <3>1, SucesionUna
  <2>3. CASE SRecados(p)
    <3>1. "refrescar" \notin SE /\ "restaurar" \notin SE
      BY DEF SE
    <3> QED BY <2>3, <3>1 DEF SRecados, Vivas, Hay
  <2> QED BY <2>1, <2>2, <2>3 DEF SEfecto, STrae, SDeja, STira
<1>8. Vivas(a1, b1) /\ Vivas(ida, b1)
  <2>1. Vivas(a1, b1)
    BY <1>1, <1>7, VivasLlega DEF b1
  <2> HIDE DEF a1
  <2> QED BY <1>1, <2>1 DEF Vivas
<1>9. SOrden(a1, b1)
  <2>1. CASE SRenovar(vista, m, w, p)
    <3> DEFINE q == Pedido("refrescar", vista.refresco, Nada)
    <3>1. p = <<q>> /\ q.op = "refrescar"
      BY <2>1 DEF SRenovar, Pedido
    <3> HIDE DEF q
    <3>2. /\ \A k \in DOMAIN ida : ida[k].op \notin {"salir", "refrescar"}
          /\ \A k \in DOMAIN b1 : b1[k].q.op \notin {"salir", "refrescar"}
      BY <1>1, <2>1, SLibre DEF SRenovar, b1
    <3>3. \E x : /\ p = <<x>> /\ x.op = "refrescar"
                 /\ \A k \in DOMAIN ida : ida[k].op \notin {"salir", "refrescar"}
                 /\ \A k \in DOMAIN b1 : b1[k].q.op \notin {"salir", "refrescar"}
      BY <3>1, <3>2
    <3> QED BY <1>2, <1>7, <1>8, <3>3, SOrdenPide
  <2>2. CASE ~Hay(p, {"refrescar"})
    <3>1. \A k \in DOMAIN p : p[k].op \notin {"refrescar", "restaurar"}
      BY <1>7, <2>2 DEF Hay
    <3> QED BY <1>2, <1>7, <1>8, <3>1, SOrdenPide
  <2> QED BY <1>7, <2>1, <2>2
<1> DEFINE P == SPar(vista, srv)
           P1 == SPar(w, srv)
           Y == {srv.ultimo}
<1>10. Fresca(a1, b1, SCanal, P1, Y)
  <2>1. Fresca(ida, vuelta, SCanal, P, Y)
    BY <1>1 DEF SFichas
  <2>2. (Habla(m, SCanal) <=> SEmite(m)) /\ Dicho(m, SCanal.dato) = m.datos.par
        /\ SCanal.pide = {} /\ SCanal.relee = {}
    BY <1>1, SHabla
  <2>3. Habla(m, SCanal) /\ m.ok = TRUE /\ Dicho(m, SCanal.dato) \in Y => P1
    <3>1. SEmite(m) /\ m.datos.par = srv.ultimo => P1
      BY DEF SEfecto, STrae, SDeja, STira, SRenovar, SPar, SEmite
    <3> HIDE DEF P1, m
    <3> QED BY <2>2, <3>1
  <2>4. ~Habla(m, SCanal) /\ P => P1
    <3>1. ~SEmite(m) /\ P => P1
      BY DEF SEfecto, STrae, SDeja, STira, SRenovar, SPar
    <3> HIDE DEF P, P1, m
    <3> QED BY <2>2, <3>1
  <2>5. m.ok = TRUE => m.q.op \notin SCanal.relee
    BY <2>2
  <2> HIDE DEF P, P1, Y
  <2> QED BY <1>1, <1>7, <2>1, <2>3, <2>4, <2>5, FrescaRecibe DEF b1
<1>11. \A op : SVuela(a1, b1, op) <=> SVuela(ida, b1, op) \/ Hay(p, {op})
  BY <1>7, <1>8, SVuelaPide
<1>12. \A k \in DOMAIN a1 : a1[k].id \in Nat
  <2>1. SonJuntos(a1, ida, p)
    BY <1>1, <1>7, JuntosDeTodo
  <2> HIDE DEF a1
  <2> QED BY <1>1, <1>7, <2>1 DEF SonJuntos, SFichas
<1>13. \A k \in DOMAIN b1 : b1[k].q.id \in Nat /\ (SEmite(b1[k]) => b1[k].datos.par \in Nat \ {0})
  BY <1>1, <1>4 DEF SFichas, Salen
<1> HIDE DEF a1, m
<1>14. w.acceso \in Nat /\ w.refresco \in Nat
  <2>1. CASE STrae(vista, m, w, p)
    <3>1. m.datos.par \in Nat /\ w.acceso = m.datos.par /\ w.refresco = w.acceso
      BY <1>1, <2>1 DEF STrae, m
    <3> QED BY <3>1
  <2>2. CASE w.acceso = 0 /\ w.refresco = 0
    BY <2>2
  <2>3. CASE w.acceso = vista.acceso /\ w.refresco = vista.refresco
    BY <1>1, <2>3
  <2> QED BY <2>1, <2>2, <2>3 DEF SEfecto, SDeja, STira, SRenovar, m
<1>15. SFichas(w, srv, a1, b1)
  BY <1>8, <1>10, <1>12, <1>13, <1>14 DEF SFichas
<1>16. /\ SVuela(a1, b1, "refrescar") => SVuela(ida, b1, "refrescar") \/ SRenovar(vista, m, w, p)
       /\ SVuela(ida, b1, "refrescar") => SVuela(ida, vuelta, "refrescar")
       /\ ~SVuela(a1, b1, "restaurar")
  BY <1>4, <1>5, <1>7, <1>11
<1>17. /\ vista.usuario # TRUE => vista.acceso = 0 /\ vista.refresco = 0 /\ vista.timer # TRUE
       /\ vista.usuario = TRUE /\ vista.cambia # TRUE => vista.acceso # 0 \/ SVuela(ida, vuelta, "restaurar")
       /\ vista.acceso # 0 => vista.refresco = vista.acceso
       /\ SVuela(ida, vuelta, "refrescar") => vista.usuario = TRUE
       /\ SVuela(ida, vuelta, "restaurar") => ~SVuela(ida, vuelta, "refrescar")
  BY <1>1 DEF SQuien
<1>18. SQuien(w, a1, b1)
  <2>1. CASE STrae(vista, m, w, p)
    <3>1. ~SRenovar(vista, m, w, p) /\ w.acceso # 0 /\ w.refresco = w.acceso
      BY <1>1, <2>1 DEF STrae, SRenovar, SEmite, m
    <3>2. w.usuario = TRUE
      BY <1>6, <1>17, <2>1 DEF STrae, m
    <3> QED BY <1>16, <3>1, <3>2 DEF SQuien
  <2>2. CASE SDeja(vista, m, w, p)
    <3>1. ~SVuela(ida, vuelta, "restaurar") /\ ~Hay(p, {"refrescar"})
      BY <1>6, <2>2, PideNada DEF SDeja, m
    <3>2. SVuela(a1, b1, "refrescar") => vista.usuario = TRUE
      BY <1>11, <1>16, <1>17, <3>1
    <3> QED BY <1>16, <1>17, <2>2, <3>1, <3>2 DEF SQuien, SDeja
  <2>3. CASE STira(vista, m, w, p)
    <3>1. ~Hay(p, {"refrescar"})
      BY <2>3, PideNada DEF STira
    <3>2. SVuela(a1, b1, "refrescar") => SVuela(ida, b1, "refrescar") /\ SVuela(ida, vuelta, "refrescar")
      BY <1>11, <1>16, <3>1
    <3>3. SVuela(a1, b1, "refrescar") => m.q.op \notin {"salir", "refrescar", "restaurar"} /\ vista.usuario = TRUE
      BY <1>5, <1>6, <1>17, <3>2 DEF m
    <3> QED BY <1>16, <2>3, <3>3 DEF SQuien, STira
  <2>4. CASE SRenovar(vista, m, w, p)
    <3>1. vista.usuario = TRUE
      BY <1>17, <2>4 DEF SRenovar
    <3>2. ~SVuela(ida, vuelta, "restaurar")
      <4>1. m.q.op # "restaurar"
        BY <2>4 DEF SRenovar, SE
      <4> QED BY <1>6, <4>1 DEF m
    <3> QED BY <1>16, <1>17, <2>4, <3>1, <3>2 DEF SQuien, SRenovar
  <2> QED BY <2>1, <2>2, <2>3, <2>4 DEF SEfecto, m
<1>19. SFiel(w, srv, a1, b1)
  BY <1>9, <1>15, <1>18 DEF SFiel
<1> QED BY <1>19 DEF a1, b1

\* Whatever the answer, the page is a page.
LEMMA SArranca ==
    ASSUME NEW t
    PROVE  DOMAIN Sesion!Arrancar(t) = SDom
BY DEF Sesion!Arrancar, Sesion!Cargada, Sesion!Fuera, Sesion!SinTokens, SDom

LEMMA SExpulsaDominio ==
    ASSUME NEW t, DOMAIN t = SDom, NEW qs, NEW r, r = Sesion!Expulsar(t, qs)
    PROVE  DOMAIN r.vista = SDom
<1>1. CASE r.va # TRUE
  <2>1. SIgual(t, t)
    BY DEF SIgual
  <2>2. SEchado(t, r, qs)
    BY <1>1, <2>1, SExpulsa
  <2> QED BY <2>2 DEF SEchado
<1>2. CASE r.va = TRUE
  <2> DEFINE w == Sesion!SinTokens(t)
  <2>1. r = Sesion!LlevaA(Sesion!Arrancar(w), Sesion!Restaurar(w))
    BY <1>2 DEF Sesion!Expulsar, Sesion!Queda
  <2> HIDE DEF w
  <2>2. r.vista = Sesion!Arrancar(w)
    BY <2>1 DEF Sesion!LlevaA, Sesion!Pide, Sesion!Queda
  <2> QED BY <2>2, SArranca
<1> QED BY <1>1, <1>2

LEMMA SDominio ==
    ASSUME DOMAIN vista = SDom, NEW m, m.q.op \in SO, NEW r, r = Sesion!Recibir(m)
    PROVE  DOMAIN r.vista = SDom
<1> DEFINE v == [vista EXCEPT !.renovando = FALSE, !.esperan = <<>>]
           o == [vista EXCEPT !.iniciando = FALSE]
           x == Sesion!ConPar(v, m.datos.par)
           z == [Sesion!ConPar(o, m.datos.par) EXCEPT !.usuario = TRUE]
<1>1. DOMAIN v = SDom /\ DOMAIN o = SDom /\ DOMAIN x = SDom /\ DOMAIN z = SDom
  BY DEF Sesion!ConPar, SDom
<1>2. CASE ~m.q.viva
  BY <1>2 DEF Sesion!Recibir, Sesion!Queda
<1>3. CASE m.q.viva /\ m.q.op = "refrescar"
  <2>1. r = Sesion!Renovado(m)
    BY <1>3 DEF Sesion!Recibir
  <2>2. r.vista = x \/ r.vista = v \/ r = Sesion!Expulsar(v, vista.esperan)
    BY <2>1 DEF Sesion!Renovado, Sesion!Pide, Sesion!Queda
  <2> HIDE DEF v, x
  <2> QED BY <1>1, <2>2, SExpulsaDominio
<1>4. CASE m.q.viva /\ m.q.op = "restaurar"
  <2>1. r = Sesion!Restaurado(m)
    BY <1>4 DEF Sesion!Recibir
  <2>2. r.vista = z \/ r.vista = Sesion!Fuera(o)
    BY <2>1 DEF Sesion!Restaurado, Sesion!Queda
  <2> HIDE DEF o, z
  <2>3. DOMAIN Sesion!Fuera(o) = SDom
    BY <1>1 DEF Sesion!Fuera, Sesion!SinTokens, SDom
  <2> QED BY <1>1, <2>2, <2>3
<1>5. CASE m.q.viva /\ m.q.op \in SE
  <2>1. m.q.op \notin {"refrescar", "restaurar"}
    BY <1>5 DEF SE
  <2>2. \/ r = Sesion!Caduca(vista, m.q)
        \/ r = [Sesion!Queda(Sesion!Fin(vista, m.q, m.ok, m.datos)) EXCEPT !.duda = Sesion!SinNada(m)]
    BY <1>5, <2>1 DEF Sesion!Recibir
  <2>3. ASSUME NEW ok, NEW datos PROVE DOMAIN Sesion!Fin(vista, m.q, ok, datos) = SDom
    <3>1. CASE m.q.op = "entrar"
      <4>1. \A par : DOMAIN Sesion!ConPar(vista, par) = SDom
        BY DEF Sesion!ConPar
      <4> QED BY <3>1, <4>1 DEF Sesion!Fin
    <3>2. CASE m.q.op \in {"clave", "salir", "datos"}
      BY <3>2 DEF Sesion!Fin, Sesion!Fuera, Sesion!SinTokens
    <3> QED BY <1>5, <3>1, <3>2 DEF SE
  <2>4. CASE r = [Sesion!Queda(Sesion!Fin(vista, m.q, m.ok, m.datos)) EXCEPT !.duda = Sesion!SinNada(m)]
    <3>1. r.vista = Sesion!Fin(vista, m.q, m.ok, m.datos)
      BY <2>4 DEF Sesion!Queda
    <3> QED BY <2>3, <3>1
  <2>5. CASE r = Sesion!Caduca(vista, m.q)
    <3> DEFINE espera == [vista EXCEPT !.esperan = Append(@, m.q)]
               renueva == [vista EXCEPT !.renovando = TRUE, !.esperan = <<m.q>>]
               acaba == Sesion!Fin(vista, m.q, FALSE, Nada)
    <3>1. \/ r = Sesion!Queda(acaba)
          \/ r = Sesion!Expulsar(vista, <<m.q>>)
          \/ r = Sesion!Queda(espera)
          \/ \E p, d : r = [Sesion!Pide(renueva, p) EXCEPT !.duda = d]
      BY <2>5 DEF Sesion!Caduca
    <3>2. DOMAIN espera = SDom /\ DOMAIN renueva = SDom /\ DOMAIN acaba = SDom
      BY <2>3
    <3> HIDE DEF espera, renueva, acaba
    <3>3. \A t : Sesion!Queda(t).vista = t
      BY DEF Sesion!Queda
    <3>5. ASSUME NEW p, NEW d, r = [Sesion!Pide(renueva, p) EXCEPT !.duda = d] PROVE r.vista = renueva
      BY <3>5 DEF Sesion!Pide, Sesion!Queda
    <3>4. r.vista \in {acaba, espera, renueva} \/ r = Sesion!Expulsar(vista, <<m.q>>)
      BY <3>1, <3>3, <3>5
    <3> QED BY <3>2, <3>4, SExpulsaDominio
  <2> QED BY <2>2, <2>4, <2>5
<1> QED BY <1>2, <1>3, <1>4, <1>5 DEF SO

\* To go to the login again is to have nobody there.
LEMMA SLleva ==
    ASSUME NEW m, m.q.op \in SO, DOMAIN vista = SDom, NEW r, r = Sesion!Recibir(m), r.va = TRUE
    PROVE  /\ r.pide = <<>> /\ r.vista.usuario # TRUE /\ r.vista.timer # TRUE
           /\ r.vista.acceso = 0 /\ r.vista.refresco = 0
<1> DEFINE v == [vista EXCEPT !.renovando = FALSE, !.esperan = <<>>]
<1>1. \A t : Sesion!Queda(t).va = FALSE /\ \A p : Sesion!Pide(t, p).va = FALSE
  BY DEF Sesion!Pide, Sesion!Queda
<1>2. \E t, qs : DOMAIN t = SDom /\ r = Sesion!Expulsar(t, qs)
  <2>1. CASE ~m.q.viva
    BY <1>1, <2>1 DEF Sesion!Recibir
  <2>2. CASE m.q.viva /\ m.q.op = "refrescar"
    <3>1. DOMAIN v = SDom
      BY DEF SDom
    <3>2. r = Sesion!Renovado(m)
      BY <2>2 DEF Sesion!Recibir
    <3>3. r = Sesion!Expulsar(v, vista.esperan)
      BY <1>1, <3>2 DEF Sesion!Renovado
    <3> QED BY <3>1, <3>3
  <2>3. CASE m.q.viva /\ m.q.op = "restaurar"
    BY <1>1, <2>3 DEF Sesion!Recibir, Sesion!Restaurado
  <2>4. CASE m.q.viva /\ m.q.op \in SE
    <3>1. m.q.op \notin {"refrescar", "restaurar"}
      BY <2>4 DEF SE
    <3>2. \/ r = Sesion!Caduca(vista, m.q)
          \/ r = [Sesion!Queda(Sesion!Fin(vista, m.q, m.ok, m.datos)) EXCEPT !.duda = Sesion!SinNada(m)]
      BY <2>4, <3>1 DEF Sesion!Recibir
    <3>3. r = Sesion!Caduca(vista, m.q)
      BY <3>2 DEF Sesion!Queda
    <3>4. r = Sesion!Expulsar(vista, <<m.q>>)
      BY <1>1, <3>3 DEF Sesion!Caduca, Sesion!Pide, Sesion!Queda
    <3> QED BY <3>4
  <2> QED BY <2>1, <2>2, <2>3, <2>4 DEF SO
<1>3. PICK t, qs : DOMAIN t = SDom /\ r = Sesion!Expulsar(t, qs)
  BY <1>2
<1> DEFINE w == Sesion!SinTokens(t)
<1>4. r = Sesion!LlevaA(Sesion!Arrancar(w), Sesion!Restaurar(w))
  BY <1>1, <1>3 DEF Sesion!Expulsar
<1>5. w.refresco = 0
  BY <1>3 DEF Sesion!SinTokens, Sesion!Nadie, SDom
<1> HIDE DEF w
<1>6. r.vista = Sesion!Arrancar(w) /\ r.pide = Sesion!Restaurar(w)
  BY <1>4 DEF Sesion!LlevaA, Sesion!Pide, Sesion!Queda
<1>7. r.pide = <<>>
  BY <1>5, <1>6 DEF Sesion!Restaurar, Sesion!Nadie
<1>8. r.vista = Sesion!Cargada(FALSE, 0) \/ r.vista = Sesion!Fuera(Sesion!Cargada(TRUE, 0))
  BY <1>5, <1>6 DEF Sesion!Arrancar, Sesion!Nadie
<1> QED BY <1>7, <1>8, SEchada

LEMMA SFielRecibe ==
    ASSUME SesionInv, SesionFiel, NEW i, Sesion!Recibe(i)
    PROVE  SesionFiel'
<1> DEFINE m == vuelta[i]
           r == Sesion!Recibir(m)
<1>1. /\ i \in DOMAIN vuelta /\ m.q.op \in SO /\ srv' = srv /\ DOMAIN vista = SDom
      /\ Aguardan(vista.esperan)
  BY DEF Sesion!Recibe, Sesion!Llega, SesionInv, SesionFiel, Correo, SonRespuestas, EsRespuesta, EsPedido
<1>2. DOMAIN r.vista = SDom
  BY <1>1, SDominio
<1>3. \/ /\ r.va # TRUE
         /\ vista' = IF m.q.viva THEN r.vista ELSE vista
         /\ ida' = ida \o (IF m.q.viva THEN r.pide ELSE Huerfanos(r.pide))
         /\ dudosa' = (dudosa \/ i # 1 \/ r.duda)
         /\ vuelta' = Sin(vuelta, i)
      \/ /\ r.va = TRUE
         /\ vista' = r.vista
         /\ ida' = Huerfanos(ida) \o r.pide
         /\ dudosa' = (ida # <<>> \/ Sin(vuelta, i) # <<>>)
         /\ vuelta' = HuerfanasDe(Sin(vuelta, i))
  <2> HIDE DEF r
  <2> QED BY DEF r, Sesion!Recibe, Sesion!Llega, Sesion!Sin, Sin, Sesion!Huerfanos, Huerfanos, Sesion!HuerfanasDe, HuerfanasDe
<1> HIDE DEF r
<1>4. DOMAIN vista' = SDom /\ SBanco(srv')
  BY <1>1, <1>2, <1>3 DEF SesionFiel
<1>5. ASSUME dudosa' # TRUE PROVE SFiel(vista', srv', ida', vuelta')
  <2>1. CASE r.va = TRUE
    <3>1. /\ r.pide = <<>> /\ r.vista.usuario # TRUE /\ r.vista.timer # TRUE
          /\ r.vista.acceso = 0 /\ r.vista.refresco = 0
      BY <1>1, <2>1, SLleva DEF r
    <3>2. ida = <<>> /\ Sin(vuelta, i) = <<>> /\ vista' = r.vista
          /\ ida' = Huerfanos(ida) \o r.pide /\ vuelta' = HuerfanasDe(Sin(vuelta, i))
      BY <1>3, <1>5, <2>1
    <3>3. <<>> \o <<>> = <<>>
      BY JuntoNada, SucesionUna
    <3>4. ida' = <<>> /\ vuelta' = <<>>
      BY <3>1, <3>2, <3>3, NadieEnReposo
    <3> DEFINE p == <<>>
               w == r.vista
    <3>6. p = <<>> /\ w.usuario # TRUE /\ w.timer # TRUE /\ w.acceso = 0 /\ w.refresco = 0
      BY <3>1
    <3> HIDE DEF p, w
    <3>8. w.refresco \in Nat
      BY <3>6
    <3>7. SFiel(w, srv, p, <<>>)
      BY <3>6, <3>8, SEstrena
    <3>5. SFiel(vista', srv', <<>>, <<>>)
      BY <1>1, <3>2, <3>7 DEF p, w
    <3> QED BY <3>4, <3>5
  <2>2. CASE r.va # TRUE
    <3>1. /\ i = 1 /\ dudosa # TRUE /\ r.duda # TRUE
          /\ vista' = IF m.q.viva THEN r.vista ELSE vista
          /\ ida' = ida \o (IF m.q.viva THEN r.pide ELSE Huerfanos(r.pide))
          /\ vuelta' = Sin(vuelta, i)
      BY <1>3, <1>5, <2>2
    <3>2. SFiel(vista, srv, ida, vuelta)
      BY <3>1 DEF SesionFiel
    <3>3. m.q.viva = TRUE /\ (SEmite(m) => m.datos.par \in Nat)
      BY <1>1, <3>2 DEF SFiel, SFichas, Vivas
    <3>4. SEfecto(vista, m, r.vista, r.pide)
      BY <1>1, <2>2, <3>1, <3>3, SHace DEF r
    <3>5. SFiel(r.vista, srv, ida \o r.pide, Sin(vuelta, 1))
      BY <1>1, <3>1, <3>2, <3>4, SAplica
    <3> QED BY <1>1, <3>1, <3>3, <3>5
  <2> QED BY <2>1, <2>2
<1> QED BY <1>4, <1>5, SFielPrima

LEMMA SClicPaso ==
    ASSUME SesionFiel, NEW w, NEW p, vista' = w, ida' = ida \o p, vuelta' = vuelta, srv' = srv, dudosa' = dudosa,
           DOMAIN w = SDom, w.usuario = vista.usuario, w.cambia = vista.cambia,
           w.acceso = vista.acceso, w.refresco = vista.refresco, w.timer = vista.timer \/ w.timer = FALSE,
           p = <<>> \/ \E op \in SE : \E datos : p = <<Pedido(op, vista.acceso, datos)>>
    PROVE  SesionFiel'
<1>1. ASSUME dudosa' # TRUE PROVE SFiel(w, srv, ida \o p, vuelta)
  <2>1. SFiel(vista, srv, ida, vuelta) /\ vista.acceso \in Nat
    BY <1>1 DEF SesionFiel, SFiel, SFichas
  <2>2. p = <<>> \/ \E q : p = <<q>> /\ q.viva = TRUE /\ q.id \in Nat /\ q.op \in SE
    <3>1. ASSUME NEW op \in SE, NEW datos, p = <<Pedido(op, vista.acceso, datos)>>
          PROVE  \E q : p = <<q>> /\ q.viva = TRUE /\ q.id \in Nat /\ q.op \in SE
      <4> DEFINE x == Pedido(op, vista.acceso, datos)
      <4>1. p = <<x>> /\ x.viva = TRUE /\ x.id \in Nat /\ x.op \in SE
        BY <2>1, <3>1 DEF Pedido
      <4> HIDE DEF x
      <4> QED BY <4>1
    <3> QED BY <3>1
  <2> QED BY <2>1, <2>2, SClic
<1>2. DOMAIN vista' = SDom /\ SBanco(srv')
  BY DEF SesionFiel
<1> QED BY <1>1, <1>2, SFielPrima

LEMMA SPideQuien ==
    ASSUME SesionFiel, Sesion!Entrar \/ Sesion!CambiarClave \/ Sesion!Pedir \/ (Sesion!Salir /\ vista.acceso # Sesion!Nadie)
    PROVE  SesionFiel'
<1> USE DEF Sesion!Toque
<1>1. DOMAIN vista = SDom
  BY DEF SesionFiel
<1> DEFINE w == [vista EXCEPT !.ingresando = TRUE, !.error = FALSE]
<1>2. /\ DOMAIN w = SDom /\ w.usuario = vista.usuario /\ w.cambia = vista.cambia
      /\ w.acceso = vista.acceso /\ w.refresco = vista.refresco /\ w.timer = vista.timer
  BY <1>1 DEF SDom
<1> HIDE DEF w
<1>3. \E op \in SE : \E datos : /\ vista' = w \/ vista' = vista
                                /\ ida' = ida \o <<Pedido(op, vista.acceso, datos)>>
                                /\ vuelta' = vuelta /\ srv' = srv /\ dudosa' = dudosa
  <2>1. ASSUME NEW op, NEW d PROVE Sesion!Con(vista, op, d) = Pedido(op, vista.acceso, d) /\ Sesion!Con(w, op, d) = Pedido(op, vista.acceso, d)
    BY <1>2 DEF Sesion!Con, Sesion!Pedido, Pedido
  <2>2. {"entrar", "clave", "datos", "salir"} \subseteq SE
    BY DEF SE
  <2> HIDE DEF Sesion!Toque
  <2>3. ASSUME NEW v, NEW q, Sesion!Toque(v, <<q>>)
        PROVE  vista' = v /\ ida' = ida \o <<q>> /\ vuelta' = vuelta /\ srv' = srv /\ dudosa' = dudosa
    BY <2>3 DEF Sesion!Toque
  <2>4. CASE Sesion!Entrar
    <3>1. PICK buena \in BOOLEAN : Sesion!Toque(w, <<Sesion!Con(w, "entrar", [buena |-> buena])>>)
      BY <2>4 DEF Sesion!Entrar, w
    <3> QED BY <2>1, <2>2, <2>3, <3>1
  <2>5. CASE Sesion!CambiarClave
    <3>1. Sesion!Toque(w, <<Sesion!Con(w, "clave", Nada)>>)
      BY <2>5 DEF Sesion!CambiarClave, w
    <3> QED BY <2>1, <2>2, <2>3, <3>1
  <2>6. CASE Sesion!Pedir
    <3>1. Sesion!Toque(vista, <<Sesion!Con(vista, "datos", Nada)>>)
      BY <2>6 DEF Sesion!Pedir
    <3> QED BY <2>1, <2>2, <2>3, <3>1
  <2>7. CASE Sesion!Salir /\ vista.acceso # Sesion!Nadie
    <3>1. Sesion!Toque(vista, <<Sesion!Con(vista, "salir", Nada)>>)
      BY <2>7 DEF Sesion!Salir
    <3> QED BY <2>1, <2>2, <2>3, <3>1
  <2> QED BY <2>4, <2>5, <2>6, <2>7
<1>4. PICK op \in SE : \E datos : /\ vista' = w \/ vista' = vista
                                  /\ ida' = ida \o <<Pedido(op, vista.acceso, datos)>>
                                  /\ vuelta' = vuelta /\ srv' = srv /\ dudosa' = dudosa
  BY <1>3
<1>5. PICK datos : /\ vista' = w \/ vista' = vista
                   /\ ida' = ida \o <<Pedido(op, vista.acceso, datos)>>
                   /\ vuelta' = vuelta /\ srv' = srv /\ dudosa' = dudosa
  BY <1>4
<1> DEFINE p == <<Pedido(op, vista.acceso, datos)>>
<1>6. \E o \in SE : \E d : p = <<Pedido(o, vista.acceso, d)>>
  OBVIOUS
<1>7. ida' = ida \o p
  BY <1>5
<1> HIDE DEF p
<1>8. PICK x \in {w, vista} : vista' = x
  BY <1>5
<1>9. /\ DOMAIN x = SDom /\ x.usuario = vista.usuario /\ x.cambia = vista.cambia
      /\ x.acceso = vista.acceso /\ x.refresco = vista.refresco /\ x.timer = vista.timer
  BY <1>1, <1>2
<1> QED BY <1>5, <1>6, <1>7, <1>8, <1>9, SClicPaso

LEMMA SSale ==
    ASSUME SesionFiel, Sesion!Salir, vista.acceso = Sesion!Nadie
    PROVE  SesionFiel'
<1>1. /\ vista' = Sesion!Fuera(vista) /\ ida' = ida \o <<>> /\ vuelta' = vuelta /\ srv' = srv /\ dudosa' = dudosa
      /\ vista.usuario = TRUE /\ vista.cambia # TRUE /\ vista.acceso = 0
  BY DEF Sesion!Salir, Sesion!Toque, Sesion!EnLogin, Sesion!Nadie
<1> DEFINE w == Sesion!Fuera(vista)
<1>2. DOMAIN w = SDom /\ w.usuario # TRUE /\ w.acceso = 0 /\ w.refresco = 0 /\ w.timer # TRUE
  <2>1. DOMAIN vista = SDom
    BY DEF SesionFiel
  <2> QED BY <2>1 DEF Sesion!Fuera, Sesion!SinTokens, Sesion!Nadie, SDom
<1> HIDE DEF w
<1>3. ASSUME dudosa' # TRUE PROVE SFiel(w, srv, ida \o <<>>, vuelta)
  <2>1. SFiel(vista, srv, ida, vuelta)
    BY <1>1, <1>3 DEF SesionFiel
  <2>2. ~SVuela(ida, vuelta, "refrescar")
    BY <1>1, <2>1 DEF SFiel, SQuien
  <2> QED BY <1>2, <2>1, <2>2, SNadie
<1>4. DOMAIN vista' = SDom /\ SBanco(srv')
  BY <1>1, <1>2 DEF SesionFiel, w
<1> QED BY <1>1, <1>3, <1>4, SFielPrima DEF w

LEMMA SVence ==
    ASSUME SesionFiel, Sesion!Vence
    PROVE  SesionFiel'
<1>1. /\ vista' = vista /\ ida' = ida /\ vuelta' = vuelta /\ dudosa' = dudosa
      /\ \E par \in 1..srv.ultimo, todo \in BOOLEAN :
            srv' = [srv EXCEPT !.caducos = @ \cup {par}, !.gastados = IF todo THEN @ \cup {par} ELSE @]
  BY DEF Sesion!Vence
<1>2. SBanco(srv') /\ srv'.ultimo = srv.ultimo
  BY <1>1 DEF SesionFiel, SBanco
<1>3. ASSUME dudosa' # TRUE PROVE SFiel(vista, srv', ida, vuelta)
  <2>1. SFiel(vista, srv, ida, vuelta)
    BY <1>1, <1>3 DEF SesionFiel
  <2> DEFINE P == SPar(vista, srv)
             P1 == SPar(vista, srv')
             Y == {srv.ultimo}
             Y1 == {srv'.ultimo}
  <2>2. (P => P1) /\ Y1 = Y /\ Fresca(ida, vuelta, SCanal, P, Y)
    BY <1>2, <2>1 DEF SFiel, SFichas, SPar
  <2> HIDE DEF P, P1, Y, Y1
  <2>3. Fresca(ida, vuelta, SCanal, P1, Y1)
    BY <2>2 DEF Fresca, Dice
  <2> QED BY <2>1, <2>3 DEF SFiel, SFichas, P1, Y1
<1> QED BY <1>1, <1>2, <1>3, SFielPrima DEF SesionFiel

LEMMA STemporizador ==
    ASSUME SesionInv, SesionFiel, Sesion!Temporizador
    PROVE  SesionFiel'
<1> DEFINE renueva == ~vista.renovando /\ vista.refresco # Sesion!Nadie
           p == IF renueva THEN <<Pedido("refrescar", vista.refresco, Nada)>> ELSE <<>>
           w == [[vista EXCEPT !.timer = FALSE] EXCEPT !.renovando = @ \/ renueva]
<1>1. /\ vista' = w /\ ida' = ida \o p /\ vuelta' = vuelta /\ srv' = srv /\ vista.timer = TRUE
      /\ \/ dudosa' = TRUE
         \/ dudosa' = dudosa /\ ~(EnVuelo({"salir"}) > 0)
  BY SCuenta DEF Sesion!Temporizador, Sesion!Toque, Sesion!Tropiezo, Sesion!Saliendo, Sesion!Pedido, Pedido
<1>2. /\ DOMAIN w = SDom /\ w.usuario = vista.usuario /\ w.cambia = vista.cambia
      /\ w.acceso = vista.acceso /\ w.refresco = vista.refresco /\ w.timer = FALSE
  BY DEF SesionFiel, SDom
<1> HIDE DEF w
<1>3. CASE dudosa' = TRUE
  BY <1>1, <1>2, <1>3, SFielPrima DEF SesionFiel
<1>4. CASE dudosa' = dudosa /\ ~renueva
  <2>1. p = <<>>
    BY <1>4
  <2> HIDE DEF p, renueva
  <2> QED BY <1>1, <1>2, <1>4, <2>1, SClicPaso
<1>5. CASE dudosa' = dudosa /\ ~(EnVuelo({"salir"}) > 0) /\ renueva
  <2> DEFINE q == Pedido("refrescar", vista.refresco, Nada)
             K == {"salir"}
  <2>1. p = <<q>> /\ vista.renovando # TRUE
    BY <1>5
  <2>2. q.op = "refrescar" /\ q.viva = TRUE /\ q.id = vista.refresco
    BY DEF Pedido
  <2> HIDE DEF p, renueva, q
  <2>3. ASSUME dudosa' # TRUE PROVE SFiel(w, srv, ida \o <<q>>, vuelta)
    <3>1. SFiel(vista, srv, ida, vuelta)
      BY <1>5, <2>3 DEF SesionFiel
    <3>2. /\ Vivas(ida, vuelta) /\ vista.refresco \in Nat
          /\ vista.usuario = TRUE /\ ~SVuela(ida, vuelta, "restaurar")
      BY <1>1, <3>1 DEF SFiel, SFichas, SQuien
    <3>3. /\ \A k \in DOMAIN ida : ida[k].op \notin SR
          /\ \A k \in DOMAIN vuelta : vuelta[k].q.op \notin SR
      BY <2>1, <3>2, SNoRenueva
    <3>4. /\ \A k \in DOMAIN ida : ida[k].op \notin K
          /\ \A k \in DOMAIN vuelta : vuelta[k].q.op \notin K
      <4>1. ~(EnVuelo(K) > 0)
        BY <1>5
      <4> HIDE DEF K
      <4> QED BY <3>2, <4>1, NadieVuela
    <3>5. /\ \A k \in DOMAIN ida : ida[k].op \notin {"salir", "refrescar"}
          /\ \A k \in DOMAIN vuelta : vuelta[k].q.op \notin {"salir", "refrescar"}
      BY <3>3, <3>4 DEF SR
    <3>6. q.id \in Nat
      BY <2>2, <3>2
    <3> QED BY <1>2, <2>2, <3>1, <3>2, <3>5, <3>6, SRenueva
  <2> QED BY <1>1, <1>2, <2>1, <2>3, SFielPrima DEF SesionFiel
<1> QED BY <1>1, <1>3, <1>4, <1>5

LEMMA SReabre ==
    ASSUME SesionFiel, Sesion!Reabrir
    PROVE  SesionFiel'
<1> DEFINE p == Sesion!Restaurar(vista)
           w == Sesion!Arrancar(vista)
<1>1. /\ vista' = w /\ ida' = Huerfanos(ida) \o p /\ vuelta' = HuerfanasDe(vuelta) /\ srv' = srv
      /\ dudosa' = (dudosa \/ ~EnReposo)
  BY DEF Sesion!Reabrir, Sesion!Huerfanos, Huerfanos, Sesion!HuerfanasDe, HuerfanasDe, Sesion!EnReposo, EnReposo
<1>2. DOMAIN w = SDom
  BY SArranca
<1>3. ASSUME dudosa' # TRUE PROVE SFiel(w, srv, ida', vuelta')
  <2>1. ida = <<>> /\ vuelta = <<>> /\ SFiel(vista, srv, ida, vuelta)
    BY <1>1, <1>3 DEF SesionFiel, EnReposo
  <2>2. vista.refresco \in Nat /\ (vista.usuario # TRUE => vista.refresco = 0)
    BY <2>1 DEF SFiel, SFichas, SQuien
  <2>3. ida' = <<>> \o p /\ vuelta' = <<>>
    BY <1>1, <2>1, NadieEnReposo
  <2>4. CASE vista.usuario = TRUE /\ vista.refresco # 0
    <3> DEFINE q == Pedido("restaurar", vista.refresco, Nada)
    <3>1. p = <<q>> /\ q.op = "restaurar" /\ q.viva = TRUE /\ q.id \in Nat
      BY <2>2, <2>4 DEF Sesion!Restaurar, Sesion!Nadie, Sesion!Pedido, Pedido
    <3>2. w = [Sesion!Cargada(TRUE, vista.refresco) EXCEPT !.iniciando = TRUE]
      BY <2>4 DEF Sesion!Arrancar, Sesion!Nadie
    <3> HIDE DEF p, w, q
    <3>3. w.acceso = 0 /\ w.refresco = vista.refresco /\ w.timer # TRUE /\ w.usuario = TRUE
      BY <3>2 DEF Sesion!Cargada, Sesion!Nadie
    <3>4. \E x : p = <<x>> /\ x.op = "restaurar" /\ x.viva = TRUE /\ x.id \in Nat /\ w.usuario = TRUE
      BY <3>1, <3>3
    <3>5. SFiel(w, srv, p, <<>>)
      BY <2>2, <3>3, <3>4, SEstrena
    <3>6. ida' = p
      BY <2>3, <3>1, NadieEnReposo
    <3> QED BY <2>3, <3>5, <3>6
  <2>5. CASE vista.usuario # TRUE \/ vista.refresco = 0
    <3>1. p = <<>>
      BY <2>2, <2>5 DEF Sesion!Restaurar, Sesion!Nadie
    <3>2. w = Sesion!Cargada(FALSE, 0) \/ w = Sesion!Fuera(Sesion!Cargada(TRUE, 0))
      BY <2>2, <2>5 DEF Sesion!Arrancar, Sesion!Nadie
    <3> HIDE DEF p, w
    <3>3. w.acceso = 0 /\ w.refresco = 0 /\ w.timer # TRUE /\ w.usuario # TRUE
      BY <3>2, SEchada
    <3>7. w.refresco \in Nat
      BY <3>3
    <3>4. SFiel(w, srv, p, <<>>)
      BY <3>1, <3>3, <3>7, SEstrena
    <3>5. <<>> \o <<>> = <<>>
      BY JuntoNada, SucesionUna
    <3>6. ida' = p
      BY <2>3, <3>1, <3>5
    <3> QED BY <2>3, <3>4, <3>6
  <2> QED BY <2>4, <2>5
<1> HIDE DEF w
<1> QED BY <1>1, <1>2, <1>3, SFielPrima DEF SesionFiel

LEMMA SesionFielSigue == SesionInv /\ SesionFiel /\ Sesion!Next => SesionFiel'
<1> SUFFICES ASSUME SesionInv, SesionFiel, Sesion!Next PROVE SesionFiel'
  OBVIOUS
<1>1. \/ Sesion!Entrar \/ Sesion!CambiarClave \/ Sesion!Pedir \/ Sesion!Salir
      \/ Sesion!Temporizador \/ Sesion!Vence \/ Sesion!Reabrir
      \/ \E i \in DOMAIN ida : Sesion!Responde(i)
      \/ \E i \in DOMAIN vuelta : Sesion!Recibe(i)
  BY DEF Sesion!Next
<1> QED BY <1>1, SPideQuien, SSale, STemporizador, SVence, SReabre, SFielResponde, SFielRecibe

-----------------------------------------------------------------------------
(* What every page keeps, and what it shows.                               *)

AlDiaInv ==
    /\ AdministracionInv
    /\ pagina = "categorias" => CategoriasFiel
    /\ pagina = "proveedores" => ProveedoresFiel
    /\ pagina = "productos" => ProductosFiel
    /\ pagina = "inventario" => InventarioFiel
    /\ pagina = "listas" => ListasFiel
    /\ pagina = "promociones" => PromocionesFiel
    /\ pagina = "historial" => HistorialFiel
    /\ pagina = "compras" => ComprasFiel
    /\ pagina = "caja" => CajaFiel
    /\ pagina = "sesion" => SesionFiel
    /\ pagina = "usuarios" => UsuariosInv /\ UsuariosFiel

LEMMA AlDiaEmpieza == Init => AlDiaInv
BY AdministracionEmpieza, UsuariosEmpieza,
   CategoriasFielEmpieza, ProveedoresFielEmpieza, ProductosFielEmpieza,
   InventarioFielEmpieza, ListasFielEmpieza, PromocionesFielEmpieza, HistorialFielEmpieza,
   ComprasFielEmpieza, CajaFielEmpieza, SesionFielEmpieza, UsuariosFielEmpieza
   DEF Init, AlDiaInv

LEMMA AlDiaQuieta ==
    ASSUME AlDiaInv, UNCHANGED <<vars, pagina>>
    PROVE  AlDiaInv'
<1>1. UNCHANGED vars /\ pagina' = pagina
  BY DEF vars
<1>2. AdministracionInv'
  BY AdministracionQuieta DEF AlDiaInv
<1> QED BY <1>1, <1>2,
           CategoriasFielQuieta, ProveedoresFielQuieta, ProductosFielQuieta, InventarioFielQuieta,
           ListasFielQuieta, PromocionesFielQuieta, HistorialFielQuieta, ComprasFielQuieta,
           CajaFielQuieta, SesionFielQuieta, UsuariosFielQuieta
           DEF AlDiaInv

LEMMA AlDiaSigue == AlDiaInv /\ [Next]_<<vars, pagina>> => AlDiaInv'
<1> SUFFICES ASSUME AlDiaInv, Next PROVE AlDiaInv'
  BY AlDiaQuieta
<1>1. pagina' = pagina /\ EnPagina /\ AdministracionInv
  BY DEF Next, AlDiaInv
<1>2. AdministracionInv'
  BY <1>1, AdministracionSigue
<1>3. CASE pagina = "categorias"
  BY <1>1, <1>2, <1>3, CategoriasFielSigue DEF EnPagina, AlDiaInv, AdministracionInv
<1>4. CASE pagina = "proveedores"
  BY <1>1, <1>2, <1>4, ProveedoresFielSigue DEF EnPagina, AlDiaInv, AdministracionInv
<1>5. CASE pagina = "productos"
  BY <1>1, <1>2, <1>5, ProductosFielSigue DEF EnPagina, AlDiaInv, AdministracionInv
<1>6. CASE pagina = "inventario"
  BY <1>1, <1>2, <1>6, InventarioFielSigue DEF EnPagina, AlDiaInv, AdministracionInv
<1>7. CASE pagina = "listas"
  BY <1>1, <1>2, <1>7, ListasFielSigue DEF EnPagina, AlDiaInv, AdministracionInv
<1>8. CASE pagina = "promociones"
  BY <1>1, <1>2, <1>8, PromocionesFielSigue DEF EnPagina, AlDiaInv, AdministracionInv
<1>9. CASE pagina = "historial"
  BY <1>1, <1>2, <1>9, HistorialFielSigue DEF EnPagina, AlDiaInv, AdministracionInv
<1>10. CASE pagina = "compras"
  BY <1>1, <1>2, <1>10, ComprasFielSigue DEF EnPagina, AlDiaInv, AdministracionInv
<1>11. CASE pagina = "caja"
  BY <1>1, <1>2, <1>11, CajaFielSigue DEF EnPagina, AlDiaInv, AdministracionInv
<1>12. CASE pagina = "sesion"
  BY <1>1, <1>2, <1>12, SesionFielSigue DEF EnPagina, AlDiaInv, AdministracionInv
<1>13. CASE pagina = "usuarios"
  BY <1>1, <1>2, <1>13, UsuariosFielSigue, UsuariosSigue DEF EnPagina, AlDiaInv, AdministracionInv
<1> QED BY <1>1, <1>3, <1>4, <1>5, <1>6, <1>7, <1>8, <1>9, <1>10, <1>11, <1>12, <1>13 DEF AdministracionInv, Rutas

LEMMA AlDiaSiempre == Spec => []AlDiaInv
BY AlDiaEmpieza, AlDiaSigue, PTL DEF Spec

LEMMA AlDiaDice == AlDiaInv => AlDia
<1> SUFFICES ASSUME AlDiaInv, EnReposo, dudosa # TRUE PROVE Mostrado
  BY DEF AlDia
<1>1. CASE pagina = "categorias"
  BY <1>1, CategoriasFielDice DEF AlDiaInv, Mostrado
<1>2. CASE pagina = "proveedores"
  BY <1>2, ProveedoresFielDice DEF AlDiaInv, Mostrado
<1>3. CASE pagina = "productos"
  BY <1>3, ProductosFielDice DEF AlDiaInv, Mostrado
<1>4. CASE pagina = "inventario"
  BY <1>4, InventarioFielDice DEF AlDiaInv, Mostrado
<1>5. CASE pagina = "listas"
  BY <1>5, ListasFielDice DEF AlDiaInv, Mostrado
<1>6. CASE pagina = "promociones"
  BY <1>6, PromocionesFielDice DEF AlDiaInv, Mostrado
<1>7. CASE pagina = "historial"
  BY <1>7, HistorialFielDice DEF AlDiaInv, Mostrado
<1>8. CASE pagina = "compras"
  BY <1>8, ComprasFielDice DEF AlDiaInv, Mostrado
<1>9. CASE pagina = "caja"
  BY <1>9, CajaFielDice DEF AlDiaInv, Mostrado
<1>10. CASE pagina = "sesion"
  BY <1>10, SesionFielDice DEF AlDiaInv, Mostrado
<1>11. CASE pagina = "usuarios"
  BY <1>11, UsuariosFielDice DEF AlDiaInv, Mostrado
<1> QED BY <1>1, <1>2, <1>3, <1>4, <1>5, <1>6, <1>7, <1>8, <1>9, <1>10, <1>11 DEF AlDiaInv, AdministracionInv, Rutas

(* With nothing on its way, and no reason for doubt, a page shows what the *)
(* backend keeps: the handlers of the back office that change something    *)
(* reload what the change touches or make the same change themselves, and  *)
(* whatever else was asked for meanwhile, answered in order, leaves the    *)
(* page right (the pages of src/frontend/src/pages/admin, CierreCajaPage,  *)
(* useCajaStore.ts, useAuthStore.ts and api/client.ts).                    *)
THEOREM PaginaAlDia == Spec => []AlDia
BY AlDiaSiempre, AlDiaDice, PTL
=============================================================================
