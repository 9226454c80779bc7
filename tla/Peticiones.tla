----------------------------- MODULE Peticiones -----------------------------
(***************************************************************************)
(* What the pages of the back office share: a page keeps its own state and *)
(* asks the backend for everything else.                                   *)
(*   src/frontend/src/api/client.ts, App.tsx                               *)
(*                                                                         *)
(* A handler runs to its first await, which is a request; the rest of it   *)
(* runs when the answer arrives.  The backend takes the requests in any    *)
(* order, and the answers arrive in any order.  A request may fail before  *)
(* the backend has acted on it or after.  A page that is left is unmounted:*)
(* its handlers go on and may ask for more, but what they set is lost.     *)
(***************************************************************************)
EXTENDS Naturals, Sequences, FiniteSets

CONSTANTS
    Nada,           \* no data: a value unlike any other
    MaxToques,      \* bound: clicks of the user and failures of the network
    MaxVuelo        \* bound: requests without an answer

ASSUME PeticionesConstantes == MaxToques \in Nat /\ MaxVuelo \in Nat

VARIABLES
    vista,      \* the state of the page
    srv,        \* what the backend keeps of its subject
    ida,        \* requests sent, oldest first
    vuelta,     \* answers on their way, oldest first
    dudosa,     \* history: what is shown may be old, see Duda
    toques      \* clicks and failures so far

vars == <<vista, srv, ida, vuelta, dudosa, toques>>

Nadie == 0
Sin(s, i) == SubSeq(s, 1, i - 1) \o SubSeq(s, i + 1, Len(s))
Poner(f, i, x) == [j \in DOMAIN f \cup {i} |-> IF j = i THEN x ELSE f[j]]
Nuevo(f) == IF DOMAIN f = {} THEN 1 ELSE 1 + CHOOSE i \in DOMAIN f : \A j \in DOMAIN f : j <= i

EnReposo == ida = <<>> /\ vuelta = <<>>
EnVuelo(ops) == Cardinality({i \in DOMAIN ida : ida[i].viva /\ ida[i].op \in ops})
                    + Cardinality({i \in DOMAIN vuelta : vuelta[i].q.viva /\ vuelta[i].q.op \in ops})

\* Of each set of operations of the page at most one is in flight.
UnaDeCada(conjuntos) == \A ops \in conjuntos : EnVuelo(ops) <= 1

\* A request of the page that is mounted.
Pedido(op, id, datos) == [op |-> op, id |-> id, datos |-> datos, tras |-> "", viva |-> TRUE]
\* The same, when the handler goes on with something else after it.
Tras(pedido, tras) == [pedido EXCEPT !.tras = tras]
Huerfanos(pedidos) == [i \in DOMAIN pedidos |-> [pedidos[i] EXCEPT !.viva = FALSE]]
HuerfanasDe(respuestas) == [i \in DOMAIN respuestas |-> [respuestas[i] EXCEPT !.q.viva = FALSE]]
HayLugar(pedidos) == Len(ida) + Len(vuelta) + Len(pedidos) <= MaxVuelo

(* What is shown may be old when an answer was not given in the order of   *)
(* the requests, or a request failed, since the last time the page loaded  *)
(* everything with nothing else in flight.                                 *)

Gasta == toques < MaxToques /\ toques' = toques + 1

\* The user does something on the page: its new state, and what it asks for.
Toque(v, pedidos) ==
    /\ Gasta
    /\ HayLugar(pedidos)
    /\ vista' = v
    /\ ida' = ida \o pedidos
    /\ UNCHANGED <<srv, vuelta, dudosa>>

\* The same, when what it asks for is all that the page shows.
Recarga(v, pedidos) ==
    /\ Gasta
    /\ HayLugar(pedidos)
    /\ vista' = v
    /\ ida' = ida \o pedidos
    /\ dudosa' = (dudosa /\ ~EnReposo)
    /\ UNCHANGED <<srv, vuelta>>

\* The same, when the page itself may now show what is not so.
Tropiezo(v, pedidos) ==
    /\ Gasta
    /\ HayLugar(pedidos)
    /\ vista' = v
    /\ ida' = ida \o pedidos
    /\ dudosa' = TRUE
    /\ UNCHANGED <<srv, vuelta>>

\* The page is left, and it or another one is mounted: it starts afresh.
Montar(v, pedidos) ==
    /\ Gasta
    /\ HayLugar(pedidos)
    /\ vista' = v
    /\ ida' = Huerfanos(ida) \o pedidos
    /\ vuelta' = HuerfanasDe(vuelta)
    /\ dudosa' = ~EnReposo
    /\ UNCHANGED srv

\* The backend takes request i.  Servidor(s, q) is what it makes of q in state s: its
\* new state, whether it accepts, and the data of the answer.
Atiende(i, Servidor(_, _)) ==
    /\ i \in DOMAIN ida
    /\ ida' = Sin(ida, i)
    /\ LET q == ida[i]
           r == Servidor(srv, q)
           contesta(ok, datos) ==
               vuelta' = Append(vuelta, [q |-> q, ok |-> ok, datos |-> datos])
       IN \/ /\ srv' = r.srv
             /\ contesta(r.ok, r.datos)
             /\ dudosa' = (dudosa \/ i # 1)
             /\ UNCHANGED toques
          \/ /\ srv' \in {srv, r.srv}
             /\ contesta(FALSE, Nada)
             /\ dudosa' = TRUE
             /\ Gasta
    /\ UNCHANGED vista

Acepta(s, datos) == [srv |-> s, ok |-> TRUE, datos |-> datos]
Rechaza(s) == [srv |-> s, ok |-> FALSE, datos |-> Nada]

\* Answer i arrives.  Recibir(m) is what the rest of the handler makes of it: the new
\* state of the page, what it asks for, whether it shows what the backend never said, and
\* whether it goes to another page.  A handler goes to another page even when its own was
\* left long ago.
Llega(i, Recibir(_)) ==
    /\ i \in DOMAIN vuelta
    /\ LET r == Recibir(vuelta[i])
           viva == vuelta[i].q.viva
           resto == Sin(vuelta, i)
       IN \/ /\ ~r.va
             /\ vista' = IF viva THEN r.vista ELSE vista
             /\ ida' = ida \o (IF viva THEN r.pide ELSE Huerfanos(r.pide))
             /\ dudosa' = (dudosa \/ i # 1 \/ r.duda)
             /\ vuelta' = resto
          \/ /\ r.va
             /\ vista' = r.vista
             /\ ida' = Huerfanos(ida) \o r.pide
             /\ dudosa' = (ida # <<>> \/ resto # <<>>)
             /\ vuelta' = HuerfanasDe(resto)
    /\ UNCHANGED <<srv, toques>>

Queda(v) == [vista |-> v, pide |-> <<>>, duda |-> FALSE, va |-> FALSE]
Pide(v, pedidos) == [Queda(v) EXCEPT !.pide = pedidos]
Inventa(v) == [Queda(v) EXCEPT !.duda = TRUE]
LlevaA(v, pedidos) == [Pide(v, pedidos) EXCEPT !.va = TRUE]

PeticionesInit(v, pedidos) ==
    /\ vista = v
    /\ ida = pedidos
    /\ vuelta = <<>>
    /\ dudosa = FALSE
    /\ toques = 0
=============================================================================
