------------------------------- MODULE Sesion -------------------------------
(***************************************************************************)
(* Who is using the program: store/useAuthStore.ts, store/tokenStore.ts,   *)
(* the renewal of the tokens in api/client.ts, pages/admin/LoginPage.tsx,  *)
(* components/auth/ProtectedRoute.tsx, and service/auth_service.go.        *)
(*                                                                         *)
(* A pair of tokens is a number: the access token lives in memory and is   *)
(* lost when the browser is reloaded, the refresh token and the user are   *)
(* kept.  A refresh token is good for one renewal.  An orphaned request is *)
(* one that a page loaded before sent: nobody hears its answer.            *)
(***************************************************************************)
EXTENDS Peticiones

SinTokens(v) == [v EXCEPT !.acceso = Nadie, !.refresco = Nadie, !.timer = FALSE]
ConPar(v, par) == [v EXCEPT !.acceso = par, !.refresco = par, !.timer = TRUE]
Fuera(v) == [SinTokens(v) EXCEPT !.usuario = FALSE]

\* What a page that has just been loaded knows.
Cargada(usuario, refresco) ==
    [usuario |-> usuario, acceso |-> Nadie, refresco |-> refresco, timer |-> FALSE,
     cambia |-> FALSE, ingresando |-> FALSE, error |-> FALSE,
     renovando |-> FALSE, esperan |-> <<>>, iniciando |-> FALSE]

\* initAuth: a user that is remembered is asked for again, with the refresh token that is
\* left, or forgotten without one.
Arrancar(v) ==
    IF ~v.usuario THEN Cargada(FALSE, v.refresco)
    ELSE IF v.refresco = Nadie THEN Fuera(Cargada(TRUE, Nadie))
    ELSE [Cargada(TRUE, v.refresco) EXCEPT !.iniciando = TRUE]
Restaurar(v) ==
    IF v.usuario /\ v.refresco # Nadie THEN <<Pedido("restaurar", v.refresco, Nada)>> ELSE <<>>

\* Only who is known, and has a password of its own, gets past the login.
EnLogin(v) == ~v.usuario \/ v.cambia

----------------------------------------------------------------------------
(* The backend                                                             *)

NoAutorizado(s) == [Rechaza(s) EXCEPT !.datos = [caduco |-> TRUE]]
Vale(s, q) == q.id # Nadie /\ q.id \notin s.caducos
Emitir(s) ==
    LET par == s.ultimo + 1
    IN  Acepta([s EXCEPT !.ultimo = par], [par |-> par, cambia |-> s.debe])

Renovar(s, q) ==
    IF q.id \in s.gastados THEN NoAutorizado(s)
    ELSE Emitir([s EXCEPT !.gastados = @ \cup {q.id}])

Servidor(s, q) ==
    IF q.op \in {"datos", "salir", "clave"} /\ ~Vale(s, q) THEN NoAutorizado(s)
    ELSE
    CASE q.op = "entrar" -> IF q.datos.buena THEN Emitir(s) ELSE NoAutorizado(s)
      [] q.op \in {"refrescar", "restaurar"} -> Renovar(s, q)
      [] q.op = "datos" -> Acepta(s, Nada)
      [] q.op = "salir" -> Acepta([s EXCEPT !.caducos = @ \cup {q.id}], Nada)
      [] q.op = "clave" -> Acepta([s EXCEPT !.debe = FALSE], Nada)

\* Time passes: an access token expires, or both of a pair.
Vence ==
    /\ Gasta
    /\ \E par \in 1..srv.ultimo, todo \in BOOLEAN :
          srv' = [srv EXCEPT !.caducos = @ \cup {par},
                             !.gastados = IF todo THEN @ \cup {par} ELSE @]
    /\ UNCHANGED <<vista, ida, vuelta, dudosa>>

----------------------------------------------------------------------------
(* Every request carries the access token of the moment it is sent.        *)

Con(v, op, datos) == Pedido(op, v.acceso, datos)

\* The two forms of the login.
FormEntrada == ~vista.usuario
FormClave == vista.usuario /\ vista.cambia

Entrar ==
    /\ FormEntrada /\ ~vista.ingresando
    /\ \E buena \in BOOLEAN :
          LET v == [vista EXCEPT !.ingresando = TRUE, !.error = FALSE]
          IN  Toque(v, <<Con(v, "entrar", [buena |-> buena])>>)

CambiarClave ==
    /\ FormClave /\ ~vista.ingresando
    /\ LET v == [vista EXCEPT !.ingresando = TRUE, !.error = FALSE]
       IN  Toque(v, <<Con(v, "clave", Nada)>>)

\* Any page asks for what it shows.
Pedir == ~EnLogin(vista) /\ Toque(vista, <<Con(vista, "datos", Nada)>>)

\* Without an access token there is nothing to tell the backend.
Salir ==
    /\ ~EnLogin(vista)
    /\ IF vista.acceso = Nadie THEN Toque(Fuera(vista), <<>>)
       ELSE Toque(vista, <<Con(vista, "salir", Nada)>>)

\* A renewal that begins while the user is leaving may end after: it leaves the tokens of
\* nobody.  Of the requests to leave that are on their way, so many are left out.
Saliendo(salvo) == EnVuelo({"salir"}) > salvo

\* The timer renews before the access token expires.
Temporizador ==
    /\ vista.timer
    /\ LET v == [vista EXCEPT !.timer = FALSE]
           renueva == ~vista.renovando /\ vista.refresco # Nadie
           pedidos == IF renueva THEN <<Pedido("refrescar", vista.refresco, Nada)>> ELSE <<>>
       IN  IF Saliendo(0) THEN Tropiezo([v EXCEPT !.renovando = @ \/ renueva], pedidos)
           ELSE Toque([v EXCEPT !.renovando = @ \/ renueva], pedidos)

\* The browser is reloaded.
Reabrir ==
    /\ Gasta
    /\ HayLugar(Restaurar(vista))
    /\ vista' = Arrancar(vista)
    /\ ida' = Huerfanos(ida) \o Restaurar(vista)
    /\ vuelta' = HuerfanasDe(vuelta)
    /\ dudosa' = (dudosa \/ ~EnReposo)
    /\ UNCHANGED srv

----------------------------------------------------------------------------
(* The answers                                                             *)

\* What the handler of a request does with its answer.
Fin(v, q, ok, datos) ==
    CASE q.op = "entrar" ->
           IF ok THEN [ConPar(v, datos.par) EXCEPT !.usuario = TRUE, !.cambia = datos.cambia,
                                                   !.ingresando = FALSE]
           ELSE [v EXCEPT !.ingresando = FALSE, !.error = TRUE]
      [] q.op = "clave" -> [v EXCEPT !.ingresando = FALSE, !.error = ~ok, !.cambia = @ /\ ~ok]
      [] q.op = "salir" -> [Fuera(v) EXCEPT !.cambia = FALSE]
      [] q.op = "datos" -> v

\* The handlers of the requests qs, one after another, each with a failure: it comes to the
\* same in any order.
Fallan(v, qs) ==
    LET Hay(ops) == \E i \in DOMAIN qs : qs[i].op \in ops
        w == IF Hay({"salir"}) THEN [Fuera(v) EXCEPT !.cambia = FALSE] ELSE v
    IN  IF Hay({"entrar", "clave"}) THEN [w EXCEPT !.ingresando = FALSE, !.error = TRUE] ELSE w

\* Nothing more can be tried for the requests qs: the tokens are thrown away, and the page
\* is loaded again at the login, unless it is there.
Expulsar(v, qs) ==
    IF EnLogin(v) THEN Queda(Fallan(SinTokens(v), qs))
    ELSE LET w == SinTokens(v) IN LlevaA(Arrancar(w), Restaurar(w))

\* Only one renewal is asked for at a time: who finds one on its way waits for it.
Caduca(v, q) ==
    IF q.id = Nadie THEN Queda(Fin(v, q, FALSE, Nada))
    ELSE IF q.tras = "reintento" THEN Expulsar(v, <<q>>)
    ELSE IF v.renovando THEN Queda([v EXCEPT !.esperan = Append(@, q)])
    ELSE IF v.refresco = Nadie THEN Expulsar(v, <<q>>)
    ELSE [Pide([v EXCEPT !.renovando = TRUE, !.esperan = <<q>>],
               <<Pedido("refrescar", v.refresco, Nada)>>)
          EXCEPT !.duda = Saliendo(IF q.op = "salir" THEN 1 ELSE 0)]

\* Those that waited are asked again, once.
Reintentar(v) ==
    [i \in DOMAIN v.esperan |-> Tras(Con(v, v.esperan[i].op, v.esperan[i].datos), "reintento")]

\* A renewal that failed and still seems to be on its way.
RenovadoSinCerrar(m) ==
    IF m.ok THEN Pide([ConPar(vista, m.datos.par) EXCEPT !.renovando = FALSE, !.esperan = <<>>],
                      Reintentar(ConPar(vista, m.datos.par)))
    ELSE Queda(vista)

Renovado(m) ==
    LET v == [vista EXCEPT !.renovando = FALSE, !.esperan = <<>>]
        w == ConPar(v, m.datos.par)
    IN  IF m.ok THEN Pide(w, Reintentar([w EXCEPT !.esperan = vista.esperan]))
        ELSE IF vista.esperan = <<>> THEN Queda(v)
        ELSE Expulsar(v, vista.esperan)

Restaurado(m) ==
    LET v == [vista EXCEPT !.iniciando = FALSE]
    IN  Queda(IF m.ok THEN [ConPar(v, m.datos.par) EXCEPT !.usuario = TRUE] ELSE Fuera(v))

\* The password is changed, but the tokens were thrown away meanwhile: the user goes on with none.
SinNada(m) == m.q.op = "clave" /\ m.ok /\ vista.acceso = Nadie

Recibir(m) ==
    IF ~m.q.viva THEN Queda(vista)
    ELSE CASE m.q.op = "refrescar" -> Renovado(m)
           [] m.q.op = "restaurar" -> Restaurado(m)
           [] OTHER -> IF ~m.ok /\ m.datos # Nada THEN Caduca(vista, m.q)
                       ELSE [Queda(Fin(vista, m.q, m.ok, m.datos)) EXCEPT !.duda = SinNada(m)]

VistaInicial == Cargada(FALSE, Nadie)

Init ==
    /\ PeticionesInit(VistaInicial, <<>>)
    /\ srv \in [ultimo : {0}, gastados : {{}}, caducos : {{}}, debe : BOOLEAN]

Responde(i) == Atiende(i, Servidor)
Recibe(i) == Llega(i, Recibir)

Next ==
    \/ Entrar \/ CambiarClave \/ Pedir \/ Salir \/ Temporizador \/ Vence \/ Reabrir
    \/ \E i \in DOMAIN ida : Responde(i)
    \/ \E i \in DOMAIN vuelta : Recibe(i)

\* Who is known can go on being known, with the last pair, whole; nobody leaves no tokens.
\* A password that could not be changed keeps its form without them.
Mostrado ==
    IF vista.usuario
    THEN vista.cambia \/ (vista.acceso = srv.ultimo /\ vista.refresco = srv.ultimo)
    ELSE vista.acceso = Nadie /\ vista.refresco = Nadie /\ ~vista.timer

\* A page does not ask twice at a time for a new pair of tokens.
Guardados == {{"refrescar"}, {"restaurar"}, {"entrar", "clave"}}
Ocupada == vista.ingresando \/ vista.renovando \/ vista.esperan # <<>> \/ vista.iniciando
=============================================================================
