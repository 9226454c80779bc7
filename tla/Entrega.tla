------------------------------- MODULE Entrega -------------------------------
(***************************************************************************)
(* What the till promises to the shop: store and forward.  A sale is kept  *)
(* from the moment it is made, it is recorded at most once, and it stops   *)
(* waiting only when the server has it or has refused it MaxIntentos       *)
(* times.  OfflineSync implements this with a queue, overlapping calls,    *)
(* stale copies and a network that fails.                                  *)
(***************************************************************************)
EXTENDS Naturals

CONSTANTS Ventas, MaxIntentos

VARIABLES
    hechas,      \* sales that were made
    pendientes,  \* those that wait to be sent
    entregadas,  \* those the server recorded
    rechazos     \* answers that refused them, up to MaxIntentos

vars == <<hechas, pendientes, entregadas, rechazos>>

Init ==
    /\ hechas \subseteq Ventas
    /\ pendientes = {}
    /\ entregadas = {}
    /\ rechazos = [v \in Ventas |-> 0]

\* The sale waits as soon as it exists.
Vender(v) ==
    /\ v \notin hechas
    /\ hechas' = hechas \cup {v}
    /\ pendientes' = pendientes \cup {v}
    /\ UNCHANGED <<entregadas, rechazos>>

\* Only sales that were made are recorded, each of them once.
Registrar(v) ==
    /\ v \in hechas \ entregadas
    /\ entregadas' = entregadas \cup {v}
    /\ UNCHANGED <<hechas, pendientes, rechazos>>

\* The till puts what waits in order, after an answer that refused the sales of
\* S or on its own (S empty): it may send any sale again, and may drop one only
\* when the server has it or has refused it MaxIntentos times.
Ordenar(S) ==
    /\ rechazos' = [v \in Ventas |-> IF v \in S /\ rechazos[v] < MaxIntentos
                                     THEN rechazos[v] + 1 ELSE rechazos[v]]
    /\ pendientes' \in SUBSET hechas
    /\ \A v \in pendientes \ pendientes' : v \in entregadas \/ rechazos'[v] = MaxIntentos
    /\ UNCHANGED <<hechas, entregadas>>

Next ==
    \/ \E v \in Ventas : Vender(v) \/ Registrar(v)
    \/ \E S \in SUBSET hechas : Ordenar(S)

Spec == Init /\ [][Next]_vars
=============================================================================
