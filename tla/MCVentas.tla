------------------------------ MODULE MCVentas ------------------------------
(* Workloads for Ventas: a bottle, and a pack that splits into two bottles. *)
EXTENDS Ventas

CONSTANTS botella, pack, o1, o2

MCProductos == {botella, pack}
MCOfflineIds == {o1, o2}
MCVinculo == [p \in {botella} |-> [padre |-> pack, upp |-> 2, auto |-> TRUE]]
MCStock == [p \in MCProductos |-> 1]

Venta(items) ==
    [tipo |-> "venta", items |-> items, sync |-> FALSE, offlineId |-> Nada]
Sync(items, id) ==
    [tipo |-> "venta", items |-> items, sync |-> TRUE, offlineId |-> id]
Anular(v) == [tipo |-> "anular", venta |-> v]
Ajuste(p, d) == [tipo |-> "ajuste", p |-> p, delta |-> d]
Desarme(n) == [tipo |-> "desarme", hijo |-> botella, padres |-> n]
Sobre(tipo, p) == [tipo |-> tipo, p |-> p]
De(p, n) == [p |-> p, n |-> n]

Carga(lista) ==
    [r \in 1..5 |-> IF r <= Len(lista) THEN lista[r] ELSE [tipo |-> "ninguna"]]

\* An on-line sale and its void against an offline sale that needs a split
\* and is sent twice.
Mixta == <<Venta(<<De(botella, 1)>>), Sync(<<De(botella, 2)>>, o1),
           Sync(<<De(botella, 2)>>, o1), Anular(1)>>

\* Lines in opposite orders, a manual split and an adjustment.
Cruzada == <<Venta(<<De(botella, 1), De(pack, 1)>>),
             Sync(<<De(pack, 1), De(botella, 2)>>, o2), Desarme(1), Ajuste(pack, 1)>>

\* Two on-line sales of the last pack while its product is edited, switched
\* off and on.
Catalogo == <<Venta(<<De(pack, 1)>>), Venta(<<De(pack, 1)>>), Sobre("editar", pack),
              Sobre("desactivar", pack), Sobre("reactivar", pack)>>

\* The till closes while the last bottles are sold on line and a sale that
\* would need a split is tried.
Cierre == <<Venta(<<De(botella, 1)>>), Venta(<<De(botella, 2)>>), Anular(1),
            [tipo |-> "cerrar"]>>

\* One bottle is left and the sale lists it twice, one unit each; it is voided.
Repetida == <<Venta(<<De(botella, 1), De(botella, 1)>>), Anular(1), Desarme(1)>>

\* Two bottles, one of them still in the pack.
ConDesarme == <<Venta(<<De(botella, 2)>>)>>

DobleAnulacion == <<Venta(<<De(botella, 1)>>), Anular(1), Anular(1)>>

MCPeticiones == 1..5
MCCargas == {Carga(Mixta), Carga(Cruzada), Carga(Catalogo), Carga(Cierre), Carga(Repetida)}
MCDobleAnulacion == {Carga(DobleAnulacion)}
MCConDesarme == {Carga(ConDesarme)}
=============================================================================
