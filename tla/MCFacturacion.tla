--------------------------- MODULE MCFacturacion ---------------------------
(* Sales, workers and requests for Facturacion. *)
EXTENDS Facturacion, TLC

CONSTANTS f1, i1, w1, w2, a1, a2

MCUna == {f1}
MCConInterna == {f1, i1}
MCInterna == {i1}
MCUno == {w1}
MCAmbos == {w1, w2}
MCSimetria == Permutations(MCAmbos)

\* How many times one push may be stored.
MCUnaCopia == {1}
MCNingunaOUna == {0, 1}
MCHastaDos == {0, 1, 2}

\* What AFIP may answer.
MCTodas == Respuestas
MCAlgunas == {"aprobada", "fallo", "invalida"}

Sobre(tipo, v) == [tipo |-> tipo, venta |-> v]
MCNadie == {}
MCUnaPeticion == {a1}
MCDosPeticiones == {a1, a2}
MCCancelarReintentar ==
    [r \in MCDosPeticiones |-> IF r = a1 THEN Sobre("cancelar", f1) ELSE Sobre("reintentar", f1)]
MCAnular == [r \in MCUnaPeticion |-> Sobre("anular", f1)]
MCDescargar == [r \in MCUnaPeticion |-> Sobre("pdf", f1)]
=============================================================================
