----------------------------- MODULE MCTerminal -----------------------------
(***************************************************************************)
(* The till with two products.  The promotions are an amount off a pair of *)
(* different products; the pair at a fixed price; and a percentage off it   *)
(* next to an amount off two units of a group that holds both.  Every      *)
(* price and amount divides exactly.                                       *)
(***************************************************************************)
EXTENDS Terminal, TLC

MCPrecio == "pan" :> 8 @@ "leche" :> 8
MCExistencias == "pan" :> 2 @@ "leche" :> 1

Par(tipo, valor) ==
    [activa |-> TRUE, modo |-> "clasico", tipo |-> tipo, valor |-> valor,
     cantidad |-> 1, productos |-> <<"pan", "leche">>, grupos |-> <<>>]

DosDelGrupo ==
    [activa |-> TRUE, modo |-> "grupos", tipo |-> "monto_fijo", valor |-> 4,
     cantidad |-> 1, productos |-> <<>>,
     grupos |-> <<[prods |-> {"pan", "leche"}, cantidad |-> 2]>>]

MCPromos == {<<Par("monto_fijo", 4)>>, <<Par("precio_fijo_combo", 12)>>,
             <<Par("porcentaje", 50), DosDelGrupo>>}
=============================================================================
