CONSTANTS
    c1 = c1
    c2 = c2
    Ventas <- MCVentas
    Antiguas <- MCAntiguas
    Llamadas <- MCLlamadas
    Recuperan <- MCUna
    Arranque = c1
    TamLote = 2
    MaxIntentos = 2
    MaxPercances = 1
SPECIFICATION Spec
INVARIANTS
    TypeOK
    SoloSePierdeTrasRechazos
    IntentosJustificados
PROPERTY EntregaSpec
CHECK_DEADLOCK FALSE
