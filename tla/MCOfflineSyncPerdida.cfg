CONSTANTS
    c1 = c1
    c2 = c2
    Ventas <- MCVentas
    Antiguas <- MCNinguna
    Llamadas <- MCUna
    Recuperan <- MCUna
    Arranque = c1
    TamLote = 2
    MaxIntentos = 3
    MaxPercances = 1
SPECIFICATION Spec
INVARIANTS
    NadaSePierde
CHECK_DEADLOCK FALSE
