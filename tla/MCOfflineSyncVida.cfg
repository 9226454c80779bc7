CONSTANTS
    c1 = c1
    c2 = c2
    Ventas <- MCVentas
    Antiguas <- MCAntiguas
    Llamadas <- MCUna
    Recuperan <- MCUna
    Arranque = c1
    TamLote = 2
    MaxIntentos = 3
    MaxPercances = 2
SPECIFICATION FairSpec
PROPERTIES
    TodaVentaLlega
CHECK_DEADLOCK FALSE
