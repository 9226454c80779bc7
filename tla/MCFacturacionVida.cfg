CONSTANTS
    f1 = f1
    i1 = i1
    w1 = w1
    w2 = w2
    a1 = a1
    a2 = a2
    SinFila = SinFila
    Cron = Cron
    Ventas <- MCUna
    Internas <- MCNadie
    Trabajadores <- MCAmbos
    Peticiones <- MCDosPeticiones
    Operacion <- MCCancelarReintentar
    CopiasTrabajo <- MCHastaDos
    RespuestasAFIP <- MCAlgunas
    MaxReintentos = 2
    RedisResponde = FALSE
    FallaBD = FALSE
    PDFDentroDelPlazo = TRUE
    MaxCortes = 0
    CorteForzado = FALSE
SPECIFICATION FairSpec
INVARIANTS
    EmitidoSiTieneCae
    PendienteTieneIntentos
PROPERTIES
    TodaVentaSeResuelve
CHECK_DEADLOCK FALSE
