CONSTANTS
    f1 = f1
    i1 = i1
    w1 = w1
    w2 = w2
    a1 = a1
    a2 = a2
    SinFila = SinFila
    Cron = Cron
    Ventas <- MCConInterna
    Internas <- MCInterna
    Trabajadores <- MCAmbos
    Peticiones <- MCUnaPeticion
    Operacion <- MCAnular
    CopiasTrabajo <- MCNingunaOUna
    RespuestasAFIP <- MCTodas
    MaxReintentos = 2
    RedisResponde = TRUE
    FallaBD = TRUE
    PDFDentroDelPlazo = TRUE
    MaxCortes = 1
    CorteForzado = TRUE
SYMMETRY MCSimetria
SPECIFICATION Spec
INVARIANTS
    TypeOK
    UnaLlamadaPorVenta
PROPERTIES
    CaeEsPermanente
CHECK_DEADLOCK FALSE
