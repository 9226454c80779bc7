CONSTANTS
    f1 = f1
    i1 = i1
    w1 = w1
    w2 = w2
    a1 = a1
    a2 = a2
    SinFila = SinFila
    Cron = Cron
    Ventas <- MCUna
    Internas <- MCNadie
    Trabajadores <- MCUno
    Peticiones <- MCUnaPeticion
    Operacion <- MCDescargar
    CopiasTrabajo <- MCUnaCopia
    RespuestasAFIP <- MCTodas
    MaxReintentos = 2
    RedisResponde = TRUE
    FallaBD = FALSE
    PDFDentroDelPlazo = TRUE
    MaxCortes = 0
    CorteForzado = FALSE
SPECIFICATION Spec
PROPERTIES
    DescargaConservaCae
CHECK_DEADLOCK FALSE
