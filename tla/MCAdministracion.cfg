CONSTANTS
    Nada = Nada
    MaxToques = 5
    MaxVuelo = 2
    Nombres = {a, b}
    Articulos = {1, 2}
    Promocionables = {1}
    Elegidos = {1}
    MaxGrupos = 2
    Archivos = {x, y}
    Vacios = {y}
    Bulto = 1
    Unidad = 2
    Cantidades = {1}
    Minimo = 0
    Descuentos = {10, 20}
    DeHoy = {1}
    DeAntes = {2}
    Documentadas = {1}
    Renglones <- MCRenglones
    MaxRenglones = 1
    Montos = {0, 100}
    Fondos = {0, 1}
    Conteos = {0, 1}
SPECIFICATION Spec
INVARIANTS
    AlDia
    UnaALaVez
    NuncaMiente
    CajaCuadra
PROPERTIES
    NadaCargaParaSiempre
CHECK_DEADLOCK FALSE
