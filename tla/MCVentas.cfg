CONSTANTS
    botella = botella
    pack = pack
    o1 = o1
    o2 = o2
    Nada = Nada
    Productos <- MCProductos
    OfflineIds <- MCOfflineIds
    Vinculo <- MCVinculo
    StockInicial <- MCStock
    Peticiones <- MCPeticiones
    Cargas <- MCCargas
SPECIFICATION FairSpec
INVARIANTS
    TypeOK
    UnidadesConservadas
    CajaSigueAVentas
    OfflineUnaVez
    MovimientosConCandadoExactos
PROPERTIES
    EnLineaNuncaSobrevende
    TodasTerminan
