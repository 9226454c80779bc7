SPECIFICATION Spec
CONSTANTS
    Productos = {"pan", "leche"}
    Precio <- MCPrecio
    Escala = 12
    Existencias <- MCExistencias
    Promos <- MCPromos
    Descuentos = {0, 50}
    Montos = {8}
    Limite = 50
    MaxEsperas = 2
    MaxCant = 2
    MaxVentas = 2
    MaxTicket = 1
    MaxToques = 6
INVARIANTS
    TypeOK
    TicketsDistintos
    NuncaMasQueElStock
    VueltoCorrecto
    AhorroJusto
    TablaYTotal
CHECK_DEADLOCK FALSE
