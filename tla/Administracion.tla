--------------------------- MODULE Administracion ---------------------------
(***************************************************************************)
(* The pages of the back office, the till and the session of the user,     *)
(* each with the part of the backend it works on: App.tsx routes to one    *)
(* page at a time, and what a page leaves on its way when it is left is in *)
(* its own module.  A behaviour is that of one page; what they promise is  *)
(* stated once, for all of them.                                           *)
(***************************************************************************)
EXTENDS Peticiones

CONSTANTS
    Nombres,        \* names that pass the validation of the forms
    Articulos,      \* the products of the price lists
    Promocionables, \* those of the promotions
    Elegidos,       \* what a group of a promotion can ask for
    MaxGrupos,      \* bound: groups of a promotion
    Archivos,       \* files of a supplier
    Vacios,         \* those of them without a row of data
    Bulto, Unidad,  \* two products: a pack, and what it holds
    Cantidades,     \* quantities of an adjustment of the stock
    Minimo,         \* stock at or below which a product is short
    Descuentos,     \* discounts of a price list
    DeHoy,          \* the sales of today
    DeAntes,        \* those of other days
    Documentadas,   \* those with a comprobante
    Renglones,      \* rows of a purchase
    MaxRenglones,   \* bound: rows of a purchase
    Montos,         \* amounts of its payments
    Fondos,         \* cash a till can start with
    Conteos         \* cash that can be counted in it

ASSUME AdministracionConstantes == Fondos \subseteq Nat /\ Conteos \subseteq Nat

VARIABLE pagina     \* the page

Rutas == {"categorias", "usuarios", "proveedores", "productos", "inventario", "listas",
          "promociones", "historial", "compras", "caja", "sesion"}

Categorias == INSTANCE Categorias
Usuarios == INSTANCE Usuarios
Proveedores == INSTANCE Proveedores WITH Cuits <- Nombres
Productos == INSTANCE Productos
Inventario == INSTANCE Inventario WITH MaxToques <- MaxToques - 1
Listas == INSTANCE Listas
Promociones == INSTANCE PromocionesAdmin WITH Articulos <- Promocionables
Historial == INSTANCE Historial WITH MaxToques <- MaxToques - 1
Compras == INSTANCE Compras WITH MaxToques <- MaxToques - 1
Caja == INSTANCE Caja
Sesion == INSTANCE Sesion

Init ==
    /\ pagina \in Rutas
    /\ \/ pagina = "categorias" /\ Categorias!Init
       \/ pagina = "usuarios" /\ Usuarios!Init
       \/ pagina = "proveedores" /\ Proveedores!Init
       \/ pagina = "productos" /\ Productos!Init
       \/ pagina = "inventario" /\ Inventario!Init
       \/ pagina = "listas" /\ Listas!Init
       \/ pagina = "promociones" /\ Promociones!Init
       \/ pagina = "historial" /\ Historial!Init
       \/ pagina = "compras" /\ Compras!Init
       \/ pagina = "caja" /\ Caja!Init
       \/ pagina = "sesion" /\ Sesion!Init

EnPagina ==
    \/ pagina = "categorias" /\ Categorias!Next
    \/ pagina = "usuarios" /\ Usuarios!Next
    \/ pagina = "proveedores" /\ Proveedores!Next
    \/ pagina = "productos" /\ Productos!Next
    \/ pagina = "inventario" /\ Inventario!Next
    \/ pagina = "listas" /\ Listas!Next
    \/ pagina = "promociones" /\ Promociones!Next
    \/ pagina = "historial" /\ Historial!Next
    \/ pagina = "compras" /\ Compras!Next
    \/ pagina = "caja" /\ Caja!Next
    \/ pagina = "sesion" /\ Sesion!Next

Next == EnPagina /\ UNCHANGED pagina

\* The oldest request is taken in the end, and the oldest answer arrives.
Contesta ==
    \/ pagina = "categorias" /\ Categorias!Responde(1)
    \/ pagina = "usuarios" /\ Usuarios!Responde(1)
    \/ pagina = "proveedores" /\ Proveedores!Responde(1)
    \/ pagina = "productos" /\ Productos!Responde(1)
    \/ pagina = "inventario" /\ Inventario!Responde(1)
    \/ pagina = "listas" /\ Listas!Responde(1)
    \/ pagina = "promociones" /\ Promociones!Responde(1)
    \/ pagina = "historial" /\ Historial!Responde(1)
    \/ pagina = "compras" /\ Compras!Responde(1)
    \/ pagina = "caja" /\ Caja!Responde(1)
    \/ pagina = "sesion" /\ Sesion!Responde(1)

Escucha ==
    \/ pagina = "categorias" /\ Categorias!Recibe(1)
    \/ pagina = "usuarios" /\ Usuarios!Recibe(1)
    \/ pagina = "proveedores" /\ Proveedores!Recibe(1)
    \/ pagina = "productos" /\ Productos!Recibe(1)
    \/ pagina = "inventario" /\ Inventario!Recibe(1)
    \/ pagina = "listas" /\ Listas!Recibe(1)
    \/ pagina = "promociones" /\ Promociones!Recibe(1)
    \/ pagina = "historial" /\ Historial!Recibe(1)
    \/ pagina = "compras" /\ Compras!Recibe(1)
    \/ pagina = "caja" /\ Caja!Recibe(1)
    \/ pagina = "sesion" /\ Sesion!Recibe(1)

\* fetch settles: a request is answered, or refused when the network is down.
Fairness ==
    /\ WF_<<vars, pagina>>(Contesta /\ UNCHANGED pagina)
    /\ WF_<<vars, pagina>>(Escucha /\ UNCHANGED pagina)

Spec == Init /\ [][Next]_<<vars, pagina>> /\ Fairness

----------------------------------------------------------------------------

Mostrado ==
    CASE pagina = "categorias" -> Categorias!Mostrado
      [] pagina = "usuarios" -> Usuarios!Mostrado
      [] pagina = "proveedores" -> Proveedores!Mostrado
      [] pagina = "productos" -> Productos!Mostrado
      [] pagina = "inventario" -> Inventario!Mostrado
      [] pagina = "listas" -> Listas!Mostrado
      [] pagina = "promociones" -> Promociones!Mostrado
      [] pagina = "historial" -> Historial!Mostrado
      [] pagina = "compras" -> Compras!Mostrado
      [] pagina = "caja" -> Caja!Mostrado
      [] pagina = "sesion" -> Sesion!Mostrado

Guardados ==
    CASE pagina = "categorias" -> Categorias!Guardados
      [] pagina = "usuarios" -> Usuarios!Guardados
      [] pagina = "proveedores" -> Proveedores!Guardados
      [] pagina = "productos" -> Productos!Guardados
      [] pagina = "inventario" -> Inventario!Guardados
      [] pagina = "listas" -> Listas!Guardados
      [] pagina = "promociones" -> Promociones!Guardados
      [] pagina = "historial" -> Historial!Guardados
      [] pagina = "compras" -> Compras!Guardados
      [] pagina = "caja" -> Caja!Guardados
      [] pagina = "sesion" -> Sesion!Guardados

Ocupada ==
    CASE pagina = "categorias" -> Categorias!Ocupada
      [] pagina = "usuarios" -> Usuarios!Ocupada
      [] pagina = "proveedores" -> Proveedores!Ocupada
      [] pagina = "productos" -> Productos!Ocupada
      [] pagina = "inventario" -> Inventario!Ocupada
      [] pagina = "listas" -> Listas!Ocupada
      [] pagina = "promociones" -> Promociones!Ocupada
      [] pagina = "historial" -> Historial!Ocupada
      [] pagina = "compras" -> Compras!Ocupada
      [] pagina = "caja" -> Caja!Ocupada
      [] pagina = "sesion" -> Sesion!Ocupada

(* What a page shows, with nothing on its way and no reason for doubt, is  *)
(* what the backend keeps: every handler that changes something reloads    *)
(* what the change touches, or makes the same change itself.  A reason for *)
(* doubt is a failed request or answers out of order, until everything is  *)
(* loaded again; and what each module says its page gets wrong by itself.  *)
AlDia == EnReposo /\ ~dudosa => Mostrado

(* A form whose button shows that it is being sent is not sent again, even *)
(* when its dialogue is closed and opened meanwhile: the flag stands for a *)
(* request in flight (loading of the submit buttons of the pages).         *)
UnaALaVez == UnaDeCada(Guardados)

(* The spinner of a page, the flag of a form and the requests that wait    *)
(* for new tokens do not stay for ever, whatever fails: every handler ends *)
(* in its finally, and a retry is not retried (api/client.ts:149-160).     *)
NadaCargaParaSiempre == Ocupada ~> ~Ocupada

(* At every moment, with anything on its way, a sale shown as annulled is  *)
(* annulled (handleAnular and the table of FacturacionPage.tsx).           *)
NuncaMiente == pagina = "historial" => Historial!NoMiente

(* A session counted rightly, on its report with all of its sales, is      *)
(* closed without a difference, whatever was paid without cash: the page   *)
(* declares that part itself (CierreCajaPage.tsx:81-103).                  *)
CajaCuadra == pagina = "caja" => Caja!CajaCuadra
=============================================================================
