-------------------------- MODULE MCAdministracion --------------------------
EXTENDS Administracion

\* A row of goods with VAT, and one that was not filled in.
MCRenglones == {[con |-> TRUE, neto |-> 100, iva |-> 21, dto |-> 0],
                [con |-> FALSE, neto |-> 0, iva |-> 0, dto |-> 0]}
=============================================================================
