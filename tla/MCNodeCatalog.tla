--------------------------- MODULE MCNodeCatalog ---------------------------
(* NodeCatalog on a small instance: one location next to the default       *)
(* catalog, two addresses that may change places or leave, two countries.  *)
EXTENDS NodeCatalog

HomeCountry == CHOOSE c \in Countries : TRUE
BothAddresses == CHOOSE r \in Rankings : Len(r) = MaxNodes
=============================================================================
