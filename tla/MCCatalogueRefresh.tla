------------------------- MODULE MCCatalogueRefresh -------------------------
(* A small instance of CatalogueRefresh for TLC. *)
EXTENDS CatalogueRefresh, TLC

CONSTANTS s1, s2, p1, v1, v2

\* Both versions are of one package, in one pass or in two.
OnePackage == [v \in Versions |-> p1]
=============================================================================
