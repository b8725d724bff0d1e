----------------------------- MODULE MCCatalog -----------------------------
(* Instances of Catalog for TLC. *)
EXTENDS Catalog

MCBackends == Threads \cup {DBWriter}
Mixed == <<{"AccessShare", "ShareUpdateExclusive"}, {"AccessExclusive"}>>
Counts == <<2, 2>>
=============================================================================
