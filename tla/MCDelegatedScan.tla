-------------------------- MODULE MCDelegatedScan --------------------------
(* An instance of DelegatedScan for model checking: the first helper scans a *)
(* relation that does not fit into one hand-over, the second one an empty    *)
(* one.                                                                      *)
EXTENDS DelegatedScan

MCNTuples == <<3, 0>>
=============================================================================
