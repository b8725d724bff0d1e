------------------------------ MODULE MCIdGen ------------------------------
(* Instances of IdGen: two backends, prefetches of one to three ids.       *)
EXTENDS IdGen, TLC

MCStartPrefetch == [k \in Kinds |-> IF k = "xid" THEN 1 ELSE 2]
MCRunPrefetch   == [k \in Kinds |-> IF k = "xid" THEN 2 ELSE 3]
Symmetry == Permutations(Threads)
=============================================================================
