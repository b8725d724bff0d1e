--------------------------- MODULE MCGroupCommit ---------------------------
(* Instances of GroupCommit: two transactions over two pages, one of which *)
(* both change.                                                            *)
EXTENDS GroupCommit, TLC

CONSTANTS x1, x2

MCXids == {x1, x2}
\* x1 changes both pages, x2 shares page 1 with it.
MCWrites == x1 :> {1, 2} @@ x2 :> {1}
\* x1 ends in any way, x2 in any way but softly.
MCTypes == x1 :> {"careful", "synced", "soft", "abort"} @@
           x2 :> {"careful", "synced", "abort"}
MCCareful == [x \in MCXids |-> {"careful"}]
\* Only x1 changes a data page.
MCReader == x1 :> {1} @@ x2 :> {}
=============================================================================
