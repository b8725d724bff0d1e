---------------------------- MODULE MCSnapshot ----------------------------
(* Instances of Snapshot for TLC. *)
EXTENDS Snapshot

\* The second writer runs two commands and takes a snapshot for each.
MCCommands == <<1, 2, 1>>
OneEach == <<1, 1, 1>>
=============================================================================
