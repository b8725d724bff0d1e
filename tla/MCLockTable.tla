---------------------------- MODULE MCLockTable ----------------------------
(* Instances of LockTable for TLC. *)
EXTENDS LockTable

Mixed == <<{"AccessShare", "AccessExclusive"}, {"AccessShare", "AccessExclusive"},
          {"RowExclusive"}>>
Readers == <<{"AccessShare"}, {"AccessExclusive"}, {"AccessShare"}>>
=============================================================================
