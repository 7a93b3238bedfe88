---------------------- MODULE MCSnapshotPersistence ----------------------
(* Small instances of SnapshotPersistence for TLC. *)
EXTENDS SnapshotPersistence

CONSTANTS r1, r2, d1, d2
=============================================================================
