---------------------------- MODULE MCSnapshotStore ----------------------------
(* Small instances of SnapshotStore, with its properties.                  *)
EXTENDS SnapshotProperties, TLC

MCMigrate == [v \in Values |-> Default]
MCKeep == [v \in Values |-> v]
===============================================================================
