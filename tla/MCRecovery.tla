------------------------------ MODULE MCRecovery -------------------------------
(* Small instances of Recovery: a module of each durability.               *)
EXTENDS Recovery

CONSTANTS ram, qmdb, duckfs     \* in memory; on disk; on disk with a cursor
CONSTANTS all, pair, bad        \* batches

ModuleOrder == <<duckfs, qmdb, ram>>
BatchWrites == (all :> {ram, qmdb, duckfs}) @@ (pair :> {ram, duckfs}) @@ (bad :> {})
================================================================================
