-------------------------- MODULE MCStorageService --------------------------
(* One book task, short queues and a few card changes for TLC.             *)
EXTENDS StorageService, TLC

CONSTANT index
=============================================================================
