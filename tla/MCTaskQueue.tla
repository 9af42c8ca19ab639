----------------------------- MODULE MCTaskQueue ------------------------------
(* A small instance of TaskQueue: see the configurations MCTaskQueue*.cfg. *)
EXTENDS TaskQueue
===============================================================================
