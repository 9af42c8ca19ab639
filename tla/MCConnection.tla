------------------------------ MODULE MCConnection ------------------------------
(* Small instances of Connection: see the configurations MCConnection*.cfg. *)
EXTENDS Connection
===============================================================================
