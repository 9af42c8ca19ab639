------------------------------- MODULE MCDesktop -------------------------------
(* Small instances of Desktop: see the configurations MCDesktop*.cfg. *)
EXTENDS Desktop
================================================================================
