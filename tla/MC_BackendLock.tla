---------------------------- MODULE MC_BackendLock ----------------------------
(* A small instance of BackendLock: its configuration gives all the values. *)
EXTENDS BackendLock
===============================================================================
