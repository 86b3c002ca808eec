---------------------------- MODULE MCLinkedQueue ----------------------------
(* Two lists and four tasks for TLC. *)
EXTENDS LinkedQueue
=============================================================================
