----------------------------- MODULE MCKernel -----------------------------
(* Instances of NonPreemptiveKernel for TLC. *)
EXTENDS NonPreemptiveKernel

CONSTANTS l, m
=============================================================================
