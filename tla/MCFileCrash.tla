--------------------------- MODULE MCFileCrash ---------------------------
(* An instance of FileCrash for TLC. *)
EXTENDS FileCrash

CONSTANTS a, b, x0, x1

OnePath     == {<<a>>}
SomeExtents == {<<0, 2>>, <<0, 9>>}
=============================================================================
