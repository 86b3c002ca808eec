--------------------------- MODULE MCProcessTable ---------------------------
(* Instances of ProcessTable for TLC. *)
EXTENDS ProcessTable

CONSTANT l1

InitAndThread == <<1, 2>>
QueuesOfTable == Locks \cup {wait_of(p) : p \in Tasks}
NoObject == <<>>
=============================================================================
