------------------------------ MODULE MCMailBox ------------------------------
(* Instances of MailBox for TLC. *)
EXTENDS MailBox, TLC

CONSTANTS clk, p1, p2, m1, m2

OrderAll == SelectSeq(<<p1, clk, p2>>, LAMBDA t : t \in Tasks)
QueuesOfBoxes == UNION {BoxSemaphores(b) : b \in Boxes}
ValuesOfBoxes == [s \in QueuesOfBoxes |-> initial_value(s)]
NoObject == <<>>
ShortAndLong == {<<"a">>, <<"b", "b">>}
=============================================================================
