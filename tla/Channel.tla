------------------------------- MODULE Channel -------------------------------
(***************************************************************************)
(* What a set of message boxes promises: each is a FIFO channel that holds *)
(* at most MAX_MBOX_LENGTH messages and starts anew when its last user     *)
(* leaves.                                                                 *)
(***************************************************************************)
EXTENDS Naturals, Sequences

CONSTANTS Boxes, Msgs, NoMsg, MAX_MBOX_LENGTH

VARIABLES
    chan,       \* the messages in each box, oldest first
    got         \* the message that was received last, by any client

chanVars == <<chan, got>>

Put(b, msg) ==
    /\ Len(chan[b]) < MAX_MBOX_LENGTH
    /\ chan' = [chan EXCEPT ![b] = Append(@, msg)]
    /\ UNCHANGED got

Get(b) ==
    /\ chan[b] # <<>>
    /\ got' = Head(chan[b])
    /\ chan' = [chan EXCEPT ![b] = Tail(@)]

Reset(b) == chan' = [chan EXCEPT ![b] = <<>>] /\ UNCHANGED got

ChanInit ==
    /\ chan = [b \in Boxes |-> <<>>]
    /\ got = NoMsg

ChanNext ==
    \E b \in Boxes :
        \/ \E msg \in Msgs : Put(b, msg)
        \/ Get(b)
        \/ Reset(b)

ChanSpec == ChanInit /\ [][ChanNext]_chanVars
=============================================================================
