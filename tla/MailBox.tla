------------------------------- MODULE MailBox -------------------------------
(***************************************************************************)
(* The message boxes of the preemptive kernel (P4 t3.0: mbox.c), bounded   *)
(* buffers on three semaphores each, used by processes through system      *)
(* calls.                                                                  *)
(*                                                                         *)
(* A call runs with interrupts masked, so the CPU leaves it only where a   *)
(* semaphore_down() blocks; where says how far a task is in its call.      *)
(*                                                                         *)
(* A name is a sequence of characters: do_mbox_open() copies it without    *)
(* its NUL, so what is left of a longer name that was there before counts. *)
(***************************************************************************)
EXTENDS Sync, FiniteSets

CONSTANTS
    MAX_MBOXEN, MAX_MBOX_LENGTH,
    Names,              \* what clients call their boxes: sequences, not empty
    Msgs,
    NoMsg,              \* what memory holds before any message
    MaxOpens            \* bound: no task has a box open more often

Boxes == 0..(MAX_MBOXEN - 1)
Slots == 0..(MAX_MBOX_LENGTH - 1)
Clients == Tasks \ Threads

used(b) == <<"used", b>>
not_used(b) == <<"not_used", b>>
mutex(b) == <<"mutex", b>>
BoxSemaphores(b) == {used(b), not_used(b), mutex(b)}

\* What init_one_mbox() sets the semaphores to.
initial_value(s) ==
    IF s[1] = "used" THEN 0
    ELSE IF s[1] = "not_used" THEN MAX_MBOX_LENGTH
    ELSE 1

ASSUME MailBoxAssumption ==
    /\ IsFiniteSet(Tasks)
    /\ MAX_MBOXEN \in Nat \ {0} /\ MAX_MBOX_LENGTH \in Nat \ {0}
    /\ Semaphores = UNION {BoxSemaphores(b) : b \in Boxes}
    /\ SemInit = [s \in Semaphores |-> initial_value(s)]
    /\ \A n \in Names : n # <<>> /\ n \in Seq({n[i] : i \in DOMAIN n})
    /\ NoMsg \notin Msgs
    /\ MaxOpens \in Nat \ {0}

VARIABLES
    named,          \* whether name[0] of the box is not NUL
    name,           \* the characters of name, from there to the first NUL
                    \* behind them
    user_number,
    box,            \* the messages in the slots
    write_index, read_index,
    boxes,          \* pcb->boxes: what each task has opened, one flag a box
    where,          \* how far each task is in its system call
    arg,            \* the box it calls with
    msg,            \* the message it sends
    got,            \* the message received last, by any task
    opened,         \* history: how often each task has opened each box and
                    \* not closed it
    in_flight       \* history: messages written and not read, oldest first

tableVars == <<named, name, user_number, boxes, opened>>
slotVars == <<box, write_index, read_index, in_flight>>
callVars == <<where, arg, msg, got>>
mboxVars == <<vars, tableVars, slotVars, callVars>>

Calls == {"user", "send_mutex", "send_write", "send_used",
          "recv_mutex", "recv_read", "recv_not_used"}

MailBoxTypeOK ==
    /\ SyncTypeOK
    /\ named \in [Boxes -> BOOLEAN]
    /\ user_number \in [Boxes -> Int]
    /\ box \in [Boxes -> [Slots -> Msgs \cup {NoMsg}]]
    /\ write_index \in [Boxes -> Slots] /\ read_index \in [Boxes -> Slots]
    /\ boxes \in [Clients -> SUBSET Boxes]
    /\ opened \in [Clients -> [Boxes -> 0..MaxOpens]]
    /\ where \in [Clients -> Calls]
    /\ arg \in [Clients -> Boxes]
    /\ msg \in [Clients -> Msgs \cup {NoMsg}]
    /\ got \in Msgs \cup {NoMsg}
    /\ in_flight \in [Boxes -> Seq(Msgs)]

\* init_mbox() in _start().
MailBoxInit ==
    /\ SyncInit
    /\ named = [b \in Boxes |-> FALSE]
    /\ name = [b \in Boxes |-> <<>>]
    /\ user_number = [b \in Boxes |-> 0]
    /\ box = [b \in Boxes |-> [i \in Slots |-> NoMsg]]
    /\ write_index = [b \in Boxes |-> 0]
    /\ read_index = [b \in Boxes |-> 0]
    /\ boxes = [t \in Clients |-> {}]
    /\ where = [t \in Clients |-> "user"]
    /\ arg = [t \in Clients |-> 0]
    /\ msg = [t \in Clients |-> NoMsg]
    /\ got = NoMsg
    /\ opened = [t \in Clients |-> [b \in Boxes |-> 0]]
    /\ in_flight = [b \in Boxes |-> <<>>]

-----------------------------------------------------------------------------
(***************************************************************************)
(* do_mbox_open() and do_mbox_close().                                     *)
(***************************************************************************)
InUser(t) == Running(t) /\ where[t] = "user"

\* same_string(name, MessageBoxen[b].name)
matches(b, n) == named[b] /\ name[b] = n

First(S, b) == b \in S /\ \A c \in S : b <= c

open_box(t, b) ==
    /\ opened[t][b] < MaxOpens
    /\ opened' = [opened EXCEPT ![t][b] = @ + 1]
    /\ boxes' = [boxes EXCEPT ![t] = @ \cup {b}]
    /\ user_number' = [user_number EXCEPT ![b] = @ + 1]

\* Faulty: a user who finds the box there is not counted.
open_existing_free(t, n) ==
    \E b \in Boxes :
        /\ First({c \in Boxes : matches(c, n)}, b)
        /\ opened[t][b] < MaxOpens
        /\ opened' = [opened EXCEPT ![t][b] = @ + 1]
        /\ boxes' = [boxes EXCEPT ![t] = @ \cup {b}]
        /\ UNCHANGED <<named, name, user_number>>

open_existing(t, n) ==
    \E b \in Boxes :
        /\ First({c \in Boxes : matches(c, n)}, b)
        /\ open_box(t, b)
        /\ UNCHANGED <<named, name>>

\* bcopy(name, MessageBoxen[b].name, strlen(name))
open_new(t, n) ==
    /\ \A c \in Boxes : ~matches(c, n)
    /\ \E b \in Boxes :
        /\ First({c \in Boxes : ~named[c]}, b)
        /\ open_box(t, b)
        /\ named' = [named EXCEPT ![b] = TRUE]
        /\ name' = [name EXCEPT ![b] = n \o SubSeq(@, Len(n) + 1, Len(@))]

\* The table is full: the function ends without a return, and the caller
\* finds whatever is in the register.  It has not opened what that names.
open_full(n) ==
    /\ \A c \in Boxes : named[c] /\ ~matches(c, n)
    /\ UNCHANGED tableVars

do_mbox_open(t, n) ==
    /\ InUser(t)
    /\ open_existing(t, n) \/ open_new(t, n) \/ open_full(n)
    /\ UNCHANGED <<vars, slotVars, callVars>>

\* Faulty: only one of the two indices is reset.
init_one_mbox_write(b) ==
    /\ sem_value' = [s \in Semaphores |->
                        IF s \in BoxSemaphores(b) THEN initial_value(s) ELSE sem_value[s]]
    /\ wait_queue' = [q \in Queues |->
                         IF q \in BoxSemaphores(b) THEN <<>> ELSE wait_queue[q]]
    /\ named' = [named EXCEPT ![b] = FALSE]
    /\ write_index' = [write_index EXCEPT ![b] = 0]
    /\ in_flight' = [in_flight EXCEPT ![b] = <<>>]
    /\ UNCHANGED read_index

init_one_mbox(b) ==
    /\ sem_value' = [s \in Semaphores |->
                        IF s \in BoxSemaphores(b) THEN initial_value(s) ELSE sem_value[s]]
    /\ wait_queue' = [q \in Queues |->
                         IF q \in BoxSemaphores(b) THEN <<>> ELSE wait_queue[q]]
    /\ named' = [named EXCEPT ![b] = FALSE]
    /\ write_index' = [write_index EXCEPT ![b] = 0]
    /\ read_index' = [read_index EXCEPT ![b] = 0]
    /\ in_flight' = [in_flight EXCEPT ![b] = <<>>]

\* Clients close as often as they open.  The flag goes with the first close.
do_mbox_close(t, b) ==
    /\ InUser(t)
    /\ opened[t][b] > 0
    /\ opened' = [opened EXCEPT ![t][b] = @ - 1]
    /\ user_number' = [user_number EXCEPT ![b] = @ - 1]
    /\ boxes' = [boxes EXCEPT ![t] = @ \ {b}]
    /\ IF user_number'[b] = 0
       THEN init_one_mbox(b)
       ELSE UNCHANGED <<sem_value, wait_queue, named, write_index, read_index, in_flight>>
    /\ UNCHANGED <<current_running, in_scheduler, status, ready_queue,
                   sleep_wait_queue, delay, lock_status, current_members,
                   acquiring, name, box, callVars>>

-----------------------------------------------------------------------------
(***************************************************************************)
(* do_mbox_send() and do_mbox_recv().                                      *)
(***************************************************************************)
\* t goes on in its call, from one semaphore to the next.
Step(t, from, to) ==
    /\ Running(t)
    /\ where[t] = from
    /\ where' = [where EXCEPT ![t] = to]

send_enter(t, b, m) ==
    /\ opened[t][b] > 0
    /\ Step(t, "user", "send_mutex")
    /\ arg' = [arg EXCEPT ![t] = b]
    /\ msg' = [msg EXCEPT ![t] = m]
    /\ semaphore_down(not_used(b))
    /\ UNCHANGED <<tableVars, slotVars, got>>

send_mutex(t) ==
    /\ Step(t, "send_mutex", "send_write")
    /\ semaphore_down(mutex(arg[t]))
    /\ UNCHANGED <<tableVars, slotVars, arg, msg, got>>

\* Faulty: the index wraps one slot late.
send_write_late(t) ==
    LET b == arg[t] IN
    /\ Step(t, "send_write", "send_used")
    /\ box' = [box EXCEPT ![b][write_index[b]] = msg[t]]
    /\ write_index' = [write_index EXCEPT ![b] = (@ + 1) % (MAX_MBOX_LENGTH + 1)]
    /\ in_flight' = [in_flight EXCEPT ![b] = Append(@, msg[t])]
    /\ semaphore_up(mutex(b))
    /\ UNCHANGED <<tableVars, read_index, arg, msg, got>>

send_write(t) ==
    LET b == arg[t] IN
    /\ Step(t, "send_write", "send_used")
    /\ box' = [box EXCEPT ![b][write_index[b]] = msg[t]]
    /\ write_index' = [write_index EXCEPT ![b] = (@ + 1) % MAX_MBOX_LENGTH]
    /\ in_flight' = [in_flight EXCEPT ![b] = Append(@, msg[t])]
    /\ semaphore_up(mutex(b))
    /\ UNCHANGED <<tableVars, read_index, arg, msg, got>>

send_used(t) ==
    /\ Step(t, "send_used", "user")
    /\ semaphore_up(used(arg[t]))
    /\ msg' = [msg EXCEPT ![t] = NoMsg]
    /\ UNCHANGED <<tableVars, slotVars, arg, got>>

recv_enter(t, b) ==
    /\ opened[t][b] > 0
    /\ Step(t, "user", "recv_mutex")
    /\ arg' = [arg EXCEPT ![t] = b]
    /\ semaphore_down(used(b))
    /\ UNCHANGED <<tableVars, slotVars, msg, got>>

recv_mutex(t) ==
    /\ Step(t, "recv_mutex", "recv_read")
    /\ semaphore_down(mutex(arg[t]))
    /\ UNCHANGED <<tableVars, slotVars, arg, msg, got>>

recv_read(t) ==
    LET b == arg[t] IN
    /\ Step(t, "recv_read", "recv_not_used")
    /\ got' = box[b][read_index[b]]
    /\ read_index' = [read_index EXCEPT ![b] = (@ + 1) % MAX_MBOX_LENGTH]
    /\ in_flight' = [in_flight EXCEPT ![b] = IF @ = <<>> THEN @ ELSE Tail(@)]
    /\ semaphore_up(mutex(b))
    /\ UNCHANGED <<tableVars, box, write_index, arg, msg>>

recv_not_used(t) ==
    /\ Step(t, "recv_not_used", "user")
    /\ semaphore_up(not_used(arg[t]))
    /\ UNCHANGED <<tableVars, slotVars, arg, msg, got>>

do_mbox_send(t) ==
    \/ \E b \in Boxes, m \in Msgs : send_enter(t, b, m)
    \/ send_mutex(t) \/ send_write(t) \/ send_used(t)

do_mbox_recv(t) ==
    \/ \E b \in Boxes : recv_enter(t, b)
    \/ recv_mutex(t) \/ recv_read(t) \/ recv_not_used(t)

-----------------------------------------------------------------------------
\* The timer strikes in user code, and while a kernel thread runs.
System ==
    /\ \/ scheduler
       \/ timer_irq /\ (current_running \in Clients => where[current_running] = "user")
       \/ \E t \in Clock : clock_thread(t)
    /\ UNCHANGED <<syncVars, tableVars, slotVars, callVars>>

Transfer(t) == do_mbox_send(t) \/ do_mbox_recv(t)

OpenOrClose(t) ==
    \/ \E n \in Names : do_mbox_open(t, n)
    \/ \E b \in Boxes : do_mbox_close(t, b)

MailBoxNext == System \/ \E t \in Clients : Transfer(t) \/ OpenOrClose(t)

MailBoxSpec == MailBoxInit /\ [][MailBoxNext]_mboxVars

\* A call, once begun, goes on whenever its task has the CPU; nothing is
\* assumed of what processes do in user code.
InCall(t) ==
    \/ send_mutex(t) \/ send_write(t) \/ send_used(t)
    \/ recv_mutex(t) \/ recv_read(t) \/ recv_not_used(t)

MailBoxFairSpec ==
    /\ MailBoxSpec
    /\ WF_mboxVars(scheduler /\ System)
    /\ SF_mboxVars(timer_irq /\ System)
    /\ WF_mboxVars((\E t \in Clock : clock_thread(t)) /\ System)
    /\ \A t \in Clients : WF_mboxVars(InCall(t))

-----------------------------------------------------------------------------
(***************************************************************************)
(* Properties.                                                             *)
(***************************************************************************)
(* The ring of slots from read_index to write_index holds the messages     *)
(* written and not read, in order, through any interleaving of senders and *)
(* receivers that wait in turn at the three semaphores of a box.           *)
SlotsHoldInFlight ==
    \A b \in Boxes :
        /\ Len(in_flight[b]) <= MAX_MBOX_LENGTH
        /\ write_index[b] = (read_index[b] + Len(in_flight[b])) % MAX_MBOX_LENGTH
        /\ \A i \in 1..Len(in_flight[b]) :
              in_flight[b][i] = box[b][(read_index[b] + i - 1) % MAX_MBOX_LENGTH]

Chan == INSTANCE Channel WITH chan <- in_flight

(* A message box is a bounded FIFO channel ("a bounded buffer which holds  *)
(* up to MAX_MBOX_LENGTH items", mbox.c:67): nothing is lost, doubled,     *)
(* reordered, or read before it is there.                                  *)
IsChannel == Chan!ChanSpec

(* A receiver does not wait while there is a message, nor a sender while   *)
(* there is room, for longer than it takes the tasks between them to run   *)
(* on: every wakeup that is owed is given.                                 *)
MessageMeetsReceiver ==
    \A b \in Boxes :
        (wait_queue[used(b)] # <<>> /\ in_flight[b] # <<>>)
        ~> (wait_queue[used(b)] = <<>> \/ in_flight[b] = <<>>)

SenderMeetsRoom ==
    \A b \in Boxes :
        (wait_queue[not_used(b)] # <<>> /\ Len(in_flight[b]) < MAX_MBOX_LENGTH)
        ~> (wait_queue[not_used(b)] = <<>> \/ Len(in_flight[b]) = MAX_MBOX_LENGTH)

\* The opens of a box that no close has followed.
Opens(b) == {o \in Clients \X (1..MaxOpens) : o[2] <= opened[o[1]][b]}

(* user_number counts them, also of a task that opens a box more than once *)
(* or under two names, and a slot of the table is free exactly while there *)
(* are none: a box is emptied only when nobody can be using it, and then   *)
(* it is.                                                                  *)
UsersCounted ==
    \A b \in Boxes :
        /\ user_number[b] = Cardinality(Opens(b))
        /\ named[b] <=> Opens(b) # {}
=============================================================================
