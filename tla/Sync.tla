-------------------------------- MODULE Sync --------------------------------
(***************************************************************************)
(* Locks, condition variables, semaphores and barriers of the preemptive   *)
(* kernel (P4 t3.0: sync.c), on the services of Scheduler.                 *)
(*                                                                         *)
(* Each operation is one critical section up to its block(), so it is one  *)
(* step.  What a primitive still does after block() returned (blocking_lock*)
(* = NULL, leave_critical()) changes no state that anything reads: nothing *)
(* ever writes held_task but NULL, so the deadlock search of               *)
(* lock_acquire_helper() always ends at its first step and lock_acquire()  *)
(* always blocks on a LOCKED lock.                                         *)
(***************************************************************************)
EXTENDS Scheduler, Integers

CONSTANTS
    Locks, Conditions, Semaphores, Barriers,   \* the objects of each kind
    SemInit,        \* the value each semaphore is initialised with
    Members,        \* max_members of each barrier
    LockOf,         \* the lock that clients use each condition variable with
    MaxSem          \* bound: clients do not raise a semaphore above it

ASSUME QueuesAssumption ==
    Locks \cup Conditions \cup Semaphores \cup Barriers \subseteq Queues
ASSUME DisjointAssumption ==
    /\ Locks \cap (Conditions \cup Semaphores \cup Barriers) = {}
    /\ Conditions \cap (Semaphores \cup Barriers) = {}
    /\ Semaphores \cap Barriers = {}
ASSUME SemInitAssumption == SemInit \in [Semaphores -> Nat]
ASSUME MembersAssumption == Members \in [Barriers -> Nat \ {0}]
ASSUME LockOfAssumption == LockOf \in [Conditions -> Locks]

\* The locks that condition variables are used with.
Monitors == {LockOf[c] : c \in Conditions}

VARIABLES
    lock_status,        \* lock_t.status
    sem_value,          \* semaphore_t.value
    current_members,    \* barrier_t.current_members
    acquiring           \* client's view: the locks each task has called
                        \* lock_acquire() on and not lock_release() since;
                        \* condition_wait() returns with the lock, so for
                        \* the client it changes nothing

syncVars == <<lock_status, sem_value, current_members, acquiring>>
vars == <<schedVars, syncVars>>

SyncTypeOK ==
    /\ SchedTypeOK
    /\ lock_status \in [Locks -> {"LOCKED", "UNLOCKED"}]
    /\ sem_value \in [Semaphores -> Int]
    /\ current_members \in [Barriers -> Nat]
    /\ \A b \in Barriers : current_members[b] < Members[b]
    /\ acquiring \in [Tasks -> SUBSET Locks]

\* lock_init(), condition_init(), semaphore_init(), barrier_init(): once, by
\* the client, before anybody uses the object.
SyncInit ==
    /\ SchedInit
    /\ lock_status = [l \in Locks |-> "UNLOCKED"]
    /\ sem_value = SemInit
    /\ current_members = [b \in Barriers |-> 0]
    /\ acquiring = [t \in Tasks |-> {}]

\* t has returned from lock_acquire(l), and is not inside condition_wait(l, c).
Holds(t, l) ==
    /\ l \in acquiring[t]
    /\ ~In(t, wait_queue[l])
    /\ \A c \in Conditions : LockOf[c] = l => ~In(t, wait_queue[c])

-----------------------------------------------------------------------------
\* Faulty: the task waits in the queue but keeps its status.
lock_acquire_ready(t, l) ==
    /\ acquiring' = [acquiring EXCEPT ![t] = @ \cup {l}]
    /\ IF lock_status[l] = "LOCKED"
       THEN /\ wait_queue' = [wait_queue EXCEPT ![l] = Append(@, t)]
            /\ in_scheduler' = TRUE
            /\ UNCHANGED <<current_running, status, ready_queue,
                           sleep_wait_queue, delay, lock_status>>
       ELSE /\ lock_status' = [lock_status EXCEPT ![l] = "LOCKED"]
            /\ UNCHANGED schedVars
    /\ UNCHANGED <<sem_value, current_members>>

lock_acquire(t, l) ==
    /\ acquiring' = [acquiring EXCEPT ![t] = @ \cup {l}]
    /\ IF lock_status[l] = "LOCKED"
       THEN block(l) /\ UNCHANGED lock_status
       ELSE /\ lock_status' = [lock_status EXCEPT ![l] = "LOCKED"]
            /\ UNCHANGED schedVars
    /\ UNCHANGED <<sem_value, current_members>>

\* Faulty: lock_release() opens the lock even when it wakes a waiter.
released_status_open(l) == "UNLOCKED"

\* Faulty: lock_release() never opens the lock.
released_status_kept(l) == lock_status[l]

\* What lock_release_helper() leaves in status: the lock stays LOCKED for
\* the waiter it wakes.
released_status(l) ==
    IF wait_queue[l] = <<>> THEN "UNLOCKED" ELSE lock_status[l]

lock_release(t, l) ==
    /\ lock_status' = [lock_status EXCEPT ![l] = released_status(l)]
    /\ unblock_one(l)
    /\ acquiring' = [acquiring EXCEPT ![t] = @ \ {l}]
    /\ UNCHANGED <<sem_value, current_members>>

\* condition_wait(): nothing follows the block(), the lock is not taken again.
condition_wait(m, c) ==
    /\ lock_status' = [lock_status EXCEPT ![m] = released_status(m)]
    /\ unblock_one_and_block(m, c)
    /\ UNCHANGED <<sem_value, current_members, acquiring>>

condition_signal(c) == unblock_one(c) /\ UNCHANGED syncVars

\* unblock_all(): its "if" wakes at most one waiter.
unblock_all(q) == unblock_one(q)

condition_broadcast(c) == unblock_all(c) /\ UNCHANGED syncVars

\* Faulty: the value is raised only when nobody waits.
semaphore_up_or_wake(s) ==
    /\ sem_value' = IF wait_queue[s] = <<>> THEN [sem_value EXCEPT ![s] = @ + 1]
                                            ELSE sem_value
    /\ unblock_one(s)
    /\ UNCHANGED <<lock_status, current_members, acquiring>>

\* Faulty: nobody is woken.
semaphore_up_silent(s) ==
    /\ sem_value' = [sem_value EXCEPT ![s] = @ + 1]
    /\ UNCHANGED <<schedVars, lock_status, current_members, acquiring>>

semaphore_up(s) ==
    /\ sem_value' = [sem_value EXCEPT ![s] = @ + 1]
    /\ unblock_one(s)
    /\ UNCHANGED <<lock_status, current_members, acquiring>>

\* Faulty: off by one, one task more gets in.
semaphore_down_late(s) ==
    /\ sem_value' = [sem_value EXCEPT ![s] = @ - 1]
    /\ IF sem_value'[s] < -1 THEN block(s) ELSE UNCHANGED schedVars
    /\ UNCHANGED <<lock_status, current_members, acquiring>>

semaphore_down(s) ==
    /\ sem_value' = [sem_value EXCEPT ![s] = @ - 1]
    /\ IF sem_value'[s] < 0 THEN block(s) ELSE UNCHANGED schedVars
    /\ UNCHANGED <<lock_status, current_members, acquiring>>

\* Faulty: current_members is not reset.
barrier_wait_once(b) ==
    /\ current_members' = [current_members EXCEPT ![b] = @ + 1]
    /\ IF current_members'[b] = Members[b] THEN unblock_all(b) ELSE block(b)
    /\ UNCHANGED <<lock_status, sem_value, acquiring>>

\* Faulty: off by one, the barrier opens for nobody who waits at it.
barrier_wait_late(b) ==
    /\ IF current_members[b] = Members[b]
       THEN /\ current_members' = [current_members EXCEPT ![b] = 0]
            /\ unblock_all(b)
       ELSE /\ current_members' = [current_members EXCEPT ![b] = @ + 1]
            /\ block(b)
    /\ UNCHANGED <<lock_status, sem_value, acquiring>>

\* Faulty: off by one, the barrier opens before the last member comes.
barrier_wait_early(b) ==
    /\ IF current_members[b] + 1 >= Members[b] - 1
       THEN /\ current_members' = [current_members EXCEPT ![b] = 0]
            /\ unblock_all(b)
       ELSE /\ current_members' = [current_members EXCEPT ![b] = @ + 1]
            /\ block(b)
    /\ UNCHANGED <<lock_status, sem_value, acquiring>>

barrier_wait(b) ==
    /\ IF current_members[b] + 1 = Members[b]
       THEN /\ current_members' = [current_members EXCEPT ![b] = 0]
            /\ unblock_all(b)
       ELSE /\ current_members' = [current_members EXCEPT ![b] = @ + 1]
            /\ block(b)
    /\ UNCHANGED <<lock_status, sem_value, acquiring>>

-----------------------------------------------------------------------------
(***************************************************************************)
(* Clients that keep the rules of a lock (acquire what they do not have,    *)
(* release and wait with what they have, also after a wait) and are        *)
(* otherwise arbitrary.                                                    *)
(***************************************************************************)
LockCall(t) ==
    \/ \E l \in Locks : l \notin acquiring[t] /\ lock_acquire(t, l)
    \/ \E l \in Locks : l \in acquiring[t] /\ lock_release(t, l)
    \/ \E c \in Conditions : LockOf[c] \in acquiring[t] /\ condition_wait(LockOf[c], c)

SyncCall(t) ==
    /\ Running(t)
    /\ t \notin Clock
    /\ \/ LockCall(t)
       \/ \E c \in Conditions : condition_signal(c) \/ condition_broadcast(c)
       \/ \E s \in Semaphores : sem_value[s] < MaxSem /\ semaphore_up(s)
       \/ \E s \in Semaphores : semaphore_down(s)
       \/ \E b \in Barriers : barrier_wait(b)

\* The steps in which no synchronisation object takes part.
SchedStep ==
    /\ scheduler \/ timer_irq \/ (\E t \in Tasks : clock_thread(t) \/ SchedCall(t))
    /\ UNCHANGED syncVars

SyncNext == SchedStep \/ \E t \in Tasks : SyncCall(t)

SyncSpec == SyncInit /\ [][SyncNext]_vars

-----------------------------------------------------------------------------
(***************************************************************************)
(* Properties.                                                             *)
(***************************************************************************)

(* Two tasks never are both between lock_acquire() and lock_release() of   *)
(* the same lock, although a woken waiter does not look at status again:   *)
(* it relies on lock_release() having left the lock LOCKED for it.  Locks  *)
(* that go through condition_wait() are left to MonitorsExclude.           *)
MutualExclusion ==
    \A l \in Locks \ Monitors, t, u \in Tasks : Holds(t, l) /\ Holds(u, l) => t = u

(* Nobody waits at an open lock, whatever condition_wait() and releases    *)
(* after it do to it: unless lock_release() finds no waiter it hands the   *)
(* lock over without ever opening it.  A lock that is used without a       *)
(* condition variable has no holder either while it is open.               *)
LockOpenInv ==
    \A l \in Locks :
        lock_status[l] = "UNLOCKED" =>
            /\ wait_queue[l] = <<>>
            /\ l \notin Monitors => \A t \in Tasks : l \notin acquiring[t]

(* And it is LOCKED only while somebody holds it.                          *)
LockStatusInv ==
    /\ LockOpenInv
    /\ \A l \in Locks \ Monitors :
          lock_status[l] = "LOCKED" => \E t \in Tasks : Holds(t, l)

(* "When unblocked, re-acquire m" (sync.c:99): of two tasks that hold the  *)
(* lock of a condition variable and have come back from all their calls,   *)
(* since they run, or sleep, one is the other.  A task in the ready queue  *)
(* may still be inside condition_wait().                                   *)
MonitorsExclude ==
    \A l \in Monitors, t, u \in Tasks :
        /\ Holds(t, l) /\ ~In(t, ready_queue)
        /\ Holds(u, l) /\ ~In(u, ready_queue)
        => t = u

(* A negative semaphore value counts the waiters, and nobody waits while   *)
(* it is not negative: no wakeup is lost and none is given twice.          *)
SemaphoreCountsWaiters ==
    \A s \in Semaphores :
        Len(wait_queue[s]) = IF sem_value[s] < 0 THEN -sem_value[s] ELSE 0

(* Whom current_members counts waits at the barrier, so the last to arrive *)
(* finds the others there.  At a barrier of two nobody else waits there;   *)
(* at a larger one those whom unblock_all() forgot do.                     *)
BarrierCountsWaiters ==
    \A b \in Barriers :
        /\ current_members[b] <= Len(wait_queue[b])
        /\ Members[b] <= 2 => current_members[b] = Len(wait_queue[b])

(* Everything the primitives do to the scheduler is a step of it: the      *)
(* queues of Sync inherit what is proved of Scheduler.                     *)
SchedulerSpec == SchedSpec
=============================================================================
