---------------------------- MODULE ProcessTable ----------------------------
(***************************************************************************)
(* spawn, kill, wait and exit (P4 t3.0: kernel.c), for tasks that also use *)
(* the locks of Sync.                                                      *)
(*                                                                         *)
(* A task is the slot of the table it sits in; its pid is the slot's       *)
(* number, and Threads are the slots that get kernel threads.  Killed      *)
(* tasks have no message box open.                                         *)
(* do_kill() looks for the locks of its victim in a list that nothing ever *)
(* fills: it releases none, and a lock whose holder dies stays LOCKED.     *)
(***************************************************************************)
EXTENDS Sync

CONSTANT NUM_PCBS

\* pcb[p-1].wait_queue
wait_of(p) == <<"wait", p>>

ASSUME TableAssumption ==
    /\ NUM_PCBS \in Nat
    /\ Tasks = 1..NUM_PCBS
    /\ \A p \in Tasks : /\ wait_of(p) \in Queues
                        /\ wait_of(p) \notin Locks \cup Conditions \cup Semaphores \cup Barriers

unlinked(p, s) ==
    IF In(p, s) THEN Without(s, CHOOSE i \in 1..Len(s) : s[i] = p) ELSE s

-----------------------------------------------------------------------------
\* Faulty: a slot whose task waits is taken for free.
free_blocked(p) == status[p] \in {"EXITED", "BLOCKED"}

free(p) == status[p] = "EXITED"

\* do_spawn() takes the first free slot and initialize_pcb() makes it new;
\* when the table is full it returns -1.
do_spawn(t, p) ==
    /\ Running(t)
    /\ free(p) /\ \A u \in 1..(p - 1) : ~free(u)
    /\ status' = [status EXCEPT ![p] = "FIRST_TIME"]
    /\ wait_queue' = [wait_queue EXCEPT ![wait_of(p)] = <<>>]
    /\ ready_queue' = Append(ready_queue, p)
    /\ UNCHANGED <<current_running, in_scheduler, sleep_wait_queue, delay, syncVars>>

\* The pids kill() and wait() accept: the last slot is not among them.
accepted(p) == p < NUM_PCBS

\* Faulty: the victim stays in the queue it waits in.
do_kill_left(t, p) ==
    /\ Running(t) /\ p # t /\ accepted(p)
    /\ LET woken == wait_queue[wait_of(p)]
       IN /\ status' = [u \in Tasks |-> IF In(u, woken) THEN "READY"
                                        ELSE IF u = p THEN "EXITED" ELSE status[u]]
          /\ ready_queue' = unlinked(p, ready_queue \o woken)
          /\ wait_queue' = [wait_queue EXCEPT ![wait_of(p)] = <<>>]
    /\ acquiring' = [acquiring EXCEPT ![p] = {}]
    /\ UNCHANGED <<current_running, in_scheduler, sleep_wait_queue, delay,
                   lock_status, sem_value, current_members>>

\* Faulty: wakes one of those who wait for the victim.
do_kill_wakes_one(t, p) ==
    /\ Running(t) /\ p # t /\ accepted(p)
    /\ LET woken == IF wait_queue[wait_of(p)] = <<>>
                    THEN <<>> ELSE <<Head(wait_queue[wait_of(p)])>>
       IN /\ status' = [u \in Tasks |-> IF In(u, woken) THEN "READY"
                                        ELSE IF u = p THEN "EXITED" ELSE status[u]]
          /\ ready_queue' = unlinked(p, ready_queue \o woken)
          /\ sleep_wait_queue' = unlinked(p, sleep_wait_queue)
          /\ wait_queue' = [q \in Queues |-> IF q = wait_of(p) /\ woken # <<>>
                                             THEN Tail(wait_queue[q])
                                             ELSE unlinked(p, wait_queue[q])]
    /\ acquiring' = [acquiring EXCEPT ![p] = {}]
    /\ UNCHANGED <<current_running, in_scheduler, delay,
                   lock_status, sem_value, current_members>>

\* do_kill(): wakes all who wait for p, then takes p out of its queue.
do_kill(t, p) ==
    /\ Running(t) /\ p # t /\ accepted(p)
    /\ LET woken == wait_queue[wait_of(p)]
       IN /\ status' = [u \in Tasks |-> IF In(u, woken) THEN "READY"
                                        ELSE IF u = p THEN "EXITED" ELSE status[u]]
          /\ ready_queue' = unlinked(p, ready_queue \o woken)
          /\ sleep_wait_queue' = unlinked(p, sleep_wait_queue)
          /\ wait_queue' = [q \in Queues |-> IF q = wait_of(p) THEN <<>>
                                             ELSE unlinked(p, wait_queue[q])]
    /\ acquiring' = [acquiring EXCEPT ![p] = {}]
    /\ UNCHANGED <<current_running, in_scheduler, delay,
                   lock_status, sem_value, current_members>>

\* do_wait(): blocks whatever the state of p, for ever if p has exited.
do_wait(t, p) ==
    /\ Running(t) /\ accepted(p)
    /\ block(wait_of(p))
    /\ UNCHANGED syncVars

-----------------------------------------------------------------------------
(***************************************************************************)
(* The rules clients must keep, since the calls do not see to them: kill a *)
(* task that exists, do not wait for oneself, and start no task in a slot  *)
(* where somebody still waits for the last one (the new task's queue is    *)
(* made empty).                                                            *)
(***************************************************************************)
Exists(p) == status[p] # "EXITED"

Unwatched(p) == wait_queue[wait_of(p)] = <<>>

LifeCall(t) ==
    \/ \E p \in Tasks : Unwatched(p) /\ do_spawn(t, p)
    \/ \E p \in Tasks \ {t} : do_wait(t, p)
    \/ do_yield(t) /\ UNCHANGED syncVars
    \/ \E d \in Delays : do_sleep(t, d) /\ UNCHANGED syncVars

Kill(t) == \E p \in Tasks \ Clock : Exists(p) /\ do_kill(t, p)

\* do_exit(): neither looks for those who wait nor for a lock.
Exit(t) ==
    /\ do_exit(t)
    /\ acquiring' = [acquiring EXCEPT ![t] = {}]
    /\ UNCHANGED <<lock_status, sem_value, current_members>>

System ==
    /\ scheduler \/ timer_irq \/ (\E t \in Clock : clock_thread(t))
    /\ UNCHANGED syncVars

ProcessNext ==
    \/ System
    \/ \E t \in Tasks \ Clock :
          LifeCall(t) \/ Kill(t) \/ Exit(t) \/ (Running(t) /\ LockCall(t))

ProcessSpec == SyncInit /\ [][ProcessNext]_vars

-----------------------------------------------------------------------------
(* A task that waits for another is ready to run again in the very step in *)
(* which the other is killed, be it ready, asleep, blocked or waiting      *)
(* itself, and in no other.  (One that exits wakes nobody, although "This  *)
(* blocks until the specified process terminates", syslib.h:72.)           *)
KillEndsWait ==
    [][\A p, t \in Tasks :
          In(t, wait_queue[wait_of(p)]) /\ status'[t] # "EXITED"
          => (In(t, ready_queue')
              <=> Exists(p) /\ status'[p] = "EXITED" /\ ~Running(p))]_vars

(* A killed task stays dead, whatever it was doing: no wakeup, no timer    *)
(* and no lock brings it back, only spawn() makes a new task of its slot.  *)
DeadStayDead ==
    [][\A p \in Tasks :
          status[p] = "EXITED" /\ status'[p] # "EXITED"
          => \E t \in Tasks : do_spawn(t, p)]_vars
=============================================================================
