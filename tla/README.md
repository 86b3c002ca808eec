# Formal models of the Operation_System_Experiment kernels

The repository holds the six projects of an operating-system course, each a
program of its own: a boot loader, a non-preemptive kernel, a preemptive kernel,
a kernel with synchronisation primitives, processes and mailboxes, a kernel with
virtual memory, and a file system on FUSE. The models here are of those
programs; each module names the file it is translated from.

## 1. Inventory

| part | directory | state | operations | what is hard |
|---|---|---|---|---|
| boot loader, createimage | `p1-Bootloader` | none after boot | read and write an image | nothing concurrent: pure I/O, not modelled |
| non-preemptive kernel | `p2-Non-Preemptive-Kernel/start_code` | ring-buffer ready queue, blocked queue, `lock_t` | yield, exit, block, unblock, lock | who gets a lock after a release; queue capacity |
| preemptive kernel | `p3-Preemptive-Kernel/task1.new`, `task2.new` | ready and sleep queues, priorities | yield, sleep, exit, block, unblock, lottery | preemption in user code; the lottery takes one task off the queue and runs another |
| scheduler | `p4-.../t3.0/project4_start_code/{scheduler,queue,interrupt}.c` | `ready_queue`, `sleep_wait_queue`, `current_running`, `pcb[].status`, `deadline`, `time_elapsed` | do_yield, do_sleep, do_exit, block, unblock, scheduler, timer_irq | one list node per task; interleaving with the timer; starvation |
| synchronisation | `p4-.../t3.0/.../sync.c` | lock status, semaphore value, barrier count, a wait queue each | acquire/release, wait/signal/broadcast, up/down, barrier_wait | handing over a lock, lost wakeups, reuse of a barrier |
| processes | `p4-.../t3.0/.../kernel.c` | `pcb[]`, wait queue per task | do_spawn, do_kill, do_wait | unlinking a task from a list it may not be in; waiters of a task that exits |
| mailboxes | `p4-.../t3.0/.../mbox.c` | 32 named bounded buffers, three semaphores each | open, close, send, recv, is_full, is_empty | order and count of messages; reuse of a slot |
| lists | `p4-.../t3.0/.../queue.c` | `prev` and `next` of every node | enqueue, dequeue, unlinking in do_kill | a node keeps its old links when it leaves a list |
| test image | `p4-.../t3.0/.../test_all` | shared variables | barrier rounds, philosophers, monitor | what their ASSERTs say of the primitives |
| demo image | `p4-.../t3.0/.../process{1,2,3}.c` | three processes | look each other up, wait, kill, respawn | a client of processes and mailboxes together |
| virtual memory | `p5--Virtual-Memory/code` | page map of 7 pages, page tables, TLB | page_alloc, handle_tlb_c, setup_page_table | eviction of a page in use; index out of the map |
| file system | `p6-File-System/project6-start-code` | superblock, bitmaps, inodes, blocks, fd table | the FUSE operations, mkfs, mount | partial failure, crash in the middle, several FUSE threads |

P4 has three snapshots (`t1.0`, `t2.0`, `t3.0`); `t3.0`, the last, is modelled.
The top-level program of `t3.0` (`processes.c`) spawns the clock thread and the
three processes SunQuan, LiuBei and CaoCao; the `test_*` directories hold other
sets of tasks that are copied over it to build a test image.

### How the parts of P4 interact

Every blocking primitive comes down to `block(q)` and `unblock(t)`. A task's PCB
starts with its one list node, so a task can be in at most one queue, and
`current_running` in none. `scheduler_entry()` saves the caller, calls
`scheduler()` and returns on the stack of the task it chose. The timer interrupt
preempts a task only when its `nested_count` is 0: a process in user code. Kernel
threads have `nested_count` 1 for ever and give up the CPU only by blocking,
sleeping, yielding or exiting; system calls raise `nested_count` and run with
interrupts masked. So an operation is atomic up to the point where it calls
`scheduler_entry()`, and the models have one action per such stretch of code.

### How the parts of P2 and P6 interact

In P2 nothing interrupts a task: it runs to its next call of `do_yield()`,
`do_exit()`, `lock_acquire()` or `lock_release()`. `scheduler()` pops the head of the
ready ring. All locks share one `blocked_queue`, and a release moves everybody on it
to the ready ring, whichever lock they wait for; each looks again when it runs.

In P6 the FUSE library calls one `p6fs_*()` function per request. The functions keep
the two bitmaps and the inode table in memory, change them, and write whole tables and
single data blocks to the device at points of their own choosing. `path_analize()`
walks directories, which are files of `dentry`s; `file_increase_block_num()`,
`file_decrease_block_num()` and `recycle_inode_and_space()` move blocks between files
and the bitmap. The kernel's VFS asks for a path one name at a time, so a
request comes only below directories that exist, and it follows symbolic links itself.

### What makes each part correct

- scheduler: a task is in exactly the queue its status names; nobody overtakes in
  the ready queue; who is ready runs, who sleeps wakes;
- synchronisation: mutual exclusion; a lock free if and only if nobody holds it;
  no wakeup lost or given twice; a barrier lets all members of a round through
  and none before;
- processes: wait returns when the task terminates; killing leaves the queues of
  the others alone;
- mailboxes: messages arrive once and in order; a full box blocks senders and an
  empty one receivers, and nobody else;
- non-preemptive kernel: the rings lose no task; a lock has one holder although
  all waiters look again after a release; nobody stays on the blocked queue for a
  lock that is free;
- virtual memory: no page is owned twice, pinned pages stay;
- file system: no block has two uses; a file exists as long as a name leads to it;
  what a user reads back is what was written, also after a failed call or a crash.

## 2. Modules

| module | models | main definitions |
|---|---|---|
| `TaskQueue` | the lists of `queue.c` as sequences | `In`, `NoDup`, `Without` |
| `TaskQueueLemmas` | enqueue, dequeue, splitting and unlinking | lemmas |
| `Scheduler` | `scheduler.c`, the timer of `interrupt.c`, `clock_thread` | `block`, `unblock_one`, `do_yield`, `do_sleep`, `do_exit`, `scheduler`, `timer_irq` |
| `Sync` | `sync.c`, on the services of `Scheduler` | one operator per function of `sync.c` |
| `SyncProofs` | `Scheduler` and `Sync`: places, round robin, refinement, mutual exclusion, accounting | theorems |
| `BarrierTest`, `Monitor`, `Philosophers` | `test_barrier/barrier_test.c`, `test_all/th2.c`, `test_all/philosophers.c` | one action per stretch of code between two blocking calls |
| `TestAll` | the image of `test_all`: the three above by `INSTANCE`, on one `Sync` | `Next` |
| `TestAllProofs` | places in the image, neighbours at the table, threads at a barrier of any number | theorems |
| `Channel` | what a message box promises | `Put`, `Get`, `Reset` |
| `MailBox` | `mbox.c`, on the semaphores of `Sync` | `do_mbox_open`, `do_mbox_close`, `do_mbox_send`, `do_mbox_recv` |
| `MailBoxProofs` | slots, semaphores and users of a box; it is a `Channel` | theorems |
| `LinkedQueue` | `queue.c` with its links, and the unlinking in `do_kill` | `enqueue`, `dequeue`, `kill` |
| `LinkedQueueProofs` | the lists stay rings | theorems |
| `ProcessTable` | spawn, kill, wait and exit of `kernel.c`, on `Sync` | `do_spawn`, `do_kill`, `do_wait` |
| `ProcessTableProofs` | places, waiters, the dead and the locks | theorems |
| `RingQueue` | `queue.c` of P2 | `queue_push`, `queue_pop`, `Waiting` |
| `NonPreemptiveKernel` | `scheduler.c`, `lock.c` and the threads of P2 | `do_yield`, `do_exit`, `lock_acquire`, `lock_release`, `unblock` |
| `KernelProofs` | the ring is a queue; places, holders and waiters of P2 | lemmas, theorems |
| `FileTree` | what a file system promises: names over objects with contents | `Create`, `Link`, `Remove`, `Rename`, `Write`, `Truncate` |
| `FileSystem` | `common.c` of P6: tables in memory and on disk, data blocks | one action per `p6fs_*()` function that changes something |
| `FileSystemProofs` | blocks, link counts and names of a volume | theorems |
| `FileCrash` | a crash while a file grows | `CrashInIncrease` |
| `MC...` | instances for TLC | constants |

`Scheduler` is at once the model of the scheduler and the abstract specification
of what is built on it: `SchedSpec` allows the running task any service in any
order, and `Sync` is shown to implement it (`SchedulerSpec`). `MailBox`,
`ProcessTable` and the test threads call the operators of `Sync`, so a step of
theirs is a step of the same scheduler. `LinkedQueue` stands below: it justifies
the sequences the other modules use in place of linked nodes. It asks of its
clients only that a node is enqueued when it is in no list and unlinked when it is in
one, which is what `EachTaskInOnePlace` says of the kernel.

### State and code

- `current_running`, `status`, the queues, `lock_status` (`lock_t.status`),
  `sem_value`, `current_members`, and the fields of a message box are the variables
  of the code.
- `in_scheduler` is the program counter of the CPU: TRUE between the call of
  `scheduler_entry()` and the dispatch of a task.
- `delay[t]` is `deadline - time_elapsed`, 0 when due; the code only compares the
  two, so this loses nothing and bounds the clock.
- `acquiring` is the client's view of a lock: the locks a task has called
  `lock_acquire()` on and not yet released. `condition_wait()` leaves it as it is,
  since for the client it returns with the lock. `Holds(t, l)` adds that the task does
  not wait in the lock's queue, nor for a condition variable of the lock (`LockOf`).
  `Monitors` are the locks that some condition variable is used with; for them the
  code does not keep what a client expects of `condition_wait()`.
- `where`, in `MailBox`, says how far a task is in `do_mbox_send()` or
  `do_mbox_recv()`. A process is preempted only where it is `"user"`.
- `name`, in `MailBox`, is what a slot's name buffer holds behind its first
  character; `do_mbox_open()` copies a name without its NUL, so the rest of an
  earlier, longer name is still there.
- `opened`, in `MailBox`, counts for each task and box the opens that no close has followed,
  up to `MaxOpens`; `boxes` is the one flag per box that the PCB keeps of them.
- `in_flight` (`MailBox`) and `queue` (`LinkedQueue`) are history: what the
  ring of slots and the links are meant to hold. No guard reads them, except that
  `LinkedQueue` uses `queue` for the rule on its clients.
- A task of `ProcessTable` is the slot it sits in. A slot is free when its status is
  `EXITED`, and a spawned task is a new one in the same slot.
- `at`, in `NonPreemptiveKernel`, is where the running task is between two calls of the
  kernel, `wants` the lock it asks for or holds. The task after a release is
  `"unblocking"`: each turn of the loop in `unblock()` is a step, so the invariants are
  checked between the turns. `unblock()` leaves the state of a task `BLOCKED`, as the
  code does; no property reads more of it than `EXITED`.
- `vol`, in `FileSystem`, holds the tables in memory (`mem`), the same tables as last
  saved (`disk`), and the data blocks (`device`). Helpers take a volume and return the
  volume a function leaves, with the saves in the code's order. Sizes count
  units of `sizeof(dentry)`, so that a directory and a file are both sequences of units.
- Operators marked *Faulty* are plausible mistakes in the operation that follows
  them. No specification uses them; each shows that some property would
  notice.

The deadlock search of `lock_acquire_helper()` follows `held_task`, which is only
ever set to NULL, so it never finds a cycle; `Sync` leaves the search out.

### Rules for the clients of the process table

`do_kill()` and `do_wait()` check little. `ProcessSpec` has clients that keep three
rules, and are otherwise arbitrary; they kill the holder of a lock, exit with a
lock and exit while others wait for them:

1. kill only a task that exists;
2. do not wait for oneself;
3. spawn nothing into a slot while somebody waits for the task that was in it.

This is what the code does with them, and outside them:

- a task that exits leaves its waiters blocked: `do_exit()` does not look at the PCB's
  wait queue, although syslib.h:72 says that wait "Blocks until the specified process
  terminates". So does a wait for a task that has exited already. Both are steps of the
  model; `KillEndsWait` says that a kill wakes the waiters and nothing else does;
- a killed holder keeps its locks: `do_kill()` walks the victim's `lq`, which
  nothing ever fills, although kernel.c:342 says "relaese all the locks this process
  holds". The lock stays LOCKED for ever, and who asks for it waits for ever. `test_kill`
  sets out to resolve a deadlock this way and does not. This is in the model too:
  `LockOpenInv` and `MutualExclusion` hold through it, that the lock becomes free does not;
- a slot that is spawned into (outside rule 3) gets an empty wait queue, and who was in
  it is `BLOCKED` and in no queue;
- a task that waits for itself and is then killed is put in the ready queue and
  taken out again, with its slot free;
- killing a task that has exited unlinks it a second time through the links it
  had when it was dequeued; killing or waiting for a slot that was never used follows
  links that are zero;
- killing a task at a semaphore or a barrier leaves `sem_value` or
  `current_members` as if it still waited. No instance and no theorem covers this;
- `do_kill()` closes the victim's mailboxes with `do_mbox_close()`, once for each flag,
  which clears the flag in the PCB of the killer. The tasks of `ProcessTable` have none open.

The last slot of the table can be spawned into and is refused by `do_kill()` and
`do_wait()` (kernel.c:313, 363); `accepted` says so. `do_wait()` always returns -1, and
`do_spawn()` returns 0 where `syslib.h` promises the PID: results no property
depends on.

### Rules for the users of the volume

`FileSystem` has a constant `Rules`; each rule stands for a fault of the code, and
without it the properties are false:

- `room_for_mkdir`: an inode and a block are free when a directory is made. `p6fs_mkdir()`
  uses the result of adding the file as an inode number even when it is an error, and
  leaves a directory of two entries without a block when none is free
  (common.c:1240-1257);
- `one_block_directories`: no directory grows beyond a block. The second block is taken
  and not recorded ("暂不处理", not handled for now, common.c:575), so its entries go to
  block 0, the root directory's;
- `long_files_kept`: a file with two or more indirect data blocks gives none of them back
  (it may grow, be written and be removed). `file_decrease_block_num()` frees entries of the
  first index block that were never set (common.c:1151); `files_truncate` is the run
  without the rule;
- `symlinks_saved`: the volume is remounted only when symbolic links have reached the disk.
  `p6fs_symlink()` takes a block and saves neither bitmap nor inodes (common.c:1430-1446).

`MaxUnits` bounds the length of a file by what one second-level index block leads to, 12 +
1024 blocks in the code. Beyond it, a single growth by more than 1024 indirect blocks clears a
second-level index block after filling it (common.c:1064-1081).

Requests are served one at a time. `fuse_main()` runs several threads by default, and
设计规范.txt:7 has the topmost operation take a lock; none does, so this is an assumption.
With two threads the search for a free bit and its setting (common.c:508, 227) interleave
and hand out a block twice.

`Remount` is an unmount, or a crash between requests: `p6fs_destroy()` saves no table, so
both lose what is not on disk. `FileCrash` adds the crash inside
`file_increase_block_num()`, the function that writes most. `count_bitmap()` adds to an
uninitialised count (common.c:277), so its test, and the growth with it, may fail at any
time: a nondeterministic choice in `Increase`.

## 3. Runs

| run | question | bounds |
|---|---|---|
| `scheduler` | can any order of calls, wakeups and interrupts lose, double or reorder a task, and does everybody run and wake? | clock, a kernel thread, two processes, two wait queues, sleeps of 1 or 2 ticks |
| `sync` | does each primitive keep its counters, queues and status together, under arbitrary clients? | clock, a kernel thread, two processes; two locks, one with a condition variable, a semaphore of value 1 (at most 2), barriers of two and of three |
| `condition_wait` | does a task come back from `condition_wait()` with the lock? (no) | as `sync`, one lock and its condition variable |
| `test_all` | do the tests pass beside each other? | the clock, two barrier threads (2 rounds), the monitor's two, three philosophers and a process |
| `barrier_three` | does the barrier test pass as written? (no) | as `test_all`, three barrier threads |
| `mailbox` | is a box a FIFO channel whose users are counted, and is every wakeup that is owed given? | clock and two processes, one box of length 2, two names of different length, two messages, each process opens up to twice |
| `queues` | do the lists stay lists? | two lists, four nodes |
| `processes` | do kill, exit and respawn leave the others alone, and what becomes of waiters and locks? | four slots, one kernel thread, one lock, sleeps of 1 tick |
| `kernel` | do the rings and the one blocked queue keep every task, and does each run again? | three tasks, two locks |
| `files` | do blocks, inodes, names and contents stay together, when requests fail and volumes are remounted? | three inodes, seven blocks of four units, two direct blocks; paths `/a`, `/b`, `/a/b`; files of up to four blocks, two of them indirect |
| `files_truncate` | and when a file gives back two indirect data blocks? (no) | as `files`, without rule `long_files_kept` |
| `files_crash` | is the bitmap on disk ahead of the inodes? (no) | as `files`, one path, crashes in a growth |

Why these bounds are enough for the question:

- Three tasks besides the clock are enough for a queue in which one task waits
  behind another while a third acts, which is what every ordering hazard needs; two
  sleep lengths suffice for one sleeper to be due behind another that is not.
- The clock thread is in the instances because the kernel is never without it ("the
  scheduler should never run out of processes", `th1.c`); it is also what keeps
  them free of deadlock, so they check for it. The exception is
  `ProcessTable`, whose tasks may all wait for each other or die; there the clock
  would only multiply states, it is left out, and deadlock is not checked.
- `test_all` keeps the times of the philosophers apart from a fixed pattern: 2 or 3 ticks
  of thinking, 1 or 2 of eating. The code's iterations are cut from 200 and 100 to 14
  and 7, which keeps their ratio, both yields (every 3rd and every 4th
  iteration) and every residue of `shared_var` modulo 3. It has two barrier threads because
  three do not pass.
- A box of length 2 wraps and can be empty, full and in between. One box and two names make
  the table full while somebody wants another, and let a slot be used again for a shorter
  name than it held; two opens by each of two processes have a process open a box twice
  and close it once while the other waits there. Two boxes at a time and three users are left
  to the theorems of `MailBoxProofs`, which cover all these properties but the two of liveness.
- Two lists and four nodes have a node between two others killed, and then enqueued in the
  other list with its old links.
- Four slots: two tasks wait for a victim that a third kills (the
  last slot cannot be the victim), slots are taken again, and a holder of the lock is killed
  or exits while others wait for it.
- Three tasks fill the ring of three when they are all ready, so head and tail meet
  full and empty; two locks put tasks that wait for different locks on the one
  blocked queue. A task may yield, exit, take a lock or keep it over a yield in any order, so
  deadlock is not checked: when all have exited the kernel is at its end.
- Seven blocks: the root, a file with two indirect data blocks (four blocks of data and two of
  index), which fills the volume, so that growth fails in every way, also after taking some
  blocks. Files grow into the direct blocks, from there into the indexes, and from one
  block behind the indexes to the second. Three inodes give a root, a directory and a file,
  or two files. `MAX_OPEN_FILE` is 1, so opening fails. A volume may be full with nothing
  left to do, and deadlock is not checked.
- `files` explores states under `LiveView`, which leaves out block numbers: they are
  interchangeable but for block 0, which is the root's from the beginning. The view keeps
  the inodes in memory and on disk, the contents, which files the bitmap on disk
  covers, the number of blocks marked without an owner, and the values of both
  invariants.

### What the runs that fail show

- `barrier_three`: `unblock_all()` is an `if` where it needs a `while`; `t2.0` has
  the `while`. With two members at a barrier nothing goes wrong (`test_all`,
  theorem `BarriersCount`), with the test's three the first round never ends.
- `condition_wait`: a task in the monitor waits, another takes the lock and signals it, and
  the first comes back and goes on while the second still has the lock: `condition_wait()`
  ends with the return of `block()`, where sync.c:98-99 says "When unblocked, re-acquire m".
  The `lock_release()` that follows (th2.c:80) opens or hands over a lock another task
  holds. That is why `MutualExclusion` and half of `LockStatusInv` speak of the locks without
  condition variables; that nobody ever waits at an open lock holds for all.
- `files_truncate`: `file_decrease_block_num()` frees as many second-level index blocks as
  there are indirect data blocks. The entries of the first index block that were never set
  are 0, so truncating a file with two indirect data blocks marks block 0 free, which the
  next growth hands out over the root directory.
- `files_crash`: the inodes are written before the bitmap, where the comment has the bitmap first.
  In between the file on disk has blocks the bitmap calls free. With the comment's
  order the crash costs marked blocks, not files.

Some things no run shows:

- `do_sleep()` appends to `sleep_wait_queue` and `check_sleeping()` stops at the first
  sleeper that is not due, so a task that sleeps 1 tick behind one that sleeps 2
  wakes late (`enqueue_sort()`, which would keep the queue in order, is never
  called). No document promises otherwise; that the sleeper does wake is `SleeperRuns`.
- The test of the monitor passes in spite of `condition_wait()` (`test_all`): its threads are
  not preempted, and the turns of `shared_var % 3` keep them apart.
- `do_mbox_open()` copies a name without its NUL: a slot that was `"bb"` and is opened as
  `"a"` is called `"ab"` from then on, and who opens `"a"` next gets another box, or none,
  where mbox.c:64 has it open the one there is. `mailbox` goes through such states; it claims
  nothing of who shares a box, since that is false. When the table is full the caller gets what
  is in the register, not the -1 of mbox.c:69.
- A killed holder's lock is never free again and who waits for a task that exits never comes
  back: see the rules for the clients of the process table. `processes` goes through both.
- The locks of P2 are not FIFO, where lock.c:3 asks for it: a waiter that looks again
  and finds the lock taken goes to the tail of the blocked queue, and a task that asks while
  the waiters are on their way to the CPU gets it first. In `th4.c` thread14 asks
  before thread13 and, if the threads start in the order of their numbers, thread13 gets it.
- A removed file with an indirect block leaves one block marked for ever (common.c:1186). Leaks
  are no violation of `BlocksOwnedOnce`.

### Fairness

Weak fairness of `scheduler()`: it is the code the CPU executes, interrupts
masked. Strong fairness of the timer: an interrupt that comes due while interrupts
are masked stays pending and is taken when they are not. Weak fairness of the
clock thread, which loops to its `do_yield()`, and of each kernel thread while it
has the CPU: nothing takes it away. For arbitrary kernel threads
(`ThreadsYield`) this is an assumption on clients, that they call something in the
end; for the threads of the tests it is their code. Of a process only this is
assumed, in `MailBoxFairSpec`: a system call it has begun goes on when it has the
CPU, since it cannot be preempted there. In P2 it is weak fairness of the whole next-state
relation (`KernelFairSpec`): the CPU goes on with the running task, which is
its only actor. No fairness is assumed among tasks: that each comes round again is what
`EachTaskRuns` checks. A task may yield for ever, and hold a lock over one yield.

## 4. Proofs

All theorems hold for any set of tasks, threads, queues, boxes, objects and delays, any
size of the tables and any order of spawning; the assumptions are those named in
the modules. Where a set is assumed finite it is a table of the code: `pcb[]`,
the boxes, the threads of an image.

- `SchedTypeCorrect`, `TasksKeepTheirPlace` (`SyncProofs`): `SchedTypeOK` and
  `EachTaskInOnePlace`. The latter is inductive with the types and one more fact:
  until the first dispatch `current_running` is not a task but the boot PCB, and the
  scheduler is running (`BootInv`). One lemma per way a node moves (requeue, sleep,
  exit, block, unblock, dispatch), each from the queue lemmas of
  `TaskQueueLemmas`: a task not in a queue may be appended, the head of a
  duplicate-free queue is gone after dequeue, a split queue has disjoint halves.
- `NobodyOvertakes`: `FifoReady`, from `EachTaskInOnePlace` before and after a step:
  each step appends to the ready queue or takes its head, and in a queue without duplicates
  the tasks that stay keep their order.
- `SyncImplementsScheduler`: each call of `sync.c` is one of the waits or wakeups of
  `Scheduler` by the running task, or leaves its state alone. With it `Sync`
  inherits the two invariants (`SyncPlaces`), and `SyncTypeCorrect` adds its own types.
- `LocksExclude`, `LockStatusCorrect`: for a lock without condition variables, from
  `LockInv(l)` and `IsHeld(l)`. `MutualExclusion` is not inductive alone: that `lock_acquire()`
  may take an UNLOCKED lock needs that an unlocked lock has no user at all, and that
  `lock_release()` hands over to exactly one needs that the releaser was the only holder
  and that the head of the queue is in it once. For every lock, `OpenInv(l)` (nobody waits at
  an open one) is inductive by itself, whoever releases it: this part holds for the locks
  of `th2.c`, the other does not, as `condition_wait` shows.
- `SemaphoresCount`: `SemaphoreCountsWaiters` with the types is inductive.
- `BarriersCount`: for barriers of any size. A broadcast wakes at most one, so who is counted
  waits; that only they wait needs a barrier of at most two, which is what the `if` in
  `unblock_all()` assumes.
- `LinkTypes`, `Rings`, `Oldest` (`LinkedQueueProofs`): the invariant is `RingsHold`
  with the types and the fact that a task is once in at most one list. From these a
  write to `next` or `prev` of a node changes one link of one ring: the nodes of
  two rings, and two positions of one ring, are different. `Oldest` follows, since
  `next` of the sentinel is the first node.
- `TableKeepsPlaces`, `KillBringsWaitersBack`, `OnlySpawnRevives` (`ProcessTableProofs`): the
  invariant `TableInv` adds to that of the scheduler that nobody is in his own wait
  queue, which keeps `do_kill()` from putting its victim into the ready queue. Rule 3 allows
  `do_spawn()` to reset the wait queue of the slot. That nobody but a kill brings
  waiters back, the other half of `KillEndsWait`, needs that they are in no other queue.
- `TableKeepsLocks`: `LockInv` without `IsHeld`, and `OpenInv`, survive the kill or exit of any
  task. If it waited for the lock, one waiter less is left; if it held it, the lock stays LOCKED
  with no holder, which both allow. All other steps are steps of `Sync` and reuse its lemmas.

- `KernelKeepsTasks`, `KernelLocksHeldOnce`, `KernelWakesWaiters`, `KernelRunsOutWhenDone`
  (`KernelProofs`), for any number of tasks and locks. The lemmas about the ring give two facts: pushing
  a task that is not in the ring appends it, since a ring of `NUM_TASKS` with one task
  missing has room (an injection of positions into the other tasks), and popping
  takes the head. The invariant `KernelInv` speaks of the status of a lock, not of
  its holder: a blocked task waits for a LOCKED lock or somebody is unblocking. That
  survives every step by itself; `OneHolder` then gives the holder, and `OwnPlaces` says
  that a holder has neither exited nor blocked. When the ready ring is empty nobody
  runs who could hold a lock, so nobody is blocked, and all have exited.
- `NoBlockIsShared`, `LinksStayNames`, `VolumeStaysTree` (`FileSystemProofs`): for any
  number of inodes, blocks and direct blocks, any block size, paths and extents, and files of up
  to one full second-level index, with the hypothesis that all rules of section 2 hold. Without
  the rules the statements are false, so each theorem speaks of volumes whose users keep them. `VolOK` is the invariant they share:
  - `Sound`: each file has the blocks its size needs and no more than the two indexes lead to;
    `BlockAt(v, i, k)` names its k-th block, the blocks behind the index and both
    indexes included, and two different uses have different, marked blocks. Block
    ownership alone is not inductive, since the list of blocks behind the index is
    itself the content of a block: a write to a data block must not be a write to an index;
  - `DirsOK`: a directory fills at most its first block, its entries after `..` and `.` have
    different names and lead to inodes other than the root;
  - `UnusedOK`: an inode without links is as `my_mkfs()` left it, so the next file in
    it starts without blocks; one with links is in the bitmap, in memory and on disk;
  - `NamesCounted`: the links of an inode are its entries, a directory has one;
  - `DiskOK`: what is not a symbolic link is on disk as it is in memory, which is
    what makes `Remount` a step like any other.

  One lemma per operation says that a volume with `VolOK` is left with it. They rest on a
  few about helpers: a write to the blocks of one file leaves those of the others
  (`WriteKeeps`), a file that changes by itself (`OneFileChanged`), blocks given up
  (`GivesUp`) and taken in order from the free ones (`LinksBlocks`, `GrownSound`), one entry
  more and one less (`ListsOneMore`, `ListsOneLess`), and that the walk along a path that
  the kernel asks for ends in a directory (`Reaches`). `NoBlockIsShared` is
  `Sound` read over `BlocksOf`; `LinksStayNames` and `VolumeStaysTree` need that the
  entries as the code reads them are those of the first block.
- `SlotsCorrect`, `BoxSemaphoresCount`, `NobodyIsForgotten`, `MailBoxIsChannel`
  (`MailBoxProofs`): the two semaphores of a box and its ring of slots agree only when
  nobody is inside `do_mbox_send()` or `do_mbox_recv()`. The invariant `MailBoxInv` therefore
  accounts for the tasks between two steps: what the counters have given out, the
  tasks on their way in `where` and the messages in the ring add up to the
  capacity, one equation per semaphore; at most one task is inside the mutex, and
  the one that is has a slot. From that a send writes a free slot and a receive reads
  the oldest message, which is the step of `Channel`.
- `UsersAreCounted`: a slot of the table is in use if and only if its count of users is not
  zero, and the count is the number of opens that no close has followed, whatever the names
  and however often a task opens a box. `NobodyIsForgotten` needs it: the last close empties
  three queues, and whoever waits in one of them still has the box open.
  `MailBoxImplementsScheduler` says that box operations are steps of the same scheduler.
- `ImageKeepsTasks` (`TestAllProofs`): all steps of the three programs together, also
  those of `th2.c` outside the calls of `sync.c`, are calls of `Sync` or steps of the scheduler, so the
  image inherits types and places. The programs' ticks must be delays of `Scheduler`
  (`TestAllAssumption`).
- `NeighboursTakeTurns`: no two neighbours eat, for any number of philosophers from two on. A
  fork is a semaphore of value 1 used as a lock; `ForkInv(s)` says of each
  that the value is at most 1, that nobody has asked for a fork whose value is 1, that
  all who wait have asked, and that of those who asked and do not wait there is at most
  one. That the waiter who is woken is the only new one is where the queue
  without duplicates is needed. With `EatersAte`, an eater has both of his forks.
- `ThreadsStayLevel`: the assertion of `barrier_test.c` for any number of threads at a barrier
  of them all. One thread never waits. Of two, between two steps, both have passed the
  barrier equally often, or the one that waits is one ahead (`RoundsInv`); the check of the
  assertion comes with the first of the two. Of three and more (`ManyInv`), either
  not all have arrived at the first barrier, or all have and `value` is 1 for each: at
  most two are back from it, and they cannot fill the second. With the three threads of
  the shipped test the assertion is true because the test stops; `barrier_three` shows that.

Only model-checked: the liveness properties and all that needs fairness (outside the
prover), and the refinement of `FileTree` by `FileSystem` (`IsFileTree`): that its names stay
a tree is proved, that a read gives what was written is not.

## 5. Plan

1. (done) `Scheduler`, `Sync`, their proofs, and the test threads of P4.
2. (done) `MailBox` and its abstract specification `Channel`.
3. (done) `LinkedQueue` and `ProcessTable`, with their proofs.
4. (done) `RingQueue` and `NonPreemptiveKernel` (P2), with their proofs.
5. (done) `FileTree`, `FileSystem` and `FileCrash` (P6).
6. (done) Proofs of the message boxes and of the test image.
7. (done) Proofs of the file system: blocks, link counts and names.
8. What would come next: the contents of the files, and with them the refinement of
   `FileTree`; crashes in the other operations of P6 and in `my_mkfs()`; kills of tasks that
   wait at a semaphore.

## 6. Not modelled

The boot loader and `createimage` (a sequential file transformation), the
printing, string and formatting helpers of every project, the freestanding
headers, `ramdisk` name lookup, the earlier snapshots `t1.0` and `t2.0`, and generated
files. `do_mbox_is_empty()` and `do_mbox_is_full()` only read a semaphore and are called by no
modelled client. What processes compute in user code is left open: they may call
anything.

- P3: `task1.new` is the round robin scheduler that P4 took over and `Scheduler`
  models. `task2.new` is a lottery: the choice is a random number against a table of
  weights, read from `pcb[]`; it takes the head off the ready queue and ignores it
  (scheduler.c:140), and wraps its search at the sum of the weights (scheduler.c:129).
- P5: `handle_tlb_c()` follows page directory entries that are zero and tests
  `!(entry) & 0xc00`, which is always false, so no data page is ever mapped; its processes
  touch two of the seven pages, so none is evicted. There is no working
  behaviour to state properties of.
- P6: readdir, readlink, getattr, statfs and utime read the volume or set times;
  threads that serve requests together; crashes inside operations other than growth.
- The demo image of P4 (SunQuan, LiuBei, CaoCao): its calls are among those of the arbitrary clients
  of `ProcessTable` and `MailBox`, apart from killing a task that waits at a message box.
