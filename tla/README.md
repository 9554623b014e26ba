# A TLA+ development for the NuMaker-IoT-MA35D1 board support

The repository is the RT-Thread board support for Nuvoton's MA35D1: a vendored
RT-Thread 5.0.0 kernel configured for SMP on the two Cortex-A35 cores
(`RT_USING_SMP`, `RT_CPUS_NR` 2, `RT_DEBUG` on), the drivers in
`src/libraries/ma35/rtt_port`, the register library under `src/libraries/ma35`,
and packages and applications.  This directory models the parts with concurrency
and protocols of their own: the kernel objects every driver blocks on, the timers
behind every timed wait, the PDMA driver that moves everyone's data, and the hardware
semaphore shared with the real-time processor (a Cortex-M4 that runs the same driver).

How to run it, inside this directory:

    tlc -config MCSemAll.cfg MCRtSem      # one model-checking run
    tlapm RtMutexProofs.tla               # the proofs about one module

`PROJECT.json` lists the runs, the source lines behind each definition, the
mutations that show each property can fail, the hazards and the findings.

## 1. Inventory

| Component | State | Operations | Interacts with |
|---|---|---|---|
| PDMA memory service (`drv_pdma.c`, `nu_pdma_memfun*`) | bit mask of actors, pool semaphore and lock, per actor a semaphore, a result word and a channel | `nu_pdma_memcpy`, `nu_pdma_mempush` → employ, set up, start, wait, collect, fire | semaphore, mutex, channel, interrupt handler |
| PDMA interrupt handler (`nu_pdma_isr`) | `INTSTS`, `ABTSTS`, `TDSTS` of a module | read, clear, serve the channels lowest first, call their callbacks | every user of a channel |
| PDMA channels (`drv_pdma.c`) | channel mask, per channel the peripheral, memory control, descriptor table | allocate, free, terminate, `memctrl_set`, `nu_pdma_transfer`, `_nu_pdma_transfer_chain` | heap, engine |
| Kernel semaphore (`ipc.c`) | value, list of suspended threads | take, release, control, detach, delete | scheduler, timers |
| Kernel mutex (`ipc.c`) | owner, hold count, priority, ceiling, list; per thread the taken list and the pending object | take, release, drop, priority inheritance | scheduler, timers, thread deletion |
| Mailbox, message queue (`ipc.c`) | a ring of words, or cells on a free list and a linked queue; lists of waiting receivers and senders | send, send and wait, urgent, receive, control | as the semaphore |
| Event (`ipc.c`) | flags, a list | send, receive, control | as the semaphore |
| Timers (`timer.c`, `clock.c`) | tick count, ordered lists of hard and soft timers, the soft-timer thread | start, stop, detach, control, check | every timed wait |
| Scheduler, threads (`scheduler.c`, `thread.c`, `cpu.c`) | ready queues, per-thread state, per-core current thread | suspend, resume, delay, change priority, delete | everything |
| Completion, work queue, data queue, ring buffer (`components/drivers/ipc`) | a flag and one waiter; lists; rings | wait/done, submit/cancel, push/pop | drivers |
| Hardware semaphore (`drv_hwsem.c`) | key register, owner thread, hold count, completion | `nu_mutex_take`, `nu_mutex_release`, interrupt | the real-time processor |
| Wormhole controller (`drv_whc.c`) | per channel a transmit buffer and its registers | read, write, interrupt | the real-time processor |
| UART with DMA (`drv_uart.c`) | circular descriptors, receive index | configure, interrupt, DMA callback | PDMA channels, serial framework |
| I2C, SPI, SD host, CAN FD, Ethernet, NAND, audio, display, ... | registers | transfers under a bus lock | PDMA, kernel objects |

What is hard here, and to test:

* `rt_hw_interrupt_disable` is `rt_cpus_lock` on this configuration, so a locked
  region is atomic against the other core and the interrupts.  A call of an API is
  often *several* locked regions, and every wait is cut in two by `rt_schedule`.
  Timeouts, releases, deletion and priority changes fall in between.
* An interrupt handler that reads several status registers one after the other
  while channels go on raising flags in them.
* Reports of one transfer taken for another's: semaphores outlive the transfer they
  report.
* Priority inheritance walks a graph of threads and mutexes whose parts leave at
  different times.
* Counts at the hardware's limits, tables reused between transfers of changing sizes,
  a tick count that wraps around.
* Message queues that copy outside the lock, with the cell in nobody's list; woken
  threads that find somebody else was faster.
* A lock between two processors with different images, one of which may restart.

What makes each component correct: a memory transfer is done, and truthfully
reported, when the call returns, and two calls never share a channel; a channel
moves exactly what it was asked to and its descriptor table is not touched while the
engine walks it; a semaphore is a counting semaphore and forgets or wakes nobody
twice; a mutex is handed over in order of priority, its owner is never less urgent
than a waiter and gives back exactly what it inherited; a mailbox or message queue
delivers each message once, unchanged and in order, and nobody sleeps beside a message
or beside room; a timer is never early, a hard timer never late, and a timer is active
exactly when it will be called; a hardware semaphore has one holder, and neither an
unlock nor a restart leaves the other side waiting for nothing.

## 2. Modules

| Module | Models | Used by |
|---|---|---|
| `PdmaMemfun` | the memory service, the interrupt handler, the hardware's flags | `MCPdmaMemfun`, `PdmaMemfunProofs` |
| `PdmaChannel` | channels, descriptor chains, engine | `MCPdmaChannel` |
| `IpcList` | `_ipc_list_suspend` and the list it inserts into | `RtSem`, `RtMutex`, `RtQueue` |
| `RtSem` | the semaphore with timeouts, reset, detach, priority changes | `MCRtSem` |
| `CountingSem` | what a semaphore promises (abstract) | `RtSem!Abstract` |
| `RtMutex` | the mutex with inheritance, timeouts, sleep, deletion | `MCRtMutex` |
| `RtQueue` | the mailbox and the message queue | `MCRtQueue` |
| `BoundedQueue` | what both promise (abstract) | `RtQueue!Abstract` |
| `RtTimer` | timers, the tick interrupt of both cores, the timer thread | `MCRtTimer` |
| `HwSem` | the hardware semaphore's driver on both sides, with the completion | `MCHwSem` |
| `IpcListProofs` | lemmas about the lists: insertion, removal, order | the three below |
| `RtSemProofs`, `RtMutexProofs`, `RtQueueProofs` | theorems about the kernel objects | |
| `RtTimerProofs`, `HwSemProofs`, `PdmaMemfunProofs`, `PdmaChannelProofs` | theorems about the other modules | |

### PdmaMemfun

One thread is one caller of `nu_pdma_memfun`; `pc` names the statement it is at.
Each action is one call or one memory access of the function:

| Actions | Code |
|---|---|
| `EmployTake`, `EmployLock`, `EmployFind`, `EmploySet`, `EmployUnlock` | `nu_pdma_memfun_employ`: pool semaphore, pool lock, `nu_cto` of the mask, setting the bit (a load and a store), unlock |
| `Setup`, `Trigger`, `WaitTake`, `Collect` | memory control, filter and callback; `nu_pdma_transfer`, whose result is not looked at; the wait; the count, and termination after an abort |
| `FireLock`, `FireLoad`, `FireClear`, `FireUnlock`, `PoolRelease` | giving the actor and the token back |
| `IsrEnter`, `IsrReadAbt`, `IsrReadTd`, `IsrServe`, `IsrExit` | `nu_pdma_isr`: the reads of `INTSTS`, `ABTSTS`, `TDSTS`, the write-one-to-clear writes, one turn of the loop per channel with `nu_pdma_memfun_cb` |
| `HwDone`, `HwAbort`, `HwPeriphDone`, `HwPeriphTimeout` | the hardware (external): flags may rise between any two steps |

`mask` is the set of 1-bits of `nu_pdma_memfun_actor_mask`, `memSem` and `poolSem`
are semaphore values, `poolLock` the owner of the lock, `result` the event word the
callback stored.  `total` and `moved` are the units a channel was started with and
those it has moved; an abort may come after any of them.  `NonTransferCount` is the field
line 1242 reads: it counts, less one, the units of the descriptor *at hand*, so that
`ret` of an aborted chain counts the descriptors after it as moved.  Counts above
`MaxTxCnt` make a chain, of which `Planned` is what the engine moves (`PdmaChannel` has
the descriptors).  The waiting itself is abstracted to "the value is positive": that
the kernel's semaphore is a counting semaphore is what `RtSem` shows.

### PdmaChannel

One action per driver call (`Allocate`, `Free`, `Terminate`, `MemctrlSet`,
`Transfer`, and the outcomes of a long transfer `Chain`, `ChainRefused`,
`ChainNoMemory`, `ChainNullTable`), and two of the engine (`HwStep`, `HwAbort`,
external).  A descriptor is a record of count, addresses, width, increment flags
and whether it is silent; the count is stored less one and modulo the field's size
as `nu_pdma_desc_setup` and the register do it.  `tbl`, `wanted` and `live` follow
`m_ppsSgtbl`, `m_u32WantedSGTblNum` and the heap.  A driver starts a transfer on its
own channel only when the previous one was reported or terminated (`~waiting`),
which is how the drivers in the repository use their channels.

### IpcList, RtSem, CountingSem

A list of suspended threads is a sequence.  In `RtSem` `TakeNow`, `TakeWait` and
`TakeReturn` are the locked regions of `rt_sem_take`; `Timeout` is
`_thread_timeout`, run by the tick interrupt; `ReleaseHandOver` and `ReleaseCount`
are the branches of `rt_sem_release`; `Reset` is `rt_sem_control`; `DetachCheck` and
`DetachPop` are the loop of `_ipc_list_resume_all`, which detach and delete run
without the lock, so its test and its body are two steps.  A failed try or a full
release changes nothing and is a stuttering step.  If the last waiter leaves between
test and body, `list->next` is the list head and is resumed as if it were a thread:
the model records `stray` and stops, since what follows depends on the memory around
the object.

`CountingSem` has three variables, `free`, `waiting` and `granted`.  The refinement
mapping takes `granted` to be the resumed threads whose `error` is still `RT_EOK`:
those carry a token until `rt_sem_take` returns.  The way of queueing (`flag`,
`RT_IPC_FLAG_FIFO` or `PRIO`) is chosen once; `shuffled` remembers that the priority of
a waiter was changed, after which its place is no longer that of its priority.

### RtMutex

`TakeAgain`, `TakeFree`, `TakeWait`, then after `rt_schedule` `TakeGot` or
`TakeFailed`, are the parts of `rt_mutex_take`; `ReleaseOne`, `ReleaseFree`,
`ReleaseHandOver` those of `rt_mutex_release`; `Timeout`, `Sleep`, `Wake` and
`Delete` belong to `thread.c`.  The recursion of `_thread_update_priority` is a
recursive function over the depth (`UpdatePriority`), one `UpdateLevel` per thread
of the chain, on a record of the kernel state.  An assertion (`setup.debug`) or a
dereference of a null owner sets `fault` and the kernel stops.  `setup` is one of
`Setups`, chosen in the initial state and then fixed: the ceilings, whether waits are
timed, owners wait for other mutexes, threads sleep or are deleted, and whether
assertions are compiled in.

### RtQueue, BoundedQueue

Both objects have the same waiting loops (`SendWait`, `RecvWait`): a resumed thread
(`"back"`) looks again and finds a message or room, waits anew with what is left of
its timeout, or gives up.  `MbSend`, `MbUrgent` and `MbRecv` are one locked region
each.  A call on a message queue is a locked region that takes a cell (`MqSend`,
`MqUrgent`, `MqRecv`), a copy without the lock (`MqCopyIn`, `MqCopyOut`) and a locked
region that links or frees it (`MqLink`, `MqFree`); `hand` is the cell meanwhile.
`WakeReceiver` and `WakeSender` resume the first waiter and nothing else:
`Timeout` is `_thread_timeout`, `Fail` the error return, `Reset` both control
functions.  `kind` is fixed in the initial state.

`BoundedQueue` has a sequence of messages and the room beside it, the offers of senders
whose calls are not over, who of them was refused, what each call returned (`ret`) and
what each receiver got.  A message enters the sequence in the step in which its call
succeeds; a call fails only without room, or refused by its timeout or a reset; only a
receiver or a reset takes messages away.  For the message queue the mapping reads the
messages out of the linked cells, and lets a receiver have what its cell contains
from the moment it is unlinked; a cell overwritten too early therefore breaks the
refinement, and so does a message lost between a sender's cell and the queue.

### RtTimer

`hard` and `soft` are the two ordered lists, `hserv` and `sserv` the timer on the
temporary list of `rt_timer_check` and `rt_soft_timer_check` while its callback runs.
A callback of a hard timer runs under the lock on one core, that of a soft timer in
the timer thread without it; in both, and from other threads, `Start`, `Stop`,
`Detach` and `SetTime` may come.  `Tick` is the first core's tick interrupt and
`TickOther` the second core's, which runs `rt_timer_check` as well but does not
advance the system's tick; both read the tick before they take the lock.
`Look`, `Suspend`, `Delay`, `Sleep` and the `Soft...` actions are the timer thread,
whose sleep is a hard timer of its own (`Self`); `CheckFire` on it is
`_thread_timeout`.  `due`, the ticks really left, is a history variable: properties
compare it with what the code concludes from wrapped counts.

### HwSem

Two sides, one register.  `sem` is the key in `SEM[id]`; `WriteSem` is the hardware
(external): the same write locks a free semaphore and unlocks one locked with that
key, and an unlock raises the flag of both sides whether their interrupt is enabled
or not.  The driver relies on the latter: it looks at the register before it enables
the interrupt.  `Take`, `IsLocked`, `GetKey`, `EnableInt`, `CompletionWait`, `Woken`,
`Lock`, `Verify` and `DisableInt` are the register accesses and calls of
`nu_mutex_take`, `Release` is `nu_mutex_release`; `InitCheck` and `InitOwner` are the
two steps of `nu_mutex_init`.  `Isr`, `CompletionRead` and `CompletionDone` are
`nu_hwsem_isr` with the unlocked and the locked part of `rt_completion_done`.
`Affinity` says on which cores the scheduler may run a thread: a thread that is not
bound may take on one core and try to release on the other.  `Stop` is `nu_rtp_stop`,
with which the A35 holds the M4 in reset, perhaps for good; the register keeps what the
M4 wrote.  `Restart` is `nu_rtp_start`, or an M4 that starts again by itself, with the
`rt_hw_hwsem_init` of its image.  Two threads that both find no owner in
`nu_mutex_init`, or an owner that calls `nu_mutex_deinit` while it holds the semaphore
(the code does not look at `hold`), set `broken`, where the model stops.

## 3. Runs

| Run | Instance | Shows |
|---|---|---|
| `pdma_pool` | 2 callers, 2 actors, a peripheral channel with idle timeouts | `ActorExclusive`: two calls never share a channel |
| `pdma_abort` | 2 callers, 1 actor alone on the module, aborts, refused requests, fairness | `EmployFindsActor`: a token always comes with a free actor; `WaitItDone`: the wait ends after the caller's own transfer; `TruthfulCount`: the whole count is returned exactly when the transfer completed, and of one descriptor the units moved, aborted or not; `MemfunReturns`: every call returns |
| `pdma_isr_race` | 2 callers, 1 actor, a peripheral with idle timeouts | **violation** of `WaitItDone`, finding 1 |
| `pdma_chain` | one channel, 3 units per descriptor, counts up to 7, misalignment, failing allocation | `MovesExactly`, `BusyIsAwaited`, `TransfersLeakNothing` |
| `pdma_multiple` | the same with a count of 6 | **violation** of `MovesExactly`, finding 4 |
| `sem_all` | 3 threads, 2 priorities, FIFO and priority queues, up to 2 tokens, every operation, fairness | `ListIsWaiters`, `TimerOnlyWhileSuspended` (the assertion in `_thread_timeout`), `NoWaitWithToken`, `QueueInPrioOrder`, the refinement `IsCountingSem`, and `TakeReturns`: the most urgent waiters are not overtaken for ever |
| `mutex_all` | 3 threads of 3 priorities, 2 mutexes: flat use with a ceiling, timeouts, sleeping owners, deletion, assertions on; and owners that wait for a second mutex, deletion, assertions off | `WaitersListed`, `NoInversion`, `HandedToMostUrgent`, `ExactInheritance` |
| `mutex_nested` | owners that wait for a second mutex, assertions on | **violation** of `SuspendsOnlyItself`, finding 2 |
| `mutex_no_owner` | timeouts | **violation** of `OwnerWhenWaitFails`, finding 3 |
| `queue` | 2 senders, 2 receivers, 2 different messages, a mailbox and a message queue for 2 | `WaitersListed`; `NoForgottenReceiver`, `NoForgottenSender`: whoever sleeps, somebody else is on the way to each message or place; `CellsConserved`; the refinement `IsBoundedQueue`: `RT_EOK` exactly when the message entered the queue, each message received once, unchanged, in order |
| `timer` | a one-shot and a periodic soft timer, a hard timer, the timer thread's own; 2 cores; ticks modulo 8 | `NeverEarly`, `HardOnTime`, `InOrder`, `ActiveIsListed`, `OwnTimerOnlyAsleep` (the assertion in `_thread_timeout`), `SleepsInTime` |
| `hwsem` | a bound and an unbound A35 thread, an M4 thread, nested takes, timeouts, stops and restarts of the M4, fairness | `Exclusive`, `BoundCanRelease`, `NoOrphan`, `FreeIsTaken`: no unlock interrupt is lost |

### Bounds, and why they are enough

* `TokenBound` bounds the tokens on all actors' semaphores together; it stops runs
  in which a flag reported again and again raises an actor's semaphore.  One surplus token already lets a wait end early, which is all
  `WaitItDone` speaks of; the pool's own variables do not depend on it.
* One actor and two callers is the smallest pool that is contended; two actors add
  the choice of an actor and concurrent updates of the mask.  The theorems below
  remove these bounds for the pool.
* In `pdma_abort` `MaxTxCnt` is 2 and the counts 2, 3, 4 are a full descriptor, a chain,
  and a chain whose last descriptor wraps; 0 is a request that is refused.
* In `PdmaChannel` `MaxTxCnt` is 2^16 in the hardware and 3 here; only the quotient, the remainder
  and the wrap of the stored count matter, and counts 0, 1, 3, 4, 5, 7 give none, a
  partial, an exactly full descriptor, and chains of two and three.  Exact multiples
  above one descriptor are left to `pdma_multiple`, because there the property fails.
* `LiveBound` (6 descriptors on the heap) allows a forgotten table and another one
  in use; allocating a freed channel again forgets its table and could go on for ever.
* Three threads give a semaphore two waiters and a releaser, and a mutex the
  classic inversion (high, middle, low); with two mutexes there are chains of two
  owners, as deep as three threads allow.  `RT_MUTEX_HOLD_MAX` is 2 and `NoPrio` 4.
* Two senders and two receivers on two places let a woken thread lose to another, let
  both lists fill, and wrap both offsets of the ring; two messages tell order and
  mix-ups apart.
* `TickMod` is 2^32 in the code and 8 here, so half of it is 3, periods are 1 or 2 and
  every start of the tick count is an initial state.  The code supposes that nothing is
  late by half the range; `InTime` stops the clock when a soft timer, the thread's next
  timeout or the second core's tick is `LateMax` = 2 old.
* A semaphore between one M4 thread and two A35 threads has a handover between sides
  and one between owners of a side; `hold` counts modulo 4 and takes nest twice
  (`MaxDepth` < `HoldMod`, as 256 takes are not nested).
* Callers of the memory service are interchangeable, and so are senders and receivers,
  so the safety runs `pdma_pool` and `queue` use symmetry (in
  `queue` of the messages as well); runs with fairness do not.
* Deadlock is not checked where the system may really stop: a refused request leaves
  its caller waiting, a detached semaphore has no operations left, a faulted kernel
  halts, threads may own each other's mutexes or be deleted, a constraint cuts
  a channel's behaviours, and a broken hardware semaphore ends the model.

### Fairness

Fairness is assumed in three runs.  `pdma_abort`: threads inside the service are
scheduled (weak), a started channel finishes or aborts (the hardware), and a pending
interrupt is taken.  Strong fairness on the pool semaphore and the pool lock
stands for their wait queues: a release hands the token or the lock to a waiter
instead of letting the releaser retake it.  The pool semaphore is
created `RT_IPC_FLAG_FIFO`; a mutex is always in order of priority, so for the lock
the assumption means callers of equal priority.  `MemfunReturns` speaks of
behaviours in which no request is refused.  `sem_all`: the tick
interrupt fires expired timers, resumed threads run, and somebody goes on
releasing.  `hwsem`: threads inside `nu_mutex_take` run and enabled interrupts are
served (weak); nothing makes a holder release, and nothing makes the register fair, so
`FreeIsTaken` promises only that nobody waits for ever for a semaphore that is free.
Nothing is assumed about how soon threads call again.

## 4. Proofs

TLAPS proves every safety property that a run checks, for every value of the
constants the modules' assumptions allow: all 33 invariants, the two action
properties (`NeverEarly`, `TransfersLeakNothing`) and the two refinements
(`IsCountingSem`, `IsBoundedQueue`).  Each proof module has one inductive invariant,
proved preserved action by action (one lemma per action where that takes more than a
few lines); the theorems follow from it.  TLC checked each invariant on the runs'
instances, and on further ones, before it was proved.

| Module | Theorems | Beyond the module's assumptions |
|---|---|---|
| `PdmaMemfunProofs` | `PoolInvariant`, `MemfunTypeOK`, `ActorsExclusive`, `EmploySucceeds` | |
| | `DoneInvariant`, `WaitsForItsTransfer`, `CountIsTruthful` | `ClearsAll` |
| `PdmaChannelProofs` | `ChannelInvariant`, `ChannelTypeOK`, `ChannelBusyIsAwaited`, `ChannelLeaksNothing` | |
| | `ChannelMovesExactly` | `NoMultiples` |
| `RtSemProofs` | `SemInvariant`, `SemTypeOK`, `SemListIsWaiters`, `SemTimerOnlyWhileSuspended`, `SemNoWaitWithToken`, `SemQueueInPrioOrder`, `SemRefines` | |
| `RtMutexProofs` | `MutexInvariant`, `MutexTypeOK`, `MutexWaitersListed` | `KeepsLists` |
| | `MutexHandedToMostUrgent`, `MutexNoInversion`, `MutexExactInheritance` | `KeepsLists`, `WalksToTheEnd` |
| `RtQueueProofs` | `QueueInvariant`, `QueueTypeOK`, `QueueWaitersListed`, `QueueNoForgottenReceiver`, `QueueNoForgottenSender`, `QueueCellsConserved`, `QueueRefines` | |
| `RtTimerProofs` | `TimerInvariant`, `TimerTypeOK`, `TimerActiveIsListed`, `TimerOwnOnlyAsleep`, `TimerHardOnTime` | |
| | `TimerInOrder`, `TimerSleepsInTime`, `TimerNeverEarly` | `LateFits` |
| `HwSemProofs` | `HwInvariant`, `HwTypeOK`, `HwExclusive`, `HwBoundCanRelease`, `HwNoOrphan` | |

The extra hypotheses are conditions on constants.  The instances on which the runs check
those properties satisfy them, and none can be dropped: without it there are instances
on which TLC finds the property violated.

* `ClearsAll`: no channel of the module has an idle timeout and nothing is aborted, or an
  actor has the module to itself, where its transfers may be aborted.  Otherwise the
  handler may serve a flag that was raised after it read `INTSTS` and does not clear it:
  finding 1.
* `NoMultiples`: no requested count above `NU_PDMA_MAX_TXCNT` is a multiple of it;
  finding 4 is what happens otherwise.
* `LateFits`: a period plus the lateness tolerated is at most the part of the tick range
  that the comparison `(timer - tick) < RT_TICK_MAX / 2` does not count as expired.  The
  assertion in `rt_timer_start` bounds the period alone, which is enough only if
  nothing is ever served late: with a range of 12, a lateness of 4 and a period of 4 the
  lists get out of order and a timer is called early.
* `KeepsLists`: a system has assertions compiled in, or no timed waits, or no threads
  that block elsewhere.  In the others a thread that timed out on a mutex and then
  sleeps is put back on the mutex's list by `_thread_update_priority`, because its
  `pending_object` was never cleared.
* `WalksToTheEnd`: a system has assertions compiled out, or no thread waits while it
  owns a mutex.  In the others finding 2 stops the kernel after a priority was changed
  and before the list was.

Where the constants are concerned, `RtMutex` and `RtQueue` assume finitely many
threads, because the code's recursion ends and `NoForgotten...` count them, and
`HwSem` that takes do not nest as deep as the hold count's range.

### What callers must do

Some assumptions are obligations of the callers that the code does not check:

* a timer's time is at least 1 (`Times` in `RtTimer`).  The assertions at
  `timer.c:274`, `352` and `585` let 0 pass; a hard timer started with it is due at once,
  and a periodic one is called for ever inside the tick interrupt;
* a hardware semaphore is taken less than 256 times without a release (`MaxDepth` <
  `HoldMod`), initialised by one thread at a time and released before `nu_mutex_deinit`.
  `HwSem` contains violations of the last two and claims nothing after them (`broken`);
* a driver starts a transfer on its own channel only when the one before was reported or
  terminated (`PdmaChannel`).

### The arguments

**Memory service.**  Two callers never share an actor only because the
mask is exactly the set of actors of the callers between setting and clearing their
bit (`MaskExact`), because a mask that was loaded is still current when it is stored
(`ShadowFresh`), and that because whoever is in the critical section owns the lock
(`LockHeld`).  That a search finds a 0-bit is a counting argument
(`FreeActorExists`): the semaphore's value plus the callers that hold a token is the
number of actors (`TokenCount`), the searcher is a token holder and not an owner,
and owners have different actors (`OwnersDiffer`), so the 1-bits are fewer than the
actors.  `PoolInv` is the conjunction of these with `TypeOK`.  `DoneInv` follows one
end of transfer on its way from the `TDSTS` bit through the handler's local copy to the
actor's semaphore, and one abort from `ABTSTS`.  Where `ClearsAll` holds, `INTSTS`
announced every flag the handler reads afterwards, so that it clears what it serves
(`Announced`, `InHand`): with transfer-done flags only, because `INTSTS` shows `TDIF`
whenever the handler runs; with one actor, because it raises no second flag before the
first was served.  A report is then in at most one of those three places, and only while
the thread that started the transfer waits for it and the channel has ended
(`OneReport`); and what a thread collects is that report (`Reported`).  For the count
(`CountInv`) two facts carry over from the start of a transfer to its collection: the
channel was started with the count the caller asked for (`Asked`), and it moved all of the
plan if it is done and less if it was aborted (`Moved`).  With one descriptor the field
that is read is then what is left of the count.

**Channels.**  `Engines` says that the descriptors an engine has left are a suffix of
the chain the transfer was cut into, that what it moved is the part before it, and that
only the last descriptor is not silent; `MovesExactly` and `BusyIsAwaited` are that
statement at the end of the chain.  `Heap` says that `live` is at least the number of
descriptors in the tables; that number is a recursive function over the channel number
(`InTables`), and that a change of one table changes it by as much is an induction.

**Semaphore.**  `SemInv` is the conjunction of the five invariants and of
`WaitsWithoutError`: a suspended thread's `error` is still `RT_EOK`.  Without it a
resumed thread might look like one that failed, and the refinement mapping, which
reads `granted` off `error`, would lose a token.  Each action is then a step of
`CountingSem` or leaves its three variables alone.

**Mutex.**  The actions compute a record of the kernel state in several stages, so the
invariant is stated of such a record (`KernelOK`) and kept by every stage: one level
of `_thread_update_priority` (`LevelKeeps`), all levels (`UpdateKeeps`), a waiter that
leaves (`WaiterGoneKeeps`), a release (`DisinheritKeeps`).  For the priorities the
levels keep a weaker statement (`Covered`): everybody is as urgent as its mutexes
require, except the thread the next level will change.  That nothing is left to change
when the recursion ends is `WalkCovers`: while priorities rise, the threads less urgent
than the priority passed on become fewer with each level, and while they fall, the
threads that still have the priority given back; so a walk has no more levels than there
are threads.  This also justifies the depth `UpdatePriority` uses, and it covers chains that
close (a deadlock).  `Exactly` is the same with equalities, for systems without timeouts
and ceilings.

**Queues.**  `WaitInv` says which threads are on which list, `CountInv` that a sleeper is
outnumbered by resumed threads (the cardinality of `Resumed` must grow with each message
and shrinks only when one is taken), `CellInv` that the ring's offsets differ by
`entry`, or that the cells partition into queue, free list and hands.  For the
refinement, the copy outside the lock changes nothing abstract because nobody else has
that cell; that a call which gives up found no room, and that one which enters its
message had a place, is the room counted in both specifications, with the cells in hands
(`Held`) kept apart.  `Running` says that the result of a call that is not over is still
"none".

**Timers.**  The key relation is between the wrapped `timeout` and the history variable
`due`: `timeout - tick` is `due` modulo the range.  Insertion compares wrapped
differences, and `LateFits` makes the comparison agree with that of `due`.
`TimerHardOnTime` needs no such bound: a hard timer is never late, so the assertion in
`rt_timer_start` is enough to keep the hard list in order, and its first timer is served
in the tick in which it is due.

**Hardware semaphore.**  `HwInv` adds to the properties where the key is: a thread that
has written and not yet verified is the only one whose key the register can hold.
The part about owners (`LockInv`) is claimed until `broken`: two owners from
`nu_mutex_init`, or one that left with the lock.

The prover cannot instantiate the library's induction theorems, which take an operator.
Where an induction over a number is needed, a lemma (`UpTo`) states it for a *set*: a set
that contains 0 and with each number the next contains all up to the bound.

### Only model-checked

The liveness properties `MemfunReturns`, `TakeReturns` and `FreeIsTaken`: liveness under
fairness is out of the prover's reach.

## 5. Findings

1. **The end of a transfer can be reported twice** (`pdma_isr_race`).
   `nu_pdma_isr` decides from the `INTSTS` it read first whether to clear `TDSTS`,
   which it reads later.  A channel that finishes in between, while the handler runs
   for another channel's timeout, is served and its flag stays up; the second
   report lets the next call on that actor return before its transfer has ended.
2. **An owner that waits trips an assertion** (`mutex_nested`).
   `_thread_update_priority` requeues a suspended owner through
   `rt_thread_suspend`, which asserts that its argument is the running thread.
3. **A null owner is read** (`mutex_no_owner`).  A waiter that timed out looks at
   `mutex->owner->current_priority`, though the owner may have released meanwhile.
4. **A long transfer of an exact multiple moves too much** (`pdma_multiple`).
   `_nu_pdma_transfer_chain` adds a descriptor of zero units, which the hardware
   reads as the largest count.

Limits of the code the passing runs stay clear of; `PROJECT.json` has each under
"hazards":

* `_ipc_list_resume_all` without the lock can resume the list head (`stray` in
  `RtSem` is reachable);
* changing the priority of a thread that waits for a semaphore does not reorder the
  list; `QueueInPrioOrder` and `TakeReturns` speak of behaviours without such a change
  (`shuffled`);
* with timeouts and two waiters a boost can stay with a former owner, so
  `ExactInheritance` is claimed for the setup without timeouts;
* `pending_object` survives a failed wait, and a sleeping owner is then requeued on
  the wrong mutex when assertions are off;
* a mutex with a ceiling is not on its first owner's taken list and does not raise
  the thread it is handed to, so `NoInversion` leaves such mutexes out;
* a failed allocation leaves `m_u32WantedSGTblNum` set, and the next transfer of that
  size uses a null table (`ChainNullTable`);
* a request refused by `nu_pdma_transfer` blocks its caller, with the actor, for ever;
* a soft timer started after the timer thread found the list empty, or read its first
  timeout, and before it sleeps does not wake it; a tick between the computation of the
  delay and the sleep is slept again.  `missed` records both, and `SleepsInTime` shows
  that there is no third way to oversleep;
* a periodic timer made one-shot in its own callback stays active on no list;
* two threads that call `nu_mutex_init` at the same time may both become the owner
  and an owner may call `nu_mutex_deinit` with the semaphore locked (`broken` in `HwSem`
  is reachable); a thread that moves to the other core cannot release what it took, and
  neither can an M4 that is stopped for good;
* of an aborted chain `nu_pdma_memfun` counts the descriptors after the one at hand as
  moved; `TruthfulCount` gives the number only for one descriptor;
* a timer may be given a time of 0.

## 6. Not modelled

`PROJECT.json` gives the reason component by component.  In short: two threads
allocating PDMA channels at the same time (the code takes no lock), caller-built
scatter-gather tables, callback registration beyond the memory service's own;
changing the ceiling of a mutex in use; detaching or deleting a mutex, a mailbox or a
message queue (the wake-up loop they share is in `RtSem`); changing a timer's kind and
setting the tick; two hardware semaphores of one side, which share the interrupt enable
register, and the loading of the M4's image; the scheduler's ready queues; heap arithmetic; drivers that poll registers;
start-up code; third-party code.

The liveness of the timer thread (every soft timer is eventually served) is not
checked: it does not hold for a timer started in the window above, and the state space
with the strong fairness the lock needs is beyond TLC at any bound at which timers
overlap.

## 7. Plan

Done first, because everything blocks on them: the PDMA service, the semaphore, the
mutex, the channels; then the mailbox and message queue, the timers, and the hardware
semaphore with the completion; then the proofs of their safety properties.  Next, in this order:

1. Proofs: `Leaked` as an invariant rather than a step property.
2. `Whc`: buffer, busy channel and completion; `UartDma`: circular reception.
3. `RtEvent`; the work queue.
4. `nu_pdma_memcpy` around `PdmaMemfun`: the split into widths and its remainder,
   checked against a byte-by-byte copy.
5. Composition of `PdmaMemfun` with `CountingSem` in place of plain values, so that
   the waiting of the service rests on the refinement.
