# Verification of the GP2X kernel's synchronisation core

The repository is a Linux 2.6.24 kernel ported to the GP2X handheld (MagicEyes
MMSP2 / MP2520F, an ARM920T). The configuration is `kernel/mmsp2_config`:
uniprocessor, no kernel preemption, tickless with high resolution timers,
`RWSEM_GENERIC_SPINLOCK`, `HARDIRQS_SW_RESEND`, `DEBUG_SHIRQ`. Source paths below
are relative to `kernel/linux/`.

This directory models, in TLA+, the parts of the kernel that every driver of the
port stands on and that are hardest to test: the sleeping locks, the workqueues,
the softirqs and timers, the interrupt layer down to the MMSP2 controller, and on
top of them the serial driver of the port. TLC checks small instances; TLAPS
proves the safety of the locks, the workqueues, the softirqs, the timers, both
interrupt layers and the serial port for any number of tasks, works, timers, tasklets,
drivers and users, and for timer vectors of any size. The generic parts are modelled as
they are written, for several CPUs and for CPUs that are unplugged, although the GP2X
has one.

## 1. Inventory

| component | state | operations | interacts through |
|---|---|---|---|
| read/write semaphores (`lib/rwsem-spinlock.c`, `kernel/rwsem.c`) | `activity`, `wait_list`, the `rwsem_waiter` on each sleeper's stack | down/up/trylock/downgrade, non-owner release | `wake_up_process`, `task_struct` references |
| mutexes (`kernel/mutex.c`, `asm-generic/mutex-xchg.h`) | `count`, `wait_list`, waiters on stacks | lock, interruptible lock, trylock, unlock | scheduler, signals |
| workqueues (`kernel/workqueue.c`) | PENDING bit and cwq pointer of `work->data`, `worklist`, `current_work`, timer | queue, queue delayed, run, flush, cancel | timers, wait queues, completions, kthread |
| generic interrupt layer (`kernel/irq/`) | `irq_desc`: status flags, `depth`, action chain; `irqs_resend` | request, free, disable, enable, synchronize, flow handlers, resend | chip callbacks, drivers' handlers, a tasklet |
| MMSP2 interrupt controller (`arch/arm/mach-mp2520f/irq.c`) | `SRCPEND`, `INTPEND`, `INTMASK`, timer and UART sub-registers | ack, mask, unmask, chained demultiplexing | the interrupt layer |
| softirqs and tasklets (`kernel/softirq.c`, `interrupt.h`) | pending mask and tasklet lists per CPU, SCHED, RUN and `count` per tasklet | raise, schedule, run, disable, enable, kill, bottom halves off and on, takeover | interrupts, ksoftirqd |
| kernel timers (`kernel/timer.c`) | five vectors per CPU, `timer_jiffies`, `running_timer`, `timer->base` | set, delete, delete synchronously, run, next expiry, migrate | timer interrupt, softirq |
| MMSP2 clock events (`timecs.c`) | match register, free running counter, mode | set_next_event, set_mode, interrupt | clockevents core |
| MMSP2 UART (`drivers/serial/mp25xxf_uart.c` on `serial_core.c`) | `tx_claimed`, `rx_claimed`, `xmit` ring, FIFOs | startup, shutdown, start/stop, rx/tx interrupt | interrupt layer, tty |
| MMSP2 MMC, NAND, framebuffer, DMA | registers, current request | request, interrupt | block, mtd, fb cores |
| hrtimers, RCU, SRCU, kthread, kfifo, futex, rtmutex | per-file | per-file | everything above |
| scheduler, mm, fs, block, net, other drivers | unchanged Linux 2.6.24 | | |

What is hard: sleep/wakeup races (stores that a sleeper sees without the lock);
exchanges on a counter without the lock; a state bit with several possible
owners; values read before a lock and used under it; handlers that are entered
again while they run; waits for somebody who may never come. `PROJECT.json` lists
these hazards line by line, with the property that would catch each.

What makes each modelled component correct:

* rwsem: a writer is alone; the counter is exact; a waiter that can be granted is
  granted, in order, woken and never touched after it is gone.
* mutex: exclusion, whatever the windows between two exchanges; no waiter
  structure survives its stack frame; no sleeper is forgotten.
* workqueue: one owner of PENDING; cancel and flush are synchronous; queued work
  runs; flush and cancel end.
* interrupts: handlers of a line are serialised; free and disable are synchronous
  and disables nest; no interrupt is lost; no enabled line stays masked.
* softirqs: a tasklet is claimed once and strictly serialised; what is scheduled is
  left where somebody will look, and runs.
* timers: a timer runs with the tick it names, whatever the cascades and the wrap;
  its base is the one whose lock protects it; a synchronous delete is synchronous.
* MMSP2 interrupts: a source is enabled exactly while its handler is not active;
  demultiplexers serve every source and come to rest.
* serial port: it is up exactly while it has users; whoever uses it when it goes
  down, or sleeps for it, is told; flags and interrupt lines agree.

## 2. Modules

| module | models | proved |
|---|---|---|
| `FairRwLock` | abstract first-come first-served read/write lock | |
| `RwSem` | `rwsem-spinlock.c`; refines `FairRwLock` | `RwSemProofs`, the refinement too |
| `Mutex` | `mutex.c` on the xchg fast paths | `MutexProofs` |
| `WorkQueue` | `workqueue.c` | `WorkQueueProofs` |
| `IrqFlow` | `kernel/irq/`, one line with an MMSP2 chip | `IrqFlowProofs` |
| `Softirq` | `softirq.c` and the tasklets of `interrupt.h` | `SoftirqProofs` |
| `TimerQueue` | abstract: a timer runs with the tick it names | |
| `TimerWheel` | the vectors of `timer.c` on one CPU; refines `TimerQueue` | `TimerProofs`, the refinement |
| `TimerSync` | the locking of `timer.c` between CPUs | `TimerProofs` |
| `Mmsp2Irq` | `mach-mp2520f/irq.c` with nested level flow handlers | `Mmsp2IrqProofs` |
| `Uart` | `serial_core.c` and `mp25xxf_uart.c`, one port | `UartProofs` |
| `MC*` | symmetry sets and the values of constants for TLC | |

### RwSem

Variables carry the names of the fields and locals. Everything done under
`sem->wait_lock` that only its holder sees is one step. `waiter->task = NULL`,
`wake_up_process` and `put_task_struct` are separate steps, because the waiter
looks at its `task` pointer without the lock: `Grant*`, `WakeUpProcess` and
`PutTask` are the waker's, `Check` and `Schedule` the waiter's. `usage` counts
`task_struct` references. `UpReadNonOwner` is the release by an I/O completion
(`fs/direct-io.c`), which lets the task that took the lock exit; `SpuriousWake`
is a wakeup meant for something else.

`FairRwLock` says what the callers rely on: requests are queued in order and
granted from the head, readers together, writers alone. A reader group that the
code wakes one by one is a sequence of abstract grants.

### Mutex

`count` is 1 (free), 0 (held) or -1 (held, contended). Each `atomic_xchg` is one
step. The holder is not recorded in the code; it is the task at `own` or `done`.
The spinlock-based trylock of `mutex.c` is unreachable with `mutex-xchg.h`.

### WorkQueue

`pending` and `wqdata` are the two halves of `work->data`. `ins[w]` is a
`__queue_work` or `queue_delayed_work_on` under way, so that the stores without a
lock (the bit, the pointer, the link) are visible one by one, with two exceptions:
`AddTimer` stores the pointer of a delayed work together with `add_timer`, and
`CancelDelayedWork` clears the bit together with a successful `del_timer_sync`. The
timer is armed by nobody else in between, since the bit is set throughout. `on[t]` is the CPU
on which a canceller has interrupts off: nothing else runs there. A barrier is
named by the task that waits for it. `fn[c]` is the stack of functions of a worker;
only functions that flush their own workqueue make it longer than one. `owed` is a history variable for the flush.

### IrqFlow

`status` is the set of flags. An `Entry` is one activation of the flow handler:
from the hardware, or from the resend tasklet. With `Smp = FALSE` the entries
form a stack, because `handle_IRQ_event` turns interrupts on; otherwise they run
in parallel. The MMSP2 chips have no enable/disable, so `default_disable` does
nothing and a disabled line is masked by the next interrupt, lazily.
`handle_irq` is the flow handler of the line, chosen when the controller is
initialised; `Flows` gives the ones a run considers. The stuck-line detection
writes the descriptor without its lock, so `CanStick` belongs to one CPU.
`quiet[d]` records that `disable_irq` of driver d has returned.

### Softirq

`soft[c]` is the frame of `__do_softirq` on CPU c, with the rest of the mask, the
list taken by `tasklet_action` and the passes left. A step is a region with
interrupts off, one atomic operation on a tasklet or one read of the mask;
`HardIrq` is a whole interrupt, whose `irq_exit` begins a frame unless it returns
to one or to a section with bottom halves off. `op[u].cpu` is the CPU on which task
u has bottom halves off. `kpc` and `kstate` are the ksoftirqd thread and its task
state: it reads the mask after it has set TASK_INTERRUPTIBLE. When its CPU is dead
it runs elsewhere and reads the mask there, as the code does. `hot` follows the
callback: the CPU leaves `online`, the thread is stopped, the lists are taken over.
A task does not call `tasklet_kill` with bottom halves off, which would spin for
ever.

### TimerWheel and TimerQueue

`where[t]` is the list of a timer. The word is exactly as wide as the five vectors
together, as in the code (8 + 4 * 6 = 32 bits), but each is smaller, so that a run
goes round all of them; arithmetic is modulo the word throughout. The constants are the
sizes of the vectors: shifting by `TVR_BITS` is dividing by `TVR_SIZE`, and masking is
the remainder.
`InternalAddTimer` takes the tick as a parameter because `cascade` uses it too.
`NextTimerInterrupt` is the set of values `__next_timer_interrupt` may return: which
timer of a list is first is left open. `TimerQueue` has no vectors: processing a
tick makes due exactly the timers that expire with it and those set into the past. It
has the constant `Offsets` of the wheel, the distances at which timers are set.

### TimerSync

`base[t]`, NULL while a timer moves, and `linked[t]`, the CPU whose lists it is in,
are separate, as in the code. The holder of a base's lock does everything in one
step, so no lock is held between steps; the reads outside the lock
(`lock_timer_base`, `timer_pending` in `del_timer`) are steps of their own. A
handler is the actor of its CPU and may set or delete any timer. `running` outlives
the handler until `__run_timers` ends or finds the next timer. The rules that
`del_timer_sync` states for its callers are in `Begin`: nobody but the handler sets
the timer meanwhile. `add_timer_on` is called on an idle timer by its only user.

### Mmsp2Irq

Sources carry the numbers of `irqs.h`. The stack holds what is active on the one
CPU: a demultiplexer with the mask it has read, or a level flow handler before
(`run`) and after (`done`) the driver's handler. Interrupts are on in a handler
unless it is a timer's (IRQF_DISABLED), so the controller can interrupt a UART
handler with the very demultiplexer that called it. SRCPEND and INTPEND are written
together and are one set. External, and an assumption: a UART raises its bit while
it wants service and is enabled, and a pending bit is set again for as long as its
line is active. If the controller latched edges only, what arrives between the read
of a status register and the final write to INTPEND would be lost. A match of a
timer without a driver is nobody's.

`disabled` are the sources with IRQ_DISABLED, which `handle_level_irq` does not handle
and does not unmask (`chip.c:350` and `362`). These chips have no `disable`, so
`disable_irq` only sets the flag and the next interrupt masks the source; `enable_irq`
unmasks it. Of the drivers of the port only `mp25xxf_uart.c` calls them: in a task, in
the handler of the line itself (`stop_tx` in `mp25xxf_tx_int`), and, when the line
discipline runs in the interrupt (`low_latency`), in the handler of another of its
lines. `DisableIrq` and `EnableIrq` have these contexts, for any order of calls in
pairs, which is what `tx_claimed` is for; `Uart` has the cases where the flag and the
line part. `enable_irq` under the handler of its own line unmasks it too early, which
the history variable `reopened` records. `UartStartup` is the store of
`mp25xxf_uart_startup` that clears the enable bits of a port; a line that is still
requested then is one that the driver left disabled. `UCON_RX_TIMEOUT` is set when the
receive interrupt is unmasked and stays set when it is masked, as in the code; that it
raises nothing without `UCON_RX_INT` is an assumption on the hardware.

### Uart

`cpu` is the context that goes on until it sleeps: the kernel is not preemptible
and has one CPU, so the steps of a task are cut where it sleeps (the mutex, page
and interrupt allocation, draining, `tasklet_kill`, `close_delay`) and where an
interrupt can see the difference. `tx` and `rx` are the two lines as IrqFlow
describes them: an action and a depth. The ring, the FIFO and the flip buffer are
numbers of characters. `hung[t]` says that the file of t was given
`hung_up_tty_fops`; `Files` are the `tty->count` files. `infotty` says that
`info->tty` is set. The tty layer is the environment: users open, write, control
the flow and close; the events thread echoes characters and obeys STOP and START.
A transmit interrupt may come whenever its line is enabled and the FIFO has room.

`calm`, chosen at the start, says that nobody hangs the tty up and that no signal
ends the wait for the mutex in `uart_get`. `ShutdownWhenUnused` has it as its
premise, because without it it fails: an interrupted open is followed by a
`uart_close` that decrements a count it never incremented (`serial_core.c:1514`),
and a file that is hung up skips the count altogether (`serial_core.c:1227`), so
the port can be shut down under a user, or stay up without one.

## 3. Runs

| run | instance | shows |
|---|---|---|
| `RwSem` | 3 tasks and the completion context | safety, every waiter served, refinement of `FairRwLock` |
| `Mutex` | 3 tasks | safety with signals, trylocks and spurious wakeups; waiters served once newcomers stop; progress |
| `WorkQueueSmp` | 2 CPUs, 1 work, 2 tasks | ownership, cancel, flush, the stale-cwq protocol |
| `WorkQueueFair` | 1 CPU, 1 work, 2 tasks, self-flushing functions, depth 2 | work runs, flush and cancel end |
| `IrqSmp` | SMP, 3 drivers, level and edge | serialisation, synchronous free and disable, masking |
| `IrqUp` | UP, 2 drivers, level and edge, nested disables, stuck lines | the same line on the GP2X; no interrupt is lost |
| `Softirq` | 2 CPUs, one of which may die, 1 tasklet, 1 task | one claim, serialisation, nothing stranded; what is scheduled runs |
| `TimerWheel` | 3 timers, one deferrable, 5 vectors of 4 lists | refinement of `TimerQueue`; the sleep of an idle CPU |
| `TimerSync` | 2 CPUs, one of which may die, 1 timer, 2 tasks | base and lists agree, serialisation, synchronous delete, progress |
| `Mmsp2Irq` | MMC, timer 0, UART 1 transmit and receive | enable bits follow the handlers and `disable_irq`; every source that is not disabled is served |
| `Mmsp2Port3` | UART 0 and UART 3 transmit | violation, see below |
| `Uart` | 2 users, a hangup, ring of 2, FIFO of 1 | receive line and flag agree, users and sleepers are told, the port is up with its users |

The type invariant of a module is a conjunct of its first invariant (`OneOwner`,
`Serialized`, `ScheduledOnce`, `SleepsUntilFirstTimer`, `BaseOwnsTimer`,
`EnabledUnlessInProgress`, `RxClaim`); that of the locks is a theorem of its own.

Bounds. The tasks, works and drivers are few but the interesting orders need no
more: a writer that waits behind a reader and a reader behind it, or two readers
woken together by a writer, are 3 tasks; the trylock window, a waiter and an
unlocker are 3; a stale cwq needs two CPUs, the re-arm race three (the locked
CPU, the worker's and the canceller's); a chain that shrinks under the flow
handler needs an action before and one after the one that is freed. The proofs
of section 5 remove the bounds on tasks, works, timers, tasklets, drivers, nesting and
the buffers of the port, and except for `WorkQueue` on CPUs. Named bounds: `MaxHold`
(disable calls one driver has outstanding; 2 on one CPU, so that a driver nests
its own disables, 1 on SMP, where the drivers' disables nest with each other) and
`MaxDepth` (nested `run_workqueue`, where the code itself complains above 3).
`IrqSmp` requests and frees one driver after the other (`ConcurrentSetup = FALSE`)
and `IrqUp` checks no disable property with stuck lines, for the reasons in section
4; `CancelIsSync` and `FlushIsComplete` are not checked with self-flushing functions
for the same reason.

`MAX_SOFTIRQ_RESTART` (10 in the code) is 2: one restart and one end with work left.
`MaxOps` bounds the calls of a task, `MaxRearm` those of the handlers together: in
`TimerSync` two tasks with three calls each can set, move and delete a timer while
its handler sets it twice more. In `Softirq` the one task makes one call, with or
without bottom halves off, while interrupts and the function itself schedule the
tasklet without a bound. In `TimerWheel` `SetAt` are the jiffies at which timers are
set (in the middle of a turn of the first vector, just before a tick that cascades
all the others, and before the wrap, where they are cascaded too) and `Offsets` the distances; `MaxLag`
is how far `__run_timers` may be behind. With a lag of 2 the offsets 2 and 3, and 14 and
15, can put the earlier of two timers into the next higher vector, whose list is still
to be cascaded: the cases that the tests of `timer.c:699` and `734` are for, which need
two timers that are not deferrable. -1 is the past, 67 and 330 reach the fourth and the
fifth vector. `MaxEvents` bounds the requests of the devices to two, so that one source
asks again under its handler or two of them nest. `XmitSize`, `FifoSize` and `WakeupChars` bound the
serial port: a ring of 2 on a FIFO of 1 can be drained partly and refilled; two
users are one that uses the port, or sleeps in its open, while the other opens or
closes it. Symmetry is used for safety only. Deadlock is
checked in every run except `TimerSync`, whose calls are used up.

Fairness. A context inside the modelled code is scheduled again (weak fairness;
strong for a spinlock that others take and drop), holders release, work functions
and handlers return, timers expire, an interrupt that is pending is taken.
Threads
that interrupts and softirqs take off their CPU get it back (strong fairness in
`Softirq`: the scheduler's promise to ksoftirqd and to tasks); a timer in the lists
of a living CPU expires; a dead CPU is cleaned up; the interrupt controller and the
CPU go on, and a driver's handler returns although others interrupt it and although it
may disable and enable lines on its way (strong fairness of `HandlerServes`). Nothing is assumed of callers beginning an operation. Two properties state their
own premise: `WaitersServed` (no newcomers from some time on; without it two tasks
can starve a sleeper for ever, because every unlock finds the 0 of a task between
its fast and slow path) and `CancelTerminates` (nobody queues or begins to cancel
any more; other cancellers can take the bit away for ever).

## 4. Where the code and its comments disagree

`Mmsp2Port3`, `mach-mp2520f/irq.c:163`: the port of a UART source is taken from the
low four bits of the interrupt number, minus one, as an unsigned short. UART 3 has
the numbers 48 to 51, so its port is 65535, `request_irq` sets a bit far outside the
registers of the UARTs and the interrupt is never enabled; the driver registers the
port all the same.

The following are not runs; each is seen by changing the constants named and adding
the definition to the configuration.

* `workqueue.c:434`: the second read of the cwq can match a pointer that
  `queue_delayed_work` has just stored without a lock; the canceller then believes
  it owns PENDING while a timer is armed, against the comment above
  `try_to_grab_pending`. (`WorkQueueSmp` with three CPUs, `GrabOwnsPending`; with one
  or two it is proved.)
* `workqueue.c:293`: after a nested `run_workqueue`, `current_work` is NULL and
  `cancel_work_sync` does not wait for the outer function. (`WorkQueueFair`,
  `CancelIsSync`.)
* `manage.c:366`: `request_irq` clears `IRQ_INPROGRESS` while a `free_irq` waits for
  it, so an action is freed under its handler, on SMP. (`IrqSmp` with
  `ConcurrentSetup = TRUE`, `FreeIsSync`.)
* `spurious.c:211`: `depth = 1` forgets nested disables. (`IrqUp`, `DisableHolds`.)
* `mp25xxf_uart.c:429`: `uart_close` stops the receiver, which clears `rx_claimed`,
  so `shutdown` does not free the receive interrupt and the next open gets -EBUSY.
  Only a hangup, which does not stop the receiver, frees it. (`Uart`,
  `ShutdownFreesIrqs`.)

On the transmit side `tx_claimed` and the line can part.
While startup sleeps between its two `request_irq` calls, or before it sets the
flags, `tx_claimed` is still 0 although the line is enabled; a `start_tx` in the
window and the `stop_tx` of the handler then leave the flag set on a disabled line.
No comment promises otherwise; `RxClaim` states what does hold.

`check_irq_resend` (`resend.c:71`) stores a copy of the
flags that it took before `chip->enable`, which brings `IRQ_MASKED` back on an
unmasked line. `CheckIrqResend` models it, and `NotLeftMasked` and `NothingLost`
hold all the same: the edge loop unmasks the line once more than it needs to.

## 5. Proofs

Every theorem has the form `Safety => []P` (`Spec => []P` in `Softirq`, where the
fairness is not used, and in `TimerWheel`, which has none) or is a refinement, for all values of the constants that satisfy the `ASSUME` of
the module: NULL is not a task or a CPU, sets that are counted are finite, and flags
are Boolean. Conditions beyond that are hypotheses of the theorem and are named
below. In each module `IInv` is the inductive invariant; it stands at the end of the
component's module, and `Invariance` or `NextInv` is the theorem that it is one, with
a lemma per action or group of actions and under it a step per conjunct.

RwSem. `ListInv` (a task is on the list exactly while it
waits ungranted, once), `LockInv` (only the holder of `wait_lock` is in a wake
function; its `tsk` has been granted the lock), `UsageInv` (the reference count is
exactly the running task plus its waiter), `CountInv` (`activity + woken` is the
number of readers, or there is one writer and no reader), `WakeInv` (what the
waker has established at each step), with `QueueJustified` and `NoLostWakeup`.
`CountInv` is needed because `activity` is wrong while readers are being woken;
`WakeInv` because `__up_read` takes the head for a writer without looking. The
count of readers changes by lemmas on `Cardinality`, one per way a task enters or
leaves the set. From `IInv` follow `TypeCorrect`, `ExclusionHolds`,
`ActivityExactHolds`, `QueueJustifiedHolds`, `NoLostWakeupHolds`,
`TaskStructAliveHolds`. `Refinement` says that the code implements the safety part of
`FairRwLock`: the step lemmas show, next to the invariant, that each step is an
abstract request, grant or release, or none. A grant is the store
`waiter->task = NULL`; the wakeup that follows is a stutter.

Mutex. `IInv` adds `LockInv` (who is inside the spinlock) to the properties, which
are inductive together: exclusion needs the meaning of the count, the lost-wakeup
argument needs to know who is queued and that whoever leaves the transit states
has put the mark back, taken the mutex or woken the head of the list. Lemmas
describe `ListDel` and `Append` on lists without duplicates. From it follow
`TypeCorrect`, `ExclusionHolds`, `NoDanglingWaiterHolds`, `NoLostWakeupHolds`.

TimerSync. `MoveInv`: `timer->base` is NULL exactly while one caller of `__mod_timer`
moves the timer, so that whoever finds a base and locks it has the timer to itself.
`OpInv`: what a call has read outside the lock may be stale, and what it relies on
after it has found `timer->base` unchanged under the lock. `LinkInv` and `RunInv` tie
the lists and `running_timer` to that base, also when `migrate_timers` empties the
base of a dead CPU; `SyncInv` carries the caller's rule of `del_timer_sync`.
From them `BaseOwnsTimerHolds`, `SerializedHolds`, `DeletedIsQuietHolds`.

TimerWheel. The second part of `TimerProofs` has the wheel as an instance, and its
assumption as the hypothesis `Wheel!Constants`: at least 2 lists in the first vector and
4 in the others (256 and 64 in this configuration; with `CONFIG_BASE_SMALL` the vectors
do not cover the word, which is not modelled), a wheel that is less than a quarter of the word behind `jiffies`, timers that are set at most
about half of the word ahead of it, where the sign of a time changes, and less than a
quarter behind. `InTime` is
the heart of the invariant: a timer is in the list of the first vector that comes up
with its expiry, in the list of the current tick if it was set into the past, or in a
list of vector n that is cascaded no later than the expiry, `e % Width(n)` ticks before
it. `LagInv` says that the wheel is at most one tick ahead of `jiffies`, which bounds
how far from the wheel a timer can be set. The argument: each width divides the next
and the word (`Widths`, `Reach`); a list of vector n comes up exactly when the distance
to the expiry is `e % Width(n)` (`Turn`), and all the lower indexes are 0 then, so that
the code cascades that far (`ZeroBelow`); `InternalAddTimer` puts a timer into a list
that has its turn later, or is the list of this very tick (`AddTimer`); so do the
cascades of a tick, in the order of `__run_timers`, for every timer (`CascadePlace`); what
is then in the list of the tick is due, and nothing else (`DueNow`), and what is left is
in time for the next tick (`NextTick`). `WheelStep` shows for each action that it keeps
the invariant and is a step of `TimerQueue` or a stutter; from it `WheelInvariance` and
`WheelImplementsQueue`.

Mmsp2Irq. The enable bits of the main controller, of the timers and of the UARTs
follow the stack of active handlers and the lines that are disabled. `WellFormed` says
that a source has at most one flow handler on the stack and only if it has a driver;
with it `EnabledUnlessInProgress` is inductive: a source with a driver is masked while
its handler is active, unless `enable_irq` was called since, and otherwise it is enabled
or IRQ_DISABLED. Lemmas on push and pop say how the set of sources being served changes.
Hypothesis: `WithoutUart3`. For the sources of UART 3
the property is false, which is the finding of `Mmsp2Port3`; the proof uses the
hypothesis exactly where `port()` must name the register that the source is wired to.

IrqFlow. `Serialized` with `StackInv` (on one CPU the active entries are a stack) says
who may own `IRQ_INPROGRESS`. `RunInv` is needed for `FreeIsSync`: a walk along the
action chain is at an action of a set that is closed under `action->next` and has no
freed member, also while `free_irq` unlinks actions before and behind it. `HoldInv`
identifies `depth` with the set of disable calls that have not been undone. `MaskInv`
says that the edge flow masks an enabled line only for an interrupt that its loop will
still find. Hypothesis of all four theorems: `OrderlySetup`, that on SMP no
`request_irq` runs while a `free_irq` waits, because `manage.c:366` breaks them;
`DisableHoldsHolds` has `~CanStick` too, because of `spurious.c:211` (section 4).

Softirq. The places where a tasklet can be (two lists on each CPU and the list that a
running `tasklet_action` has taken) form one family of queues, and lemmas say what
putting a tasklet on a list, taking the head, and splicing the lists of a dead CPU do
to it. `ClaimInv`: a tasklet is in one position of one queue or held by one
task, exactly when SCHED is set. `LockInv`: RUN is held by one frame. `DisableInv`:
`count` is the number of tasks that disable, and no frame has passed the test of a
disabled tasklet. `NothingStranded` is inductive with these. From them
`ScheduledOnceHolds`, `StrictlySerializedHolds`, `NothingStrandedHolds`.

WorkQueue. Hypothesis of all theorems: `~SelfFlush`, because a nested `run_workqueue`
clears `current_work` (`workqueue.c:293`). `OwnerInv` names the one owner of a set
PENDING bit, and every step either keeps the owner or hands the bit over; `LockInv`
says who holds `cwq->lock` across a step, `InsertInv` that whoever inserts waits for
the end of it, `DataInv` that `work->data` names the list of the work. `BarrierInv`
(the barrier of a task is in one place until it is completed) and the order of the list
give `CancelInv` (a canceller has still to look at the CPU where its work runs, or has
its barrier behind it) and `FlushInv` (what a flush owes is before its barrier). The
lemmas on lists are those of `Append`, of an insertion at the head, of `Head` and
`Tail` and of `ListDel`: who is on the list, once and in which order.

One step does not preserve this for every number of CPUs: the second read of the cwq
in `try_to_grab_pending` (`workqueue.c:434`). `GrabIsExact` says that the read is
conclusive. `SafeIfGrabIsExact` shows, for any number of CPUs, that nothing else
can go wrong: as long as it is, `OneOwner`, `BugOns`, `CancelIsSync` and
`FlushIsComplete` hold. `GrabInv` is inductive with `IInv` for `AtMostTwoCpus`: the
canceller holds the lock of one CPU and has the interrupts of one CPU off, so nobody
can store the pointer it compares with, or the work is frozen on the list of the
other CPU, or with another canceller that waits for the same lock. From it follow
`OneOwnerHolds`, `BugOnsHold`, `CancelIsSyncHolds`, `FlushIsCompleteHolds` and
`GrabOwnsPendingHolds` for one CPU, which is the GP2X, and for two. With three CPUs
`GrabIsExact` is false: the third is where the work runs and is queued again.

Uart. Almost everything is done under `state->mutex`, but it is given up between the
parts of an open or a close, and a hangup comes in at any time. `MutexInv` says who
holds the mutex at which label and what he may rely on meanwhile: between `uart_get`
and the end of `uart_block_til_ready` the open is counted and `info->tty` is set; in
`uart_close` after the last user the count is 0; after the shutdown the port is not
initialized until the mutex is released. `RxInv` covers the window between `request_irq`
and `rx_claimed = 1`. `ToldInv` extends `UserTold` to those who are about to become
users: an open under way or asleep that was not hung up finds the port up with
`info->tty` set, which is what lets `uart_shutdown` set TTY_IO_ERROR, or finds the error
set. `WaitInv`: whoever took the port down under a sleeping open is still to wake it.
`CountInv`: `blocked_open` is the number of opens that sleep, which is why leaving the
wait never makes it negative; and when the run is `calm`, `count` is the number of opens
and users that have still to close. The repairs of `uart_close` (`NewCount`) are then
never needed, as `NewCountValue` shows with `Cardinality(Files)`, and a close that
reaches the shutdown leaves no user. From `IInv` follow `RxClaimHolds`, `UserToldHolds`
and `OpenWaitsForPortHolds` with hangups and interrupted opens; the action property
`ShutdownWhenUnusedHolds` follows from it and `TakenDown`, the lemma that only
`CloseShutdown` and `UartHangup` take a port down. The proofs assume a finite set of
users and nothing of `WakeupChars`.

Only model-checked:

* all liveness and the fairness part of the refinement of `FairRwLock`: fairness and
  ENABLED are out of the prover's reach;
* `SleepsUntilFirstTimer`, the search of `__next_timer_interrupt`: that the first list
  found is the earliest is a statement about the order of all the expiries in five
  vectors at once, with `CHOOSE` over sets of them, which the provers do not find;
* `WorkQueue` with functions that flush their own workqueue.

## 6. Not modelled

* Memory ordering below the barriers the code has: steps are sequentially
  consistent. The GP2X has one CPU.
* Workqueue creation, destruction, hotplug and freezing; the simple, fasteoi and
  per-CPU flows, autoprobe, misrouted-interrupt polling and affinity.
* Softirqs other than the two of the tasklets, `tasklet_kill_immediate`, the start of
  a CPU and its return, `on_each_cpu`.
* Of the timers: `schedule_timeout`, the rounding functions, load average and process
  accounting, and the comparison of the next timer with the next hrtimer. When a
  timer expires is in `TimerWheel` only, moves between CPUs in `TimerSync` only.
* The registers of the clock events driver (`timecs.c`) and the GPIO and DMA
  interrupts, which `irq.c` does not demultiplex.
* Of the serial port: termios and serial_struct settings, modem lines, CTS/RTS and
  throttling, the console (so `do_tty_hangup` calls `hangup`, never `close` for each
  file, `tty_io.c:1459`), suspend and port removal. With them goes every shutdown that
  is not a close or a hangup: `uart_set_info` (`serial_core.c:730`),
  `uart_do_autoconfig` (935) and `uart_suspend_port` (1997) take the port down under a
  user, and `ShutdownWhenUnused` does not speak of them. `uart_wait_until_sent` may end
  at any time. There is no liveness run: what the hardware owes the transmitter is
  not in the source.
* A mismatch of IRQF flags and -ENOMEM, which change nothing.
* The components of section 1 that section 2 does not name.

## 7. Plan

1. Proofs: the search of `__next_timer_interrupt`, from `InTime` and an order of the
   lists by their next turn.
2. `Uart`: throttling (`uart_close` unthrottles through `tty_ldisc_flush` after the
   shutdown, which restarts the transmitter), and the waiting time of
   `uart_wait_until_sent`, where `port->timeout - HZ/50` wraps because the driver
   never sets `port->timeout`.
3. `hrtimer.c` (`hrtimer_cancel` and the switch of the base, after the pattern of
   `TimerSync`), the clock events core, RCU, SRCU, kthread.
4. WorkQueue: destruction and hotplug. MMC host: request, timeout and card removal.
