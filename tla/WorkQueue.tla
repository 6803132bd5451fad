------------------------------- MODULE WorkQueue -------------------------------
(***************************************************************************)
(* kernel/workqueue.c: one workqueue with a cpu_workqueue_struct and a     *)
(* worker thread per CPU, work items that may be delayed by a timer, and   *)
(* tasks that queue, cancel and flush.                                     *)
(*                                                                         *)
(* A step is what cwq->lock makes atomic.  Steps end where another context *)
(* sees a store without that lock: the PENDING bit and the cwq pointer in  *)
(* work->data, the emptiness of work->entry (try_to_grab_pending may look  *)
(* at it under the lock of the wrong CPU), and the sleep of the worker.    *)
(* Locals go back to their first value where they die.                     *)
(***************************************************************************)
EXTENDS Integers, Sequences, FiniteSets, SequencesExt

CONSTANTS
    Cpu,        \* the CPUs of cpu_populated_map
    Work,       \* work items (struct delayed_work)
    Task,       \* tasks that call the workqueue functions
    Null,       \* NULL
    SelfFlush,  \* work functions flush their own workqueue
    MaxDepth    \* bound: nested run_workqueue calls of one worker

\* A worker that flushes its own workqueue is modelled for one CPU.
ASSUME SelfFlushAssumption ==
    /\ SelfFlush \in BOOLEAN /\ MaxDepth \in Nat \ {0}
    /\ SelfFlush => \E c \in Cpu : Cpu = {c}

\* A __queue_work or queue_delayed_work_on under way: where to and by whom.
Insertion == [cpu : Cpu, by : Task \cup Cpu \cup {"timer"}, step : {"arm", "lock", "add"}]

\* NULL, works, tasks, CPUs and the timer are different things.
ASSUME NullAssumption ==
    /\ Null \notin Work \cup Task \cup Cpu \cup Insertion
    /\ Work \cap Task = {} /\ Cpu \cap Task = {} /\ "timer" \notin Task \cup Cpu

VARIABLES
    pending,    \* pending[w]: WORK_STRUCT_PENDING
    wqdata,     \* wqdata[w]: the cwq in work->data, or Null
    timer,      \* timer[w]: dwork->timer: "off", "armed", or "firing" in its function
    ins,        \* ins[w]: __queue_work under way for w, or Null
    lock,       \* lock[c]: who holds cwq->lock between two steps, or Null
    worklist,   \* worklist[c]: cwq->worklist, of works and of barriers
    current,    \* current[c]: cwq->current_work
    fn,         \* fn[c]: the functions that run on worker c, innermost last
    wstate,     \* wstate[c]: worker's task state with respect to more_work
    wpc,        \* wpc[c]: where worker c is
    pc,         \* pc[t]: where task t is
    arg,        \* arg[t]: the work of the operation of t
    usetimer,   \* usetimer[t]: __cancel_work_timer was given the timer
    cwq,        \* cwq[t]: local of try_to_grab_pending
    on,         \* on[t]: the CPU whose interrupts try_to_grab_pending has off
    ret,        \* ret[t]: local of __cancel_work_timer
    todo,       \* todo[t]: the CPUs a for_each_cpu_mask loop has still to visit
    done,       \* done[t]: the completion of the barrier of t
    owed        \* owed[t]: history: what the flush of t has to wait for

workVars == <<pending, wqdata, timer, ins>>
cwqVars == <<lock, worklist, current, fn, wstate, wpc>>
grabVars == <<cwq, on, ret>>
taskVars == <<pc, arg, usetimer, grabVars, todo, done>>
vars == <<workVars, cwqVars, taskVars, owed>>

\* A barrier is the one on the stack of the task that waits for it.
Item == Work \cup Task

OnList(s, x) == \E i \in 1..Len(s) : s[i] = x

\* list_del_init: x is on the list at most once, and the others keep their order.
ListDel(s, x) ==
    LET i == CHOOSE i \in 1..Len(s) : s[i] = x
    IN  IF OnList(s, x) THEN [j \in 1..(Len(s) - 1) |-> IF j < i THEN s[j] ELSE s[j + 1]] ELSE s

\* The lists that work->entry is linked into.
Entry(w) == {c \in Cpu : OnList(worklist[c], w)}

Init ==
    /\ pending = [w \in Work |-> FALSE]
    /\ wqdata = [w \in Work |-> Null]
    /\ timer = [w \in Work |-> "off"]
    /\ ins = [w \in Work |-> Null]
    /\ lock = [c \in Cpu |-> Null]
    /\ worklist = [c \in Cpu |-> <<>>]
    /\ current = [c \in Cpu |-> Null]
    /\ fn = [c \in Cpu |-> <<>>]
    /\ wstate = [c \in Cpu |-> "run"]
    /\ wpc = [c \in Cpu |-> "prep"]
    /\ pc = [t \in Task |-> "idle"]
    /\ arg = [t \in Task |-> Null]
    /\ usetimer = [t \in Task |-> FALSE]
    /\ cwq = [t \in Task |-> Null]
    /\ on = [t \in Task |-> Null]
    /\ ret = [t \in Task |-> 0]
    /\ todo = [t \in Task |-> {}]
    /\ done = [t \in Task |-> FALSE]
    /\ owed = [t \in Task |-> {}]

\* No canceller keeps the interrupts of CPU c off: spin_lock_irq.
CpuFree(c) == \A t \in Task : on[t] # c

Goto(t, l) == pc' = [pc EXCEPT ![t] = l]
At(c, l) == wpc[c] = l /\ CpuFree(c)
WGoto(c, l) == wpc' = [wpc EXCEPT ![c] = l]

-------------------------------------------------------------------------------
(* Queueing.  Whoever sets the PENDING bit owns the work until it is on a   *)
(* list; ins[w] says on which CPU it goes and who put it there.             *)

InsStep(w, l) == ins[w] # Null /\ ins[w].step = l /\ CpuFree(ins[w].cpu)
Insert(w, c, by) == ins' = [ins EXCEPT ![w] = [cpu |-> c, by |-> by, step |-> "lock"]]

\* test_and_set_bit found the bit clear.  If it was set, queue_work returns 0
\* and changes nothing.
QueueWork(t, w, c) ==
    /\ pc[t] = "idle" /\ ~pending[w] /\ CpuFree(c)
    /\ pending' = [pending EXCEPT ![w] = TRUE]
    /\ Insert(w, c, t)
    /\ Goto(t, "ins")
    /\ UNCHANGED <<wqdata, timer, cwqVars, arg, usetimer, grabVars, todo, done, owed>>

\* queue_delayed_work_on with a delay sets the same bit ...
QueueDelayedWork(t, w, c) ==
    /\ pc[t] = "idle" /\ ~pending[w] /\ CpuFree(c)
    /\ pending' = [pending EXCEPT ![w] = TRUE]
    /\ ins' = [ins EXCEPT ![w] = [cpu |-> c, by |-> t, step |-> "arm"]]
    /\ Goto(t, "ins")
    /\ UNCHANGED <<wqdata, timer, cwqVars, arg, usetimer, grabVars, todo, done, owed>>

\* The timer expires on CPU c and delayed_work_timer_fn starts.
TimerFires(w, c) ==
    /\ timer[w] = "armed" /\ CpuFree(c)
    /\ timer' = [timer EXCEPT ![w] = "firing"]
    /\ Insert(w, c, "timer")
    /\ UNCHANGED <<pending, wqdata, cwqVars, taskVars, owed>>

\* The end of the function that queued w: its task or worker goes on.
InsertReturns(w) ==
    /\ ins' = [ins EXCEPT ![w] = Null]
    /\ pc' = [t \in Task |-> IF ins[w].by = t THEN "idle" ELSE pc[t]]
    /\ wpc' = [c \in Cpu |-> IF ins[w].by = c THEN "func" ELSE wpc[c]]

\* ... stores the cwq for the timer function and adds the timer.
AddTimer(w) ==
    /\ InsStep(w, "arm")
    /\ wqdata' = [wqdata EXCEPT ![w] = ins[w].cpu]
    /\ timer' = [timer EXCEPT ![w] = "armed"]
    /\ InsertReturns(w)
    /\ UNCHANGED <<pending, lock, worklist, current, fn, wstate, arg, usetimer, grabVars,
                   todo, done, owed>>

WakeWorker(c) == wstate' = [wstate EXCEPT ![c] = "run"]

\* Plausible bug: work->data keeps the CPU queue_delayed_work stored there.
SetDataStale(w) ==
    LET c == ins[w].cpu IN
    /\ InsStep(w, "lock") /\ lock[c] = Null
    /\ lock' = [lock EXCEPT ![c] = w]
    /\ wqdata' = [wqdata EXCEPT ![w] = IF @ = Null THEN c ELSE @]
    /\ ins' = [ins EXCEPT ![w].step = "add"]
    /\ UNCHANGED <<pending, timer, worklist, current, fn, wstate, wpc, taskVars, owed>>

\* __queue_work takes the lock, insert_work sets work->data ...
SetData(w) ==
    LET c == ins[w].cpu IN
    /\ InsStep(w, "lock") /\ lock[c] = Null
    /\ lock' = [lock EXCEPT ![c] = w]
    /\ wqdata' = [wqdata EXCEPT ![w] = c]
    /\ ins' = [ins EXCEPT ![w].step = "add"]
    /\ UNCHANGED <<pending, timer, worklist, current, fn, wstate, wpc, taskVars, owed>>

\* Plausible bug: the worker is not woken.
ListAddNoWake(w) ==
    LET c == ins[w].cpu IN
    /\ InsStep(w, "add")
    /\ worklist' = [worklist EXCEPT ![c] = Append(@, w)]
    /\ lock' = [lock EXCEPT ![c] = Null]
    /\ timer' = [timer EXCEPT ![w] = IF @ = "firing" THEN "off" ELSE @]
    /\ InsertReturns(w)
    /\ UNCHANGED <<pending, wqdata, current, fn, wstate, arg, usetimer, grabVars, todo,
                   done, owed>>

\* ... and, after smp_wmb, links the entry and wakes the worker.
ListAdd(w) ==
    LET c == ins[w].cpu IN
    /\ InsStep(w, "add")
    /\ worklist' = [worklist EXCEPT ![c] = Append(@, w)]
    /\ WakeWorker(c)
    /\ lock' = [lock EXCEPT ![c] = Null]
    /\ timer' = [timer EXCEPT ![w] = IF @ = "firing" THEN "off" ELSE @]
    /\ InsertReturns(w)
    /\ UNCHANGED <<pending, wqdata, current, fn, arg, usetimer, grabVars, todo, done, owed>>

-------------------------------------------------------------------------------
(* The worker thread of CPU c *)

\* prepare_to_wait, then the test of the list, then schedule().
WorkerPrepare(c) ==
    /\ At(c, "prep")
    /\ wstate' = [wstate EXCEPT ![c] = "sleep"]
    /\ WGoto(c, "test")
    /\ UNCHANGED <<workVars, lock, worklist, current, fn, taskVars, owed>>

WorkerTest(c) ==
    /\ At(c, "test")
    /\ IF worklist[c] = <<>>
       THEN WGoto(c, "sched") /\ UNCHANGED wstate
       ELSE WGoto(c, "pop") /\ wstate' = [wstate EXCEPT ![c] = "run"]
    /\ UNCHANGED <<workVars, lock, worklist, current, fn, taskVars, owed>>

WorkerScheduled(c) ==
    /\ At(c, "sched") /\ wstate[c] = "run"
    /\ WGoto(c, "pop")
    /\ UNCHANGED <<workVars, lock, worklist, current, fn, wstate, taskVars, owed>>

\* The head of the loop of run_workqueue: the first work becomes current_work
\* and leaves the list; with an empty list run_workqueue returns, to
\* worker_thread or to the work function that flushed.
RunNext(c) ==
    /\ At(c, "pop") /\ lock[c] = Null
    /\ IF worklist[c] = <<>>
       THEN /\ WGoto(c, IF fn[c] = <<>> THEN "prep" ELSE "func")
            /\ UNCHANGED <<worklist, current, fn, owed>>
       ELSE LET w == Head(worklist[c]) IN
            /\ current' = [current EXCEPT ![c] = w]
            /\ worklist' = [worklist EXCEPT ![c] = Tail(@)]
            /\ fn' = [fn EXCEPT ![c] = Append(@, w)]
            /\ owed' = [t \in Task |-> IF <<w, "queued", c>> \in owed[t]
                          THEN (owed[t] \ {<<w, "queued", c>>}) \cup {<<w, "running", c>>}
                          ELSE owed[t]]
            /\ WGoto(c, "clear")
    /\ UNCHANGED <<workVars, lock, wstate, taskVars>>

\* work_clear_pending, outside the lock, before the function is called.
ClearPending(c) ==
    /\ At(c, "clear")
    /\ pending' = [w \in Work |-> IF Last(fn[c]) = w THEN FALSE ELSE pending[w]]
    /\ WGoto(c, "func")
    /\ UNCHANGED <<wqdata, timer, ins, lock, worklist, current, fn, wstate, taskVars, owed>>

\* The function of a work returns; that of a barrier completes it.
FuncReturns(c) ==
    /\ At(c, "func")
    /\ done' = [t \in Task |-> done[t] \/ Last(fn[c]) = t]
    /\ WGoto(c, "fin")
    /\ UNCHANGED <<workVars, lock, worklist, current, fn, wstate, pc, arg, usetimer,
                   grabVars, todo, owed>>

\* A work function queues its own work again, at once or after a delay.
FuncRequeues(c, w) ==
    /\ At(c, "func") /\ w = Last(fn[c]) /\ ~pending[w]
    /\ pending' = [pending EXCEPT ![w] = TRUE]
    /\ Insert(w, c, c)
    /\ WGoto(c, "ins")
    /\ UNCHANGED <<wqdata, timer, lock, worklist, current, fn, wstate, taskVars, owed>>

FuncRearms(c, w) ==
    /\ At(c, "func") /\ w = Last(fn[c]) /\ ~pending[w]
    /\ pending' = [pending EXCEPT ![w] = TRUE]
    /\ ins' = [ins EXCEPT ![w] = [cpu |-> c, by |-> c, step |-> "arm"]]
    /\ WGoto(c, "ins")
    /\ UNCHANGED <<wqdata, timer, lock, worklist, current, fn, wstate, taskVars, owed>>

\* flush_cpu_workqueue called by the worker itself runs the queue by hand.
FuncFlushes(c) ==
    /\ SelfFlush /\ Len(fn[c]) < MaxDepth
    /\ At(c, "func") /\ Last(fn[c]) \in Work /\ worklist[c] # <<>>
    /\ WGoto(c, "pop")
    /\ UNCHANGED <<workVars, lock, worklist, current, fn, wstate, taskVars, owed>>

\* Back under the lock: current_work = NULL.
FuncDone(c) ==
    /\ At(c, "fin") /\ lock[c] = Null
    /\ current' = [current EXCEPT ![c] = Null]
    /\ fn' = [fn EXCEPT ![c] = Front(@)]
    /\ owed' = [t \in Task |-> owed[t] \ {<<Last(fn[c]), "running", c>>}]
    /\ WGoto(c, "pop")
    /\ UNCHANGED <<workVars, lock, worklist, wstate, taskVars>>

-------------------------------------------------------------------------------
(* flush_workqueue *)

FlushWorkqueue(t) ==
    /\ pc[t] = "idle"
    /\ todo' = [todo EXCEPT ![t] = Cpu]
    /\ Goto(t, "flush")
    /\ UNCHANGED <<workVars, cwqVars, arg, usetimer, grabVars, done, owed>>

\* insert_wq_barrier, at the tail or at the head.
InsertBarrier(t, c, list) ==
    /\ done' = [done EXCEPT ![t] = FALSE]
    /\ worklist' = [worklist EXCEPT ![c] = list]
    /\ WakeWorker(c)

\* What is queued or running on c when its flush begins.
ToFlush(c) ==
    {o \in Work \X {"queued", "running"} \X {c} :
        OnList(IF o[2] = "queued" THEN worklist[c] ELSE fn[c], o[1])}

\* Plausible bug: a work that has left the list does not count as active.
ActiveListOnly(c) == worklist[c] # <<>>

Active(c) == worklist[c] # <<>> \/ current[c] # Null

FlushCpu(t, c) ==
    /\ pc[t] = "flush" /\ c \in todo[t] /\ lock[c] = Null
    /\ todo' = [todo EXCEPT ![t] = @ \ {c}]
    /\ owed' = [owed EXCEPT ![t] = ToFlush(c)]
    /\ IF Active(c)
       THEN /\ InsertBarrier(t, c, Append(worklist[c], t))
            /\ Goto(t, "flushwait")
       ELSE /\ Goto(t, "flushed")
            /\ UNCHANGED <<done, worklist, wstate>>
    /\ UNCHANGED <<workVars, lock, current, fn, wpc, arg, usetimer, grabVars>>

\* Plausible bug: the flush looks again whether the queue is empty.
FlushWaitRetests(t) ==
    /\ pc[t] = "flushwait" /\ done[t]
    /\ done' = [done EXCEPT ![t] = FALSE]
    /\ todo' = [todo EXCEPT ![t] = Cpu]
    /\ Goto(t, "flush")
    /\ UNCHANGED <<workVars, cwqVars, arg, usetimer, grabVars, owed>>

FlushWait(t) ==
    /\ pc[t] = "flushwait" /\ done[t]
    /\ done' = [done EXCEPT ![t] = FALSE]
    /\ Goto(t, "flushed")
    /\ UNCHANGED <<workVars, cwqVars, arg, usetimer, grabVars, todo, owed>>

\* flush_cpu_workqueue has returned for one CPU: the next, or the end.
FlushReturns(t) ==
    /\ pc[t] = "flushed"
    /\ Goto(t, IF todo[t] = {} THEN "idle" ELSE "flush")
    /\ owed' = [owed EXCEPT ![t] = {}]
    /\ UNCHANGED <<workVars, cwqVars, arg, usetimer, grabVars, todo, done>>

-------------------------------------------------------------------------------
(* cancel_work_sync, cancel_delayed_work_sync: __cancel_work_timer *)

CancelSync(t, w, tm) ==
    /\ pc[t] = "idle"
    /\ arg' = [arg EXCEPT ![t] = w]
    /\ usetimer' = [usetimer EXCEPT ![t] = tm]
    /\ Goto(t, IF tm THEN "cdel" ELSE "cgrab")
    /\ UNCHANGED <<workVars, cwqVars, grabVars, todo, done, owed>>

\* The end of one grab, successful (r >= 0) or not.
Grabbed(t, r) ==
    /\ ret' = [ret EXCEPT ![t] = r]
    /\ cwq' = [cwq EXCEPT ![t] = Null]
    /\ on' = [on EXCEPT ![t] = Null]
    /\ Goto(t, "cwait")

\* Plausible bug: a timer whose function has started counts as deleted.
CancelDelTimerFiring(t) ==
    LET w == arg[t] IN
    /\ pc[t] = "cdel"
    /\ IF timer[w] # "off"
       THEN timer' = [timer EXCEPT ![w] = "off"] /\ Grabbed(t, 1)
       ELSE Goto(t, "cgrab") /\ UNCHANGED <<timer, grabVars>>
    /\ UNCHANGED <<pending, wqdata, ins, cwqVars, arg, usetimer, todo, done, owed>>

\* del_timer: a pending timer is taken with the PENDING bit.
CancelDelTimer(t) ==
    LET w == arg[t] IN
    /\ pc[t] = "cdel"
    /\ IF timer[w] = "armed"
       THEN timer' = [timer EXCEPT ![w] = "off"] /\ Grabbed(t, 1)
       ELSE Goto(t, "cgrab") /\ UNCHANGED <<timer, grabVars>>
    /\ UNCHANGED <<pending, wqdata, ins, cwqVars, arg, usetimer, todo, done, owed>>

\* try_to_grab_pending: the bit, then the cwq without a lock ...
GrabBit(t) ==
    LET w == arg[t] IN
    /\ pc[t] = "cgrab"
    /\ IF ~pending[w]
       THEN pending' = [pending EXCEPT ![w] = TRUE] /\ Grabbed(t, 0)
       ELSE Goto(t, "cread") /\ UNCHANGED <<pending, grabVars>>
    /\ UNCHANGED <<wqdata, timer, ins, cwqVars, arg, usetimer, todo, done, owed>>

GrabReadCwq(t) ==
    LET w == arg[t] IN
    /\ pc[t] = "cread"
    /\ IF wqdata[w] = Null
       THEN Grabbed(t, -1)
       ELSE cwq' = [cwq EXCEPT ![t] = wqdata[w]] /\ Goto(t, "clock") /\ UNCHANGED <<on, ret>>
    /\ UNCHANGED <<workVars, cwqVars, arg, usetimer, todo, done, owed>>

\* ... then, under the lock of that cwq, list_empty(&work->entry) ...
GrabLock(t) ==
    LET w == arg[t] IN
    /\ pc[t] = "clock" /\ lock[cwq[t]] = Null
    /\ IF Entry(w) = {}
       THEN Grabbed(t, -1) /\ UNCHANGED lock
       ELSE /\ lock' = [lock EXCEPT ![cwq[t]] = t]
            /\ \E c \in Cpu : CpuFree(c) /\ on' = [on EXCEPT ![t] = c]
            /\ Goto(t, "ccmp")
            /\ UNCHANGED <<cwq, ret>>
    /\ UNCHANGED <<workVars, worklist, current, fn, wstate, wpc, arg, usetimer,
                   todo, done, owed>>

\* ... and, after smp_rmb, the cwq again: a work on another list is left alone.
GrabCompare(t) ==
    LET w == arg[t] IN
    /\ pc[t] = "ccmp"
    /\ lock' = [lock EXCEPT ![cwq[t]] = Null]
    /\ IF cwq[t] = wqdata[w]
       THEN /\ worklist' = [c \in Cpu |-> ListDel(worklist[c], w)]
            /\ owed' = [u \in Task |-> owed[u] \ {<<w, "queued", c>> : c \in Cpu}]
            /\ Grabbed(t, 1)
       ELSE Grabbed(t, -1) /\ UNCHANGED <<worklist, owed>>
    /\ UNCHANGED <<workVars, current, fn, wstate, wpc, arg, usetimer, todo, done>>

\* wait_on_work: nothing to wait for if the work was never queued.
WaitOnWork(t) ==
    /\ pc[t] = "cwait"
    /\ todo' = [todo EXCEPT ![t] = IF wqdata[arg[t]] = Null THEN {} ELSE Cpu]
    /\ Goto(t, "cwaitcpu")
    /\ UNCHANGED <<workVars, cwqVars, arg, usetimer, grabVars, done, owed>>

\* Plausible bug: a running work is not waited for.
WaitOnCpuWorkNever(t, c) ==
    /\ pc[t] = "cwaitcpu" /\ c \in todo[t] /\ lock[c] = Null
    /\ todo' = [todo EXCEPT ![t] = @ \ {c}]
    /\ UNCHANGED <<workVars, cwqVars, pc, arg, usetimer, grabVars, done, owed>>

\* wait_on_cpu_work: a barrier right behind the running work.
WaitOnCpuWork(t, c) ==
    /\ pc[t] = "cwaitcpu" /\ c \in todo[t] /\ lock[c] = Null
    /\ todo' = [todo EXCEPT ![t] = @ \ {c}]
    /\ IF current[c] = arg[t]
       THEN InsertBarrier(t, c, <<t>> \o worklist[c]) /\ Goto(t, "cbarr")
       ELSE UNCHANGED <<done, worklist, wstate, pc>>
    /\ UNCHANGED <<workVars, lock, current, fn, wpc, arg, usetimer, grabVars, owed>>

CancelBarrier(t) ==
    /\ pc[t] = "cbarr" /\ done[t]
    /\ done' = [done EXCEPT ![t] = FALSE]
    /\ Goto(t, "cwaitcpu")
    /\ UNCHANGED <<workVars, cwqVars, arg, usetimer, grabVars, todo, owed>>

\* Plausible bug: while (ret <= 0).
CancelLoopOnZero(t) ==
    /\ pc[t] = "cwaitcpu" /\ todo[t] = {}
    /\ Goto(t, IF ret[t] > 0 THEN "cclear" ELSE IF usetimer[t] THEN "cdel" ELSE "cgrab")
    /\ ret' = [ret EXCEPT ![t] = IF @ < 0 THEN 0 ELSE @]
    /\ UNCHANGED <<workVars, cwqVars, arg, usetimer, cwq, on, todo, done, owed>>

\* The condition of the do-while loop.
CancelLoop(t) ==
    /\ pc[t] = "cwaitcpu" /\ todo[t] = {}
    /\ Goto(t, IF ret[t] >= 0 THEN "cclear" ELSE IF usetimer[t] THEN "cdel" ELSE "cgrab")
    /\ ret' = [ret EXCEPT ![t] = IF @ < 0 THEN 0 ELSE @]
    /\ UNCHANGED <<workVars, cwqVars, arg, usetimer, cwq, on, todo, done, owed>>

CancelReturns(t) ==
    /\ pc[t] = "cclear"
    /\ pending' = [pending EXCEPT ![arg[t]] = FALSE]
    /\ arg' = [arg EXCEPT ![t] = Null]
    /\ usetimer' = [usetimer EXCEPT ![t] = FALSE]
    /\ ret' = [ret EXCEPT ![t] = 0]
    /\ Goto(t, "idle")
    /\ UNCHANGED <<wqdata, timer, ins, cwqVars, cwq, on, todo, done, owed>>

\* cancel_delayed_work: del_timer_sync waits for a running timer function.
CancelDelayedWork(t, w) ==
    /\ pc[t] = "idle" /\ timer[w] = "armed"
    /\ timer' = [timer EXCEPT ![w] = "off"]
    /\ pending' = [pending EXCEPT ![w] = FALSE]
    /\ UNCHANGED <<wqdata, ins, cwqVars, taskVars, owed>>

-------------------------------------------------------------------------------
Inserting(w) == AddTimer(w) \/ SetData(w) \/ ListAdd(w)

Worker(c) ==
    \/ WorkerPrepare(c) \/ WorkerTest(c) \/ WorkerScheduled(c)
    \/ RunNext(c) \/ ClearPending(c) \/ FuncReturns(c) \/ FuncDone(c)

Flushing(t) == (\E c \in Cpu : FlushCpu(t, c)) \/ FlushWait(t) \/ FlushReturns(t)

Cancelling(t) ==
    \/ CancelDelTimer(t) \/ GrabBit(t) \/ GrabReadCwq(t) \/ GrabLock(t) \/ GrabCompare(t)
    \/ WaitOnWork(t) \/ (\E c \in Cpu : WaitOnCpuWork(t, c)) \/ CancelBarrier(t)
    \/ CancelLoop(t) \/ CancelReturns(t)

Queueing ==
    \/ \E t \in Task, w \in Work, c \in Cpu : QueueWork(t, w, c) \/ QueueDelayedWork(t, w, c)
    \/ \E c \in Cpu, w \in Work : FuncRequeues(c, w) \/ FuncRearms(c, w)

NewCancel == \E t \in Task, w \in Work, tm \in BOOLEAN : CancelSync(t, w, tm)

Next ==
    \/ Queueing
    \/ \E w \in Work : Inserting(w) \/ \E c \in Cpu : TimerFires(w, c)
    \/ \E c \in Cpu : Worker(c) \/ FuncFlushes(c)
    \/ \E t \in Task :
         \/ FlushWorkqueue(t) \/ Flushing(t) \/ Cancelling(t)
         \/ \E w \in Work : CancelDelayedWork(t, w)
    \/ NewCancel

Safety == Init /\ [][Next]_vars

(***************************************************************************)
(* Timers expire, workers and tasks inside the workqueue code keep         *)
(* running, and work functions return.  A spinlock that is free again and  *)
(* again is obtained.  Nobody has to queue, cancel or flush.               *)
(***************************************************************************)
Fairness ==
    /\ \A w \in Work : SF_vars(Inserting(w)) /\ WF_vars(\E c \in Cpu : TimerFires(w, c))
    /\ \A c \in Cpu : SF_vars(Worker(c))
    /\ \A t \in Task : SF_vars(Flushing(t) \/ Cancelling(t))

Spec == Safety /\ Fairness

-------------------------------------------------------------------------------
\* Inside __cancel_work_timer, anywhere in the functions a task calls, and in
\* worker_thread and run_workqueue.
Cancel == {"cdel", "cgrab", "cread", "clock", "ccmp", "cwait", "cwaitcpu", "cbarr", "cclear"}
TaskPC == {"idle", "ins", "flush", "flushwait", "flushed"} \cup Cancel
WorkerPC == {"prep", "test", "sched", "pop", "clear", "func", "ins", "fin"}

Owed == Work \X {"queued", "running"} \X Cpu

\* The types of the fields and locals of workqueue.c.
TypeOK ==
    /\ pending \in [Work -> BOOLEAN]
    /\ wqdata \in [Work -> Cpu \cup {Null}]
    /\ timer \in [Work -> {"off", "armed", "firing"}]
    /\ ins \in [Work -> Insertion \cup {Null}]
    /\ lock \in [Cpu -> Item \cup {Null}]
    /\ worklist \in [Cpu -> Seq(Item)] /\ fn \in [Cpu -> Seq(Item)]
    /\ current \in [Cpu -> Item \cup {Null}]
    /\ wstate \in [Cpu -> {"run", "sleep"}]
    /\ wpc \in [Cpu -> WorkerPC] /\ pc \in [Task -> TaskPC]
    /\ arg \in [Task -> Work \cup {Null}] /\ usetimer \in [Task -> BOOLEAN]
    /\ cwq \in [Task -> Cpu \cup {Null}] /\ on \in [Task -> Cpu \cup {Null}]
    /\ ret \in [Task -> {-1, 0, 1}]
    /\ todo \in [Task -> SUBSET Cpu]
    /\ done \in [Task -> BOOLEAN]
    /\ owed \in [Task -> SUBSET Owed]

\* A task that owns the PENDING bit of w after a successful grab.
CancelOwns(t, w) == arg[t] = w /\ ret[t] >= 0 /\ pc[t] \in {"cwait", "cwaitcpu", "cbarr", "cclear"}

\* Who owns the PENDING bit of w: an armed timer, an insertion, the list the
\* work is on, the worker between list_del and work_clear_pending, a canceller.
OwnerId(w) ==
    ({"none", "timer", "ins"} \X {w}) \cup ({"list", "clear"} \X Cpu) \cup ({"cancel"} \X Task)

Owners(w) ==
    {o \in OwnerId(w) :
        \/ o[1] = "timer" /\ timer[w] = "armed"
        \/ o[1] = "ins" /\ ins[w] # Null
        \/ o[1] = "list" /\ o[2] \in Entry(w)
        \/ o[1] = "clear" /\ wpc[o[2]] = "clear" /\ Last(fn[o[2]]) = w
        \/ o[1] = "cancel" /\ CancelOwns(o[2], w)}

\* cwq->lock is held over a step only inside insert_work and by
\* try_to_grab_pending.
LockInv ==
    /\ \A c \in Cpu, w \in Work :
         lock[c] = w <=> ins[w] # Null /\ ins[w].cpu = c /\ ins[w].step = "add"
    /\ \A c \in Cpu, t \in Task : lock[c] = t <=> pc[t] = "ccmp" /\ cwq[t] = c
    /\ \A t \in Task : pc[t] \in {"clock", "ccmp"} => cwq[t] \in Cpu
    /\ \A t \in Task : pc[t] = "ccmp" => on[t] \in Cpu

\* The PENDING bit has one owner at a time, and nobody owns a bit that is
\* clear.  The variables keep their types throughout, and a lock its holder.
OneOwner ==
    /\ TypeOK /\ LockInv
    /\ \A w \in Work : Cardinality(Owners(w)) = (IF pending[w] THEN 1 ELSE 0)

\* The BUG_ONs: whoever is about to insert w finds its entry unlinked, and the
\* worker that has taken w off its list finds its own cwq in work->data.  And
\* try_to_grab_pending unlinks an entry only under the lock of the list it is
\* on, even when it took the lock of a cwq that was stale.
BugOns ==
    /\ \A w \in Work : ins[w] # Null => Entry(w) = {}
    /\ \A c \in Cpu : (wpc[c] = "clear" /\ Last(fn[c]) \in Work) => wqdata[Last(fn[c])] = c
    /\ \A t \in Task : (pc[t] = "ccmp" /\ cwq[t] = wqdata[arg[t]]) => Entry(arg[t]) = {cwq[t]}

\* "Upon a successful return (>= 0), the caller owns the PENDING bit, so this
\* work can't be re-armed in any way": nobody else is about to queue it.
\* Not so with three CPUs, when the second read of the cwq meets a pointer that
\* queue_delayed_work has stored without the lock.
GrabOwnsPending ==
    \A t \in Task : CancelOwns(t, arg[t]) =>
      pending[arg[t]] /\ timer[arg[t]] = "off" /\ ins[arg[t]] = Null /\ Entry(arg[t]) = {}

\* "block until a work_struct's callback has terminated": when the cancel is
\* through, the work is on no list, has no timer and runs on no CPU.
CancelIsSync ==
    \A t \in Task : pc[t] = "cclear" =>
      /\ Entry(arg[t]) = {} /\ timer[arg[t]] = "off" /\ ins[arg[t]] = Null
      /\ \A c \in Cpu : ~ \E i \in DOMAIN fn[c] : fn[c][i] = arg[t]

\* "all works which were queued on entry have been handled" when the flush of
\* a CPU returns.
FlushIsComplete == \A t \in Task : pc[t] = "flushed" => owed[t] = {}

\* A queued work runs, or is taken off the list.
QueuedWorkRuns ==
    \A w \in Work : (Entry(w) # {}) ~> (Entry(w) = {})

\* flush_workqueue returns although new works keep coming.
FlushTerminates == \A t \in Task : (pc[t] = "flush") ~> (pc[t] = "idle")

\* A cancel returns once nobody queues the work or begins another cancel: each
\* of the two may take the PENDING bit away between two grabs.
CancelTerminates ==
    <>[][~Queueing /\ ~NewCancel]_vars => \A t \in Task : (pc[t] = "cgrab") ~> (pc[t] = "idle")

-------------------------------------------------------------------------------
(***************************************************************************)
(* The inductive invariant, for work functions that do not flush their own *)
(* workqueue: at most one function runs on a worker, and fn[c] holds it.   *)
(***************************************************************************)
FrameInv ==
    \A c \in Cpu :
      /\ fn[c] = IF current[c] = Null THEN <<>> ELSE <<current[c]>>
      /\ current[c] = Null <=> wpc[c] \in {"prep", "test", "sched", "pop"}
      /\ wpc[c] = "ins" => current[c] \in Work

\* Whoever queues a work waits for the end of its insertion, the timer too.
InsertInv ==
    \A w \in Work :
      /\ timer[w] = "firing" => ins[w] # Null
      /\ ins[w] # Null =>
           /\ \A t \in Task : ins[w].by = t => pc[t] = "ins"
           /\ \A c \in Cpu : ins[w].by = c => wpc[c] = "ins" /\ current[c] = w
           /\ \A v \in Work : ins[v] # Null /\ ins[v].by = ins[w].by /\ ins[w].by \in Task => v = w
           /\ ins[w].step = "add" => wqdata[w] = ins[w].cpu

\* A canceller leaves its loop with the bit, and work->data names the list that
\* the work is on, or was taken off.
DataInv ==
    /\ \A t \in Task : pc[t] \in Cancel => arg[t] \in Work
    /\ \A t \in Task : pc[t] = "cclear" => ret[t] >= 0
    /\ \A w \in Work, c \in Cpu :
         /\ OnList(worklist[c], w) => wqdata[w] = c
         /\ wpc[c] = "clear" /\ current[c] = w => wqdata[w] = c
         /\ current[c] = w => wqdata[w] # Null

\* The one owner o of the PENDING bit of w, or <<"none", w>>.
OwnedBy(w, o) ==
    /\ pending[w] <=> o # <<"none", w>>
    /\ timer[w] = "armed" <=> o = <<"timer", w>>
    /\ ins[w] # Null <=> o = <<"ins", w>>
    /\ \A c \in Cpu : OnList(worklist[c], w) <=> o = <<"list", c>>
    /\ \A c \in Cpu : wpc[c] = "clear" /\ current[c] = w <=> o = <<"clear", c>>
    /\ \A t \in Task : CancelOwns(t, w) <=> o = <<"cancel", t>>

OwnerInv == \A w \in Work : \E o \in OwnerId(w) : OwnedBy(w, o)

Distinct(s) == \A i, j \in 1..Len(s) : s[i] = s[j] => i = j
Before(s, x, y) == \E i, j \in 1..Len(s) : i < j /\ s[i] = x /\ s[j] = y

\* The barrier of a task is on one list, or runs, until it is completed.
BarrierInv ==
    /\ \A c \in Cpu : Distinct(worklist[c])
    /\ \A t \in Task, c \in Cpu :
         OnList(worklist[c], t) \/ (current[c] = t /\ wpc[c] \in {"clear", "func"}) =>
           /\ pc[t] \in {"flushwait", "cbarr"} /\ ~done[t]
           /\ \A d \in Cpu : OnList(worklist[d], t)
                             \/ (current[d] = t /\ wpc[d] \in {"clear", "func"}) => d = c
           /\ ~(OnList(worklist[c], t) /\ current[c] = t /\ wpc[c] \in {"clear", "func"})

\* A canceller has still to look at the CPU on which its work runs, or has its
\* barrier behind the work.
CancelInv ==
    \A t \in Task, c \in Cpu : CancelOwns(t, arg[t]) /\ current[c] = arg[t] =>
      \/ pc[t] = "cwait"
      \/ pc[t] \in {"cwaitcpu", "cbarr"} /\ c \in todo[t]
      \/ pc[t] = "cbarr" /\ OnList(worklist[c], t)

\* What a flush has to wait for is before its barrier.
FlushInv ==
    \A t \in Task, w \in Work, c \in Cpu :
      /\ <<w, "queued", c>> \in owed[t] =>
           pc[t] = "flushwait" /\ Before(worklist[c], w, t)
      /\ <<w, "running", c>> \in owed[t] =>
           pc[t] = "flushwait" /\ current[c] = w /\ OnList(worklist[c], t)

IInv ==
    /\ TypeOK /\ LockInv /\ FrameInv /\ InsertInv /\ DataInv /\ OwnerInv
    /\ BarrierInv /\ CancelInv /\ FlushInv

\* The second read of the cwq in try_to_grab_pending is conclusive: if it finds
\* the CPU whose lock is held, the work is on the list of that CPU.
GrabIsExact ==
    \A t \in Task : (pc[t] = "ccmp" /\ cwq[t] = wqdata[arg[t]]) => Entry(arg[t]) = {cwq[t]}

\* Nobody makes work->data of the work of t name cwq[t] while t holds its lock:
\* t keeps interrupts off on that CPU, or on the one where the work is listed,
\* or a canceller that owns the bit has still to take that lock.
Settled(t) ==
    \/ on[t] = cwq[t]
    \/ OnList(worklist[on[t]], arg[t])
    \/ \E u \in Task :
         /\ CancelOwns(u, arg[t])
         /\ pc[u] = "cwait" \/ (pc[u] \in {"cwaitcpu", "cbarr"} /\ cwq[t] \in todo[u])

AtMostTwoCpus == \A a, b, c \in Cpu : a = b \/ b = c \/ a = c

\* Why the second read is conclusive with one CPU or two.  A third one could
\* run the work, and a task there could queue it again for cwq[t].
GrabInv ==
    \A t \in Task : pc[t] = "ccmp" =>
      \/ OnList(worklist[cwq[t]], arg[t])
      \/ wqdata[arg[t]] \notin {cwq[t], Null} /\ Settled(t)
===============================================================================
