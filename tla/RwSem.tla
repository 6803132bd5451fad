--------------------------------- MODULE RwSem ---------------------------------
(***************************************************************************)
(* lib/rwsem-spinlock.c: the read/write semaphore this kernel is built     *)
(* with (CONFIG_RWSEM_GENERIC_SPINLOCK).                                   *)
(*                                                                         *)
(* Everything done under sem->wait_lock that only the lock holder can see  *)
(* is one step.  The stores that a sleeping waiter sees without the lock   *)
(* (waiter.task = NULL, wake_up_process, put_task_struct) are steps of     *)
(* their own, so waiters run between them.                                 *)
(***************************************************************************)
EXTENDS Integers, Sequences, FiniteSets

CONSTANTS
    Task,       \* the tasks that use the semaphore
    Irq,        \* the completion context that calls up_read_non_owner
    None        \* NULL

ASSUME TaskAssumption ==
    /\ IsFiniteSet(Task)
    /\ Irq \notin Task
    /\ None \notin Task \cup {Irq}

VARIABLES
    activity,   \* sem->activity
    wait_list,  \* sem->wait_list, the tasks whose rwsem_waiter is queued
    wait_lock,  \* the context that holds sem->wait_lock, or None
    flags,      \* flags[t]: waiter.flags, "R" or "W"
    wtask,      \* wtask[t]: waiter.task # NULL
    state,      \* state[t]: tsk->state
    usage,      \* usage[t]: references on the task_struct (0: freed)
    pc,         \* pc[c]: where context c is
    tsk,        \* the local tsk of the wake functions
    woken,      \* the local woken of __rwsem_do_wake
    ret         \* where the holder of wait_lock returns to

vars == <<activity, wait_list, wait_lock, flags, wtask, state, usage, pc,
          tsk, woken, ret>>

Ctx == Task \cup {Irq}

\* "chk" and "sched" are the two halves of the wait loop; the waker is at
\* "grantW"/"grantR" before list_del, at "wake*" before wake_up_process and at
\* "put*" before put_task_struct.  A reader whose task has exited and left the
\* release to Irq is "gone".
WakerPC == {"grantW", "grantR", "wakeW", "wakeR", "putW", "putR"}
PC == {"idle", "chk", "sched", "rd", "wr", "gone", "dead"} \cup WakerPC

Init ==
    /\ activity = 0
    /\ wait_list = <<>>
    /\ wait_lock = None
    /\ flags = [t \in Task |-> "R"]
    /\ wtask = [t \in Task |-> FALSE]
    /\ state = [t \in Task |-> "RUNNING"]
    /\ usage = [t \in Task |-> 1]
    /\ pc = [c \in Ctx |-> "idle"]
    /\ tsk = None
    /\ woken = 0
    /\ ret = "idle"

-------------------------------------------------------------------------------
(* Taking the semaphore *)

\* The granted branch: the counter becomes a, the lock is dropped, the caller
\* returns as a holder.
Granted(t, a, holder) ==
    /\ activity' = a
    /\ pc' = [pc EXCEPT ![t] = holder]
    /\ UNCHANGED <<wait_list, wait_lock, flags, wtask, state, usage, tsk, woken, ret>>

\* Plausible bug: get_task_struct is forgotten.
NoTaskRef == 0

\* The reference a queued waiter takes with get_task_struct.
TaskRef == 1

\* The other branch of __down_read and __down_write_nested: sleep state first,
\* then a task reference, then the tail of the list.
Queue(t, k) ==
    /\ state' = [state EXCEPT ![t] = "UNINT"]
    /\ wtask' = [wtask EXCEPT ![t] = TRUE]
    /\ flags' = [flags EXCEPT ![t] = k]
    /\ usage' = [usage EXCEPT ![t] = @ + TaskRef]
    /\ wait_list' = Append(wait_list, t)
    /\ pc' = [pc EXCEPT ![t] = "chk"]
    /\ UNCHANGED <<activity, wait_lock, tsk, woken, ret>>

CanRead == activity >= 0 /\ wait_list = <<>>

\* Plausible bug: readers are not looked at.
CanWriteNoReaders == activity >= 0 /\ wait_list = <<>>

CanWrite == activity = 0 /\ wait_list = <<>>

DownRead(t) ==
    /\ pc[t] = "idle" /\ wait_lock = None
    /\ IF CanRead THEN Granted(t, activity + 1, "rd") ELSE Queue(t, "R")

DownWrite(t) ==
    /\ pc[t] = "idle" /\ wait_lock = None
    /\ IF CanWrite THEN Granted(t, -1, "wr") ELSE Queue(t, "W")

\* A failing trylock takes and drops the spinlock and changes nothing.
DownReadTrylock(t) ==
    /\ pc[t] = "idle" /\ wait_lock = None
    /\ IF CanRead THEN Granted(t, activity + 1, "rd") ELSE UNCHANGED vars

DownWriteTrylock(t) ==
    /\ pc[t] = "idle" /\ wait_lock = None
    /\ IF CanWrite THEN Granted(t, -1, "wr") ELSE UNCHANGED vars

\* The wait loop: leave it when waiter.task is NULL.  The wait_lock is not held.
Check(t) ==
    /\ pc[t] = "chk"
    /\ IF wtask[t]
       THEN pc' = [pc EXCEPT ![t] = "sched"] /\ UNCHANGED state
       ELSE /\ pc' = [pc EXCEPT ![t] = IF flags[t] = "R" THEN "rd" ELSE "wr"]
            /\ state' = [state EXCEPT ![t] = "RUNNING"]
    /\ UNCHANGED <<activity, wait_list, wait_lock, flags, wtask, usage, tsk, woken, ret>>

\* schedule() returns once the task is runnable; then set_task_state again.
Schedule(t) ==
    /\ pc[t] = "sched"
    /\ state[t] = "RUNNING"
    /\ pc' = [pc EXCEPT ![t] = "chk"]
    /\ state' = [state EXCEPT ![t] = "UNINT"]
    /\ UNCHANGED <<activity, wait_list, wait_lock, flags, wtask, usage, tsk, woken, ret>>

-------------------------------------------------------------------------------
(* Releasing it *)

\* Context c takes wait_lock, sets the counter to a and either enters a wake
\* function at w, or (w = "none") drops the lock and goes on at r.  The lock
\* that is released belongs to task o, which becomes after (o = c unless the
\* release is left to another context).
Release(c, o, a, w, r, after) ==
    /\ wait_lock = None
    /\ activity' = a
    /\ IF w = "none"
       THEN /\ pc' = [pc EXCEPT ![o] = after]
            /\ UNCHANGED <<wait_lock, ret>>
       ELSE /\ pc' = [pc EXCEPT ![o] = after, ![c] = w]
            /\ wait_lock' = c
            /\ ret' = r
    /\ UNCHANGED <<wait_list, flags, wtask, state, usage, tsk, woken>>

\* Plausible bug: the writer at the head waits until the next release.
ReadWakeMissed(a) == IF a = 0 /\ Len(wait_list) > 1 THEN "grantW" ELSE "none"

\* __up_read wakes one writer when the last reader leaves.
ReadWake(a) == IF a = 0 /\ wait_list # <<>> THEN "grantW" ELSE "none"

\* __rwsem_do_wake: which of its branches is taken (wakewrite: up_write).
DoWake(wakewrite) ==
    IF wait_list = <<>> THEN "none"
    ELSE IF flags[Head(wait_list)] = "W"
         THEN (IF wakewrite # 0 THEN "grantW" ELSE "none")
         ELSE "grantR"

UpRead(t) ==
    /\ pc[t] = "rd"
    /\ Release(t, t, activity - 1, ReadWake(activity - 1), "idle", "idle")

\* The read lock of an exited task, released by the completion of its I/O.
UpReadNonOwner(o) ==
    /\ pc[Irq] = "idle" /\ pc[o] = "gone"
    /\ Release(Irq, o, activity - 1, ReadWake(activity - 1), "idle", "dead")

UpWrite(t) ==
    /\ pc[t] = "wr"
    /\ Release(t, t, 0, DoWake(1), "idle", "idle")

\* Plausible bug: a downgrade that wakes a writer as an unlock does.
DowngradeWakesWriter(t) ==
    /\ pc[t] = "wr"
    /\ Release(t, t, 1, DoWake(1), "rd", "rd")

DowngradeWrite(t) ==
    /\ pc[t] = "wr"
    /\ Release(t, t, 1, DoWake(0), "rd", "rd")

\* list_del of the first waiter and waiter->task = NULL: from here the waiter
\* may return from down_*() without the lock.
Grant(c, k) ==
    /\ tsk' = Head(wait_list)
    /\ wait_list' = Tail(wait_list)
    /\ wtask' = [wtask EXCEPT ![Head(wait_list)] = FALSE]
    /\ pc' = [pc EXCEPT ![c] = k]
    /\ UNCHANGED <<wait_lock, flags, state, usage, ret>>

GrantWriter(c) ==
    /\ pc[c] = "grantW"
    /\ activity' = -1
    /\ Grant(c, "wakeW")
    /\ UNCHANGED woken

\* woken is local to the waker; counting it here or after the wakeup is the
\* same to everybody else.
GrantReader(c) ==
    /\ pc[c] = "grantR"
    /\ woken' = woken + 1
    /\ Grant(c, "wakeR")
    /\ UNCHANGED activity

\* Plausible bug: readers are granted the lock but only writers are woken.
WakeUpWriterOnly(c) ==
    /\ pc[c] \in {"wakeW", "wakeR"}
    /\ state' = IF pc[c] = "wakeW" THEN [state EXCEPT ![tsk] = "RUNNING"] ELSE state
    /\ pc' = [pc EXCEPT ![c] = IF @ = "wakeW" THEN "putW" ELSE "putR"]
    /\ UNCHANGED <<activity, wait_list, wait_lock, flags, wtask, usage, tsk, woken, ret>>

WakeUpProcess(c) ==
    /\ pc[c] \in {"wakeW", "wakeR"}
    /\ state' = [state EXCEPT ![tsk] = "RUNNING"]
    /\ pc' = [pc EXCEPT ![c] = IF @ = "wakeW" THEN "putW" ELSE "putR"]
    /\ UNCHANGED <<activity, wait_list, wait_lock, flags, wtask, usage, tsk, woken, ret>>

\* Plausible bug: the readers woken by a downgrade replace the downgraded one.
UnlockOverwrite(c) ==
    /\ activity' = IF woken > 0 THEN woken ELSE activity
    /\ woken' = 0
    /\ wait_lock' = None
    /\ ret' = "idle"
    /\ pc' = [pc EXCEPT ![c] = ret]

\* sem->activity += woken and the spin_unlock of the release.
Unlock(c) ==
    /\ activity' = activity + woken
    /\ woken' = 0
    /\ wait_lock' = None
    /\ ret' = "idle"
    /\ pc' = [pc EXCEPT ![c] = ret]

\* put_task_struct, then the next reader of the loop or the end.
PutTask(c) ==
    /\ pc[c] \in {"putW", "putR"}
    /\ usage' = [usage EXCEPT ![tsk] = @ - 1]
    /\ tsk' = None
    /\ IF pc[c] = "putR" /\ wait_list # <<>> /\ flags[Head(wait_list)] = "R"
       THEN /\ pc' = [pc EXCEPT ![c] = "grantR"]
            /\ UNCHANGED <<activity, woken, wait_lock, ret>>
       ELSE Unlock(c)
    /\ UNCHANGED <<wait_list, flags, wtask, state>>

-------------------------------------------------------------------------------
(* The rest of the kernel *)

\* A wake_up_process from elsewhere hits a task that waits for the semaphore.
SpuriousWake(t) ==
    /\ pc[t] \in {"chk", "sched"} /\ state[t] = "UNINT"
    /\ state' = [state EXCEPT ![t] = "RUNNING"]
    /\ UNCHANGED <<activity, wait_list, wait_lock, flags, wtask, usage, pc, tsk, woken, ret>>

\* A task that took the lock with down_read_non_owner exits; the completion of
\* its I/O will release the lock.
Exit(t) ==
    /\ pc[t] = "rd"
    /\ pc' = [pc EXCEPT ![t] = "gone"]
    /\ usage' = [usage EXCEPT ![t] = @ - 1]
    /\ UNCHANGED <<activity, wait_list, wait_lock, flags, wtask, state, tsk, woken, ret>>

\* A new task takes the place of the exited one.
Fork(t) ==
    /\ pc[t] = "dead" /\ usage[t] = 0
    /\ pc' = [pc EXCEPT ![t] = "idle"]
    /\ usage' = [usage EXCEPT ![t] = 1]
    /\ UNCHANGED <<activity, wait_list, wait_lock, flags, wtask, state, tsk, woken, ret>>

-------------------------------------------------------------------------------
Acquire(t) == DownRead(t) \/ DownWrite(t) \/ DownReadTrylock(t) \/ DownWriteTrylock(t)
Waiting(t) == Check(t) \/ Schedule(t)
Wake(c) == GrantWriter(c) \/ GrantReader(c) \/ WakeUpProcess(c) \/ PutTask(c)

Next ==
    \/ \E t \in Task :
         \/ Acquire(t) \/ Waiting(t)
         \/ UpRead(t) \/ UpWrite(t) \/ DowngradeWrite(t)
         \/ UpReadNonOwner(t)
         \/ SpuriousWake(t) \/ Exit(t) \/ Fork(t)
    \/ \E c \in Ctx : Wake(c)

Safety == Init /\ [][Next]_vars

(***************************************************************************)
(* The scheduler runs every runnable context, and every holder releases    *)
(* the semaphore sooner or later.  Nobody has to ask for it.               *)
(***************************************************************************)
Fairness ==
    /\ \A t \in Task :
         /\ WF_vars(Waiting(t))
         /\ WF_vars(UpRead(t))
         /\ WF_vars(UpWrite(t))
         /\ WF_vars(UpReadNonOwner(t))
    /\ \A c \in Ctx : WF_vars(Wake(c))

Spec == Safety /\ Fairness

-------------------------------------------------------------------------------
(* Who holds the semaphore, in the sense of the callers *)

\* The waiter has been granted the lock, whether it has noticed or not.
GrantedWaiter(t) == pc[t] \in {"chk", "sched"} /\ ~wtask[t]

\* A downgrading writer is a reader as soon as activity is 1.
Readers == {t \in Task :
    \/ pc[t] \in {"rd", "gone"}
    \/ pc[t] \in WakerPC /\ ret = "rd"
    \/ GrantedWaiter(t) /\ flags[t] = "R"}

Writers == {t \in Task : pc[t] = "wr" \/ (GrantedWaiter(t) /\ flags[t] = "W")}

\* The types of the fields and locals of rwsem-spinlock.c.
TypeOK ==
    /\ activity \in Int
    /\ wait_list \in Seq(Task)
    /\ wait_lock \in Ctx \cup {None}
    /\ flags \in [Task -> {"R", "W"}]
    /\ wtask \in [Task -> BOOLEAN]
    /\ state \in [Task -> {"RUNNING", "UNINT"}]
    /\ usage \in [Task -> Nat]
    /\ pc \in [Ctx -> PC]
    /\ tsk \in Task \cup {None}
    /\ woken \in Nat
    /\ ret \in {"idle", "rd"}

\* A writer is alone: no other writer and no reader, counting waiters that
\* have been granted the lock but have not run yet.
Exclusion ==
    /\ \A t, u \in Writers : t = u
    /\ Writers # {} => Readers = {}

\* The comment of struct rw_semaphore: with the spinlock free, activity is -1
\* with one active writer, and otherwise the number of active readers.
ActivityExact ==
    wait_lock = None =>
        activity = IF Writers # {} THEN -1 ELSE Cardinality(Readers)

\* Nobody waits for a lock that could be granted: with the spinlock free, a
\* queued waiter faces a writer, or readers with a writer first in the queue.
\* __up_read relies on it when it wakes the head of the list as a writer.
QueueJustified ==
    (wait_lock = None /\ wait_list # <<>>) =>
        /\ activity # 0
        /\ activity > 0 => flags[Head(wait_list)] = "W"

\* A waiter that has been granted the lock and sleeps in schedule() is about
\* to be woken: it is the tsk of a waker that has not called wake_up_process.
NoLostWakeup ==
    \A t \in Task :
        (GrantedWaiter(t) /\ pc[t] = "sched" /\ state[t] = "UNINT") =>
            \E c \in Ctx : pc[c] \in {"wakeW", "wakeR"} /\ tsk = t

\* wake_up_process and put_task_struct are called on a task_struct that the
\* waiter's reference still keeps, even if the task itself has exited.
TaskStructAlive ==
    \A c \in Ctx : pc[c] \in {"wakeW", "wakeR", "putW", "putR"} => usage[tsk] > 0

\* Every queued waiter returns from down_read()/down_write() in the end.
WaiterServed ==
    \A t \in Task : (pc[t] \in {"chk", "sched"}) ~> (pc[t] \in {"rd", "wr"})

\* The requests in the queue, as the callers see them.
Requests == [i \in 1..Len(wait_list) |->
               [task |-> wait_list[i], kind |-> flags[wait_list[i]]]]

Lock == INSTANCE FairRwLock
          WITH readers <- Readers, writers <- Writers, queue <- Requests

\* The semaphore implements the first-come first-served read/write lock.
ImplementsFairRwLock == Lock!LockSpec
-------------------------------------------------------------------------------
(* The inductive invariant *)

InList(t) == \E i \in 1..Len(wait_list) : wait_list[i] = t

\* Each task is queued at most once, and exactly while its waiter.task is set.
ListInv ==
    /\ \A i, j \in 1..Len(wait_list) : wait_list[i] = wait_list[j] => i = j
    /\ \A t \in Task : InList(t) <=> (pc[t] \in {"chk", "sched"} /\ wtask[t])

\* Only the holder of wait_lock is in a wake function, and tsk is its local: a
\* task that has been granted the lock and cannot have released it yet.
LockInv ==
    /\ \A c \in Ctx : pc[c] \in WakerPC <=> wait_lock = c
    /\ pc[Irq] \in {"idle"} \cup WakerPC
    /\ wait_lock = None => woken = 0 /\ ret = "idle"
    /\ wait_lock = Irq => ret = "idle"
    /\ (tsk # None) <=> \E c \in Ctx : pc[c] \in {"wakeW", "wakeR", "putW", "putR"}
    /\ tsk # None => GrantedWaiter(tsk) \/ pc[tsk] \in {"rd", "wr", "gone"}

\* A task_struct is kept by the running task and by its waiter until the put.
UsageInv ==
    \A t \in Task : usage[t] = (IF pc[t] \in {"gone", "dead"} THEN 0 ELSE 1)
                             + (IF InList(t) \/ tsk = t THEN 1 ELSE 0)

\* The counter, corrected by the readers woken and not yet added.
CountInv ==
    \/ /\ Writers = {} /\ activity >= 0
       /\ activity + woken = Cardinality(Readers)
    \/ /\ \E w \in Task : Writers = {w}
       /\ Readers = {} /\ activity = -1 /\ woken = 0

\* What the waker has established at each of its steps.
WakeInv ==
    \A c \in Ctx :
      /\ pc[c] = "grantW" => /\ Writers = {} /\ Readers = {} /\ activity = 0 /\ woken = 0
                             /\ wait_list # <<>> /\ flags[Head(wait_list)] = "W"
      /\ pc[c] = "grantR" => /\ Writers = {}
                             /\ wait_list # <<>> /\ flags[Head(wait_list)] = "R"
      /\ pc[c] \in {"wakeR", "putR"} => Writers = {} /\ woken > 0
      /\ pc[c] \in {"wakeW", "putW"} => Writers # {}

\* The conjunction that every step preserves.
IInv ==
    /\ TypeOK /\ ListInv /\ LockInv /\ UsageInv /\ CountInv /\ WakeInv
    /\ QueueJustified /\ NoLostWakeup
===============================================================================
