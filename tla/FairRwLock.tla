------------------------------ MODULE FairRwLock ------------------------------
(***************************************************************************)
(* What a read/write semaphore promises to its callers, without the        *)
(* counter, the spinlock, the waiter structures or the wakeups: readers    *)
(* share, a writer is alone, a request is served at once only when nobody  *)
(* is queued, and queued requests are granted strictly in arrival order.   *)
(* RwSem, the translation of lib/rwsem-spinlock.c, implements it.          *)
(***************************************************************************)
EXTENDS Sequences

CONSTANT Task

VARIABLES
    readers,    \* the tasks that hold the lock shared
    writers,    \* the tasks that hold it exclusively
    queue       \* the waiting requests, oldest first

lockVars == <<readers, writers, queue>>

Request == [task : Task, kind : {"R", "W"}]

LockInit ==
    /\ readers = {}
    /\ writers = {}
    /\ queue = <<>>

\* A request finds the queue empty and the lock compatible with it.
ReadNow(t) ==
    /\ queue = <<>> /\ writers = {} /\ t \notin readers
    /\ readers' = readers \cup {t}
    /\ UNCHANGED <<writers, queue>>

WriteNow(t) ==
    /\ queue = <<>> /\ writers = {} /\ readers = {}
    /\ writers' = {t}
    /\ UNCHANGED <<readers, queue>>

\* A request joins the end of the queue.
Wait(t, k) ==
    /\ queue' = Append(queue, [task |-> t, kind |-> k])
    /\ UNCHANGED <<readers, writers>>

\* The oldest request is granted once the holders allow it.
GrantRead ==
    /\ queue # <<>> /\ Head(queue).kind = "R" /\ writers = {}
    /\ readers' = readers \cup {Head(queue).task}
    /\ queue' = Tail(queue)
    /\ UNCHANGED writers

GrantWrite ==
    /\ queue # <<>> /\ Head(queue).kind = "W" /\ writers = {} /\ readers = {}
    /\ writers' = {Head(queue).task}
    /\ queue' = Tail(queue)
    /\ UNCHANGED readers

ReleaseRead(t) ==
    /\ t \in readers
    /\ readers' = readers \ {t}
    /\ UNCHANGED <<writers, queue>>

ReleaseWrite(t) ==
    /\ t \in writers
    /\ writers' = writers \ {t}
    /\ UNCHANGED <<readers, queue>>

\* An exclusive holder keeps the lock shared.
Downgrade(t) ==
    /\ t \in writers
    /\ writers' = writers \ {t}
    /\ readers' = readers \cup {t}
    /\ UNCHANGED queue

LockNext ==
    \/ GrantRead \/ GrantWrite
    \/ \E t \in Task :
         \/ ReadNow(t) \/ WriteNow(t)
         \/ \E k \in {"R", "W"} : Wait(t, k)
         \/ ReleaseRead(t) \/ ReleaseWrite(t) \/ Downgrade(t)

LockSafety == LockInit /\ [][LockNext]_lockVars

\* A grant that the holders allow is not put off for ever.
LockSpec == LockSafety /\ WF_lockVars(GrantRead) /\ WF_lockVars(GrantWrite)
===============================================================================
