--------------------------------- MODULE Mutex ---------------------------------
(***************************************************************************)
(* kernel/mutex.c with the xchg fast paths of                              *)
(* include/asm-generic/mutex-xchg.h, which asm-arm/mutex.h selects for the *)
(* ARM920T (ARMv4).  Every atomic_xchg of lock->count is one step, because *)
(* the fast paths use it without wait_lock; the list is only touched under *)
(* wait_lock, so list operations go with the step before the unlock.       *)
(*                                                                         *)
(* The mutex is free when count is 1.  Its holder is not recorded anywhere *)
(* in the code; here it is the task whose pc is "own" or "done".           *)
(***************************************************************************)
EXTENDS Integers, Sequences

CONSTANTS
    Task,       \* the tasks that use the mutex
    None        \* no task

ASSUME NoneAssumption == None \notin Task

VARIABLES
    count,      \* lock->count: 1 free, 0 held, -1 held and contended
    wait_list,  \* lock->wait_list
    wait_lock,  \* the task that holds lock->wait_lock, or None
    state,      \* state[t]: task->state
    mode,       \* mode[t]: the state argument of __mutex_lock_common
    signal,     \* signal[t]: signal_pending(t)
    pc          \* pc[t]: where task t is

vars == <<count, wait_list, wait_lock, state, mode, signal, pc>>

\* The slow path of lock: "slow" waits for wait_lock, "xchg1" and "xchg2" are
\* the two exchanges, "fail" the signal test, "setst" the store of the sleep
\* state, "sched" the call of schedule(), "done" the label of that name.
\* "tryback" is the window between the two exchanges of trylock, "uslow" the
\* slow path of unlock.
Queued == {"xchg1", "xchg2", "fail", "setst", "sched", "done"}
Locked == {"xchg1", "xchg2", "fail", "setst", "done"}
PC == {"idle", "slow", "own", "tryback", "uslow"} \cup Queued

Init ==
    /\ count = 1
    /\ wait_list = <<>>
    /\ wait_lock = None
    /\ state = [t \in Task |-> "RUNNING"]
    /\ mode = [t \in Task |-> "UNINT"]
    /\ signal = [t \in Task |-> FALSE]
    /\ pc = [t \in Task |-> "idle"]

\* mutex_remove_waiter: t is on the list once, and the others keep their order.
ListDel(s, t) ==
    LET i == CHOOSE i \in 1..Len(s) : s[i] = t
    IN  [j \in 1..(Len(s) - 1) |-> IF j < i THEN s[j] ELSE s[j + 1]]

Goto(t, l) == pc' = [pc EXCEPT ![t] = l]

-------------------------------------------------------------------------------
(* mutex_lock and mutex_lock_interruptible *)

\* __mutex_fastpath_lock: the count is left at 0 even when it was -1.
FastLock(t, m) ==
    /\ pc[t] = "idle"
    /\ count' = 0
    /\ mode' = [mode EXCEPT ![t] = m]
    /\ Goto(t, IF count = 1 THEN "own" ELSE "slow")
    /\ UNCHANGED <<wait_list, wait_lock, state, signal>>

Enqueue(t) ==
    /\ pc[t] = "slow" /\ wait_lock = None
    /\ wait_lock' = t
    /\ wait_list' = Append(wait_list, t)
    /\ Goto(t, "xchg1")
    /\ UNCHANGED <<count, state, mode, signal>>

\* Plausible bug: the slow path takes the lock without marking it contended.
XchgZero(t) ==
    /\ pc[t] \in {"xchg1", "xchg2"}
    /\ count' = 0
    /\ Goto(t, IF count = 1 THEN "done" ELSE IF pc[t] = "xchg1" THEN "xchg2" ELSE "fail")
    /\ UNCHANGED <<wait_list, wait_lock, state, mode, signal>>

\* The exchange before the loop and the one at its head.
Xchg(t) ==
    /\ pc[t] \in {"xchg1", "xchg2"}
    /\ count' = -1
    /\ Goto(t, IF count = 1 THEN "done" ELSE IF pc[t] = "xchg1" THEN "xchg2" ELSE "fail")
    /\ UNCHANGED <<wait_list, wait_lock, state, mode, signal>>

SetState(t) ==
    /\ pc[t] = "fail" /\ ~(mode[t] = "INT" /\ signal[t])
    /\ Goto(t, "setst")
    /\ UNCHANGED <<count, wait_list, wait_lock, state, mode, signal>>

\* Plausible bug: the waiter structure stays on the list of an interrupted task.
InterruptedStaysQueued(t) ==
    /\ pc[t] = "fail" /\ mode[t] = "INT" /\ signal[t]
    /\ wait_lock' = None
    /\ signal' = [signal EXCEPT ![t] = FALSE]
    /\ Goto(t, "idle")
    /\ UNCHANGED <<count, wait_list, state, mode>>

\* -EINTR: the signal is handled on the way back to user mode.
Interrupted(t) ==
    /\ pc[t] = "fail" /\ mode[t] = "INT" /\ signal[t]
    /\ wait_list' = ListDel(wait_list, t)
    /\ wait_lock' = None
    /\ signal' = [signal EXCEPT ![t] = FALSE]
    /\ Goto(t, "idle")
    /\ UNCHANGED <<count, state, mode>>

\* __set_task_state, then wait_lock is dropped.
Sleep(t) ==
    /\ pc[t] = "setst"
    /\ state' = [state EXCEPT ![t] = mode[t]]
    /\ wait_lock' = None
    /\ Goto(t, "sched")
    /\ UNCHANGED <<count, wait_list, mode, signal>>

\* schedule() does not sleep in an interruptible state with a signal pending.
Runnable(t) == state[t] = "RUNNING" \/ (mode[t] = "INT" /\ signal[t])

\* schedule() returns and wait_lock is taken again.
Resume(t) ==
    /\ pc[t] = "sched" /\ Runnable(t) /\ wait_lock = None
    /\ state' = [state EXCEPT ![t] = "RUNNING"]
    /\ wait_lock' = t
    /\ Goto(t, "xchg2")
    /\ UNCHANGED <<count, wait_list, mode, signal>>

\* Plausible bug: the count is set to 0 whether there are waiters left or not.
DoneAlwaysZero(t) ==
    /\ pc[t] = "done"
    /\ wait_list' = ListDel(wait_list, t)
    /\ count' = 0
    /\ wait_lock' = None
    /\ Goto(t, "own")
    /\ UNCHANGED <<state, mode, signal>>

\* The label done: off the list, 0 if nobody else waits, drop wait_lock.
Done(t) ==
    /\ pc[t] = "done"
    /\ wait_list' = ListDel(wait_list, t)
    /\ count' = IF wait_list' = <<>> THEN 0 ELSE count
    /\ wait_lock' = None
    /\ Goto(t, "own")
    /\ UNCHANGED <<state, mode, signal>>

-------------------------------------------------------------------------------
(* mutex_trylock *)

\* Plausible bug: every count that is not negative is taken for free.
TryLockZero(t) ==
    /\ pc[t] = "idle"
    /\ count' = 0
    /\ Goto(t, IF count >= 0 THEN "own" ELSE "tryback")
    /\ UNCHANGED <<wait_list, wait_lock, state, mode, signal>>

TryLock(t) ==
    /\ pc[t] = "idle"
    /\ count' = 0
    /\ Goto(t, CASE count = 1 -> "own" [] count = 0 -> "idle" [] count < 0 -> "tryback")
    /\ UNCHANGED <<wait_list, wait_lock, state, mode, signal>>

\* Plausible bug: a 1 found while the mark is restored is not taken as the lock.
TryBackDrops(t) ==
    /\ pc[t] = "tryback"
    /\ count' = -1
    /\ Goto(t, "idle")
    /\ UNCHANGED <<wait_list, wait_lock, state, mode, signal>>

\* Restore the contended mark; a 1 found meanwhile is the lock.
TryBack(t) ==
    /\ pc[t] = "tryback"
    /\ count' = -1
    /\ Goto(t, IF count = 1 THEN "own" ELSE "idle")
    /\ UNCHANGED <<wait_list, wait_lock, state, mode, signal>>

-------------------------------------------------------------------------------
(* mutex_unlock *)

FastUnlock(t) ==
    /\ pc[t] = "own"
    /\ count' = 1
    /\ Goto(t, IF count = 0 THEN "idle" ELSE "uslow")
    /\ UNCHANGED <<wait_list, wait_lock, state, mode, signal>>

\* __mutex_slowpath_needs_to_unlock() is 0: only wake the first waiter.
UnlockSlow(t) ==
    /\ pc[t] = "uslow" /\ wait_lock = None
    /\ state' = IF wait_list = <<>> THEN state
                ELSE [state EXCEPT ![Head(wait_list)] = "RUNNING"]
    /\ Goto(t, "idle")
    /\ UNCHANGED <<count, wait_list, wait_lock, mode, signal>>

-------------------------------------------------------------------------------
(* The rest of the kernel *)

\* A signal is sent; it wakes an interruptible sleeper.
SendSignal(t) ==
    /\ ~signal[t]
    /\ signal' = [signal EXCEPT ![t] = TRUE]
    /\ state' = [state EXCEPT ![t] = IF @ = "INT" THEN "RUNNING" ELSE @]
    /\ UNCHANGED <<count, wait_list, wait_lock, mode, pc>>

\* A pending signal is handled outside the mutex code.
HandleSignal(t) ==
    /\ pc[t] = "idle" /\ signal[t]
    /\ signal' = [signal EXCEPT ![t] = FALSE]
    /\ UNCHANGED <<count, wait_list, wait_lock, state, mode, pc>>

\* A wake_up_process from elsewhere.
SpuriousWake(t) ==
    /\ state[t] # "RUNNING"
    /\ state' = [state EXCEPT ![t] = "RUNNING"]
    /\ UNCHANGED <<count, wait_list, wait_lock, mode, signal, pc>>

-------------------------------------------------------------------------------
SlowPath(t) ==
    \/ Enqueue(t) \/ Xchg(t) \/ SetState(t) \/ Interrupted(t)
    \/ Sleep(t) \/ Resume(t) \/ Done(t)

Next ==
    \E t \in Task :
      \/ \E m \in {"UNINT", "INT"} : FastLock(t, m)
      \/ SlowPath(t)
      \/ TryLock(t) \/ TryBack(t)
      \/ FastUnlock(t) \/ UnlockSlow(t)
      \/ SendSignal(t) \/ HandleSignal(t) \/ SpuriousWake(t)

Safety == Init /\ [][Next]_vars

(***************************************************************************)
(* A task inside the mutex code keeps running, and a holder unlocks.  No   *)
(* fairness for starting an operation, for signals or for other wakeups.   *)
(***************************************************************************)
Fairness ==
    \A t \in Task :
      /\ WF_vars(SlowPath(t))
      /\ WF_vars(TryBack(t))
      /\ WF_vars(FastUnlock(t))
      /\ WF_vars(UnlockSlow(t))

Spec == Safety /\ Fairness

-------------------------------------------------------------------------------
\* The types of the fields of struct mutex and of the locals.
TypeOK ==
    /\ count \in {-1, 0, 1}
    /\ wait_list \in Seq(Task)
    /\ wait_lock \in Task \cup {None}
    /\ state \in [Task -> {"RUNNING", "UNINT", "INT"}]
    /\ mode \in [Task -> {"UNINT", "INT"}]
    /\ signal \in [Task -> BOOLEAN]
    /\ pc \in [Task -> PC]

OnList(s, x) == \E i \in 1..Len(s) : s[i] = x

Distinct(s) == \A i, j \in 1..Len(s) : s[i] = s[j] => i = j

Owns(t) == pc[t] \in {"own", "done"}

\* Only one task holds the mutex at a time.
MutualExclusion == \A t, u \in Task : Owns(t) /\ Owns(u) => t = u

\* The count says whether the mutex is held, in every window between two
\* exchanges: it is 1 exactly when no task is the holder.
CountMeansFree == (count = 1) <=> ~ \E t \in Task : Owns(t)

\* A task that has returned from the lock functions, with the mutex or with
\* -EINTR, has left no waiter structure (it is on its stack) on the list, and
\* a waiting task is on it exactly once.
NoDanglingWaiter ==
    /\ \A t \in Task : OnList(wait_list, t) <=> pc[t] \in Queued
    /\ Distinct(wait_list)

\* A task that will look at the count, restore the contended mark or wake the
\* first waiter without anybody else's help.
InTransit(t) ==
    \/ pc[t] \in {"slow", "tryback", "uslow", "xchg1", "xchg2"}
    \/ pc[t] = "sched" /\ Runnable(t)

\* A waiter that sleeps, or is about to, is never forgotten: unless the count
\* carries the mark that sends the next unlock to the slow path, a task is in
\* transit that will put the mark back, take the mutex or wake the first waiter.
NoLostWakeup ==
    (\E t \in Task : pc[t] \in {"fail", "setst", "sched"}) =>
        \/ count = -1
        \/ \E u \in Task : InTransit(u)

\* From some time on no task starts an operation on the mutex.
Quiet == <>[][~ \E t \in Task : TryLock(t) \/ \E m \in {"UNINT", "INT"} : FastLock(t, m)]_vars

\* Whatever windows the contention has left behind, nobody is forgotten: once
\* the newcomers stop, every task that waits for the mutex gets it (or leaves
\* with -EINTR).  Without Quiet it does not hold: two tasks that always have
\* one of them between its fast path and its slow path can pass the mutex to
\* each other for ever, because each unlock then finds 0 and wakes nobody.
WaitersServed ==
    Quiet => \A t \in Task : (pc[t] = "sched") ~> (pc[t] \in {"own", "idle"})

\* An operation on the mutex that is under way leads to an acquisition: the
\* waiters do not block one another.
SomeoneAcquires ==
    (\E t \in Task : pc[t] \in {"slow", "sched"}) ~> (\E t \in Task : Owns(t))

\* The task inside the spinlocked sections is the one that holds wait_lock.
LockInv == \A t \in Task : pc[t] \in Locked <=> wait_lock = t

\* The conjunction that every step preserves.
IInv ==
    /\ TypeOK /\ LockInv /\ NoDanglingWaiter
    /\ MutualExclusion /\ CountMeansFree /\ NoLostWakeup
===============================================================================
