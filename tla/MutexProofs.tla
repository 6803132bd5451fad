------------------------------ MODULE MutexProofs ------------------------------
(***************************************************************************)
(* TLAPS proofs about Mutex for any set of tasks.                          *)
(***************************************************************************)
EXTENDS Mutex, TLAPS

\* list_del takes out one element of a list without repetitions.
LEMMA ListDelMembers ==
    ASSUME NEW S, NEW s \in Seq(S), NEW t,
           OnList(s, t), Distinct(s)
    PROVE  /\ ListDel(s, t) \in Seq(S) /\ Distinct(ListDel(s, t))
           /\ \A x : OnList(ListDel(s, t), x) <=> (x # t /\ OnList(s, x))
  <1>. USE DEF OnList, Distinct
  <1>. DEFINE n == CHOOSE i \in 1..Len(s) : s[i] = t
              d == [j \in 1..(Len(s) - 1) |-> IF j < n THEN s[j] ELSE s[j + 1]]
  <1>1. n \in 1..Len(s) /\ s[n] = t /\ ListDel(s, t) = d /\ Len(s) \in Nat /\ Len(s) > 0
    <2>1. n \in 1..Len(s) /\ s[n] = t
      OBVIOUS
    <2>. QED BY <2>1 DEF ListDel
  <1>. HIDE DEF n
  <1>2. /\ Len(s) - 1 \in Nat
        /\ \A j \in 1..(Len(s) - 1) : d[j] = (IF j < n THEN s[j] ELSE s[j + 1]) /\ d[j] \in S
    BY <1>1
  <1>3. d \in Seq(S) /\ Len(d) = Len(s) - 1
    BY <1>1, <1>2
  <1>. HIDE DEF d
  <1>4. ASSUME NEW i \in 1..Len(d), NEW j \in 1..Len(d), d[i] = d[j] PROVE i = j
    <2>1. i \in 1..(Len(s) - 1) /\ j \in 1..(Len(s) - 1)
      BY <1>3
    <2>2. PICK a \in 1..Len(s) : d[i] = s[a] /\ a = IF i < n THEN i ELSE i + 1
      BY <2>1, <1>1, <1>2
    <2>3. PICK b \in 1..Len(s) : d[j] = s[b] /\ b = IF j < n THEN j ELSE j + 1
      BY <2>1, <1>1, <1>2
    <2>4. a = b
      BY <1>4, <2>2, <2>3
    <2>. QED BY <2>1, <2>2, <2>3, <2>4, <1>1
  <1>5. ASSUME NEW i \in 1..Len(d)
        PROVE  d[i] # t /\ \E k \in 1..Len(s) : s[k] = d[i]
    <2>1. i \in 1..(Len(s) - 1)
      BY <1>3
    <2>2. PICK a \in 1..Len(s) : d[i] = s[a] /\ a = IF i < n THEN i ELSE i + 1
      BY <2>1, <1>1, <1>2
    <2>3. a # n
      BY <2>1, <2>2, <1>1
    <2>. QED BY <2>2, <2>3, <1>1
  <1>6. ASSUME NEW k \in 1..Len(s), s[k] # t
        PROVE  \E i \in 1..Len(d) : d[i] = s[k]
    <2>1. k # n
      BY <1>6, <1>1
    <2>2. CASE k < n
      BY <2>2, <1>1, <1>2, <1>3
    <2>3. CASE k > n
      <3>1. k - 1 \in 1..(Len(s) - 1) /\ ~(k - 1 < n) /\ (k - 1) + 1 = k
        BY <2>3, <1>1
      <3>2. d[k - 1] = s[k]
        BY <3>1, <1>2
      <3>. QED BY <3>1, <3>2, <1>3
    <2>. QED BY <2>1, <2>2, <2>3, <1>1
  <1>7. \A x : (\E i \in 1..Len(d) : d[i] = x) <=> (x # t /\ \E i \in 1..Len(s) : s[i] = x)
    BY <1>5, <1>6
  <1>8. \A i, j \in 1..Len(d) : d[i] = d[j] => i = j
    BY <1>4
  <1>. QED BY <1>1, <1>3, <1>7, <1>8

\* A new waiter goes to the end of the list.
LEMMA AppendMembers ==
    ASSUME NEW S, NEW s \in Seq(S), NEW t \in S,
           ~OnList(s, t), Distinct(s)
    PROVE  /\ Append(s, t) \in Seq(S) /\ Distinct(Append(s, t))
           /\ \A x : OnList(Append(s, t), x) <=> (x = t \/ OnList(s, x))
  <1>. USE DEF OnList, Distinct
  <1>1. /\ Append(s, t) \in Seq(S) /\ Len(Append(s, t)) = Len(s) + 1 /\ Len(s) \in Nat
        /\ Append(s, t)[Len(s) + 1] = t
        /\ \A i \in 1..Len(s) : Append(s, t)[i] = s[i]
    OBVIOUS
  <1>2. \A i, j \in 1..Len(Append(s, t)) : Append(s, t)[i] = Append(s, t)[j] => i = j
    BY <1>1
  <1>. QED BY <1>1, <1>2

\* The mutex is free and nobody is inside at the start.
LEMMA InitInv == Init => IInv
  BY NoneAssumption DEF Init, IInv, TypeOK, LockInv, NoDanglingWaiter, MutualExclusion,
     CountMeansFree, NoLostWakeup, OnList, Distinct, Owns, PC, Queued, Locked

\* A step that leaves the list alone: only the task's own place in the code
\* and the count matter.
LEMMA CountStep ==
    ASSUME IInv, NEW t \in Task,
           \/ \E m \in {"UNINT", "INT"} : FastLock(t, m)
           \/ Xchg(t) \/ SetState(t) \/ TryLock(t) \/ TryBack(t) \/ FastUnlock(t)
    PROVE  IInv'
  <1>. USE DEF IInv
  <1>1. /\ \A u \in Task : u # t => pc'[u] = pc[u] /\ mode'[u] = mode[u]
        /\ UNCHANGED <<wait_list, wait_lock, state, signal>>
    BY DEF TypeOK, FastLock, Xchg, SetState, TryLock, TryBack, FastUnlock, Goto
  <1>2. pc'[t] \in PC /\ mode'[t] \in {"UNINT", "INT"} /\ count' \in {-1, 0, 1}
    BY DEF TypeOK, FastLock, Xchg, SetState, TryLock, TryBack, FastUnlock, Goto, PC, Queued
  <1>3. TypeOK'
    <2>1. pc' \in [Task -> PC] /\ mode' \in [Task -> {"UNINT", "INT"}]
      BY <1>2 DEF TypeOK, FastLock, Xchg, SetState, TryLock, TryBack, FastUnlock, Goto
    <2>. QED BY <2>1, <1>1, <1>2 DEF TypeOK
  <1>4. /\ pc'[t] \in Locked <=> pc[t] \in Locked
        /\ pc'[t] \in Queued <=> pc[t] \in Queued
    BY DEF TypeOK, FastLock, Xchg, SetState, TryLock, TryBack, FastUnlock, Goto, Locked, Queued
  <1>5. LockInv' /\ NoDanglingWaiter'
    BY <1>1, <1>4 DEF LockInv, NoDanglingWaiter
  <1>6. MutualExclusion' /\ CountMeansFree'
    <2>1. CASE Owns(t)
      <3>1. \A u \in Task : u # t => ~Owns(u) /\ ~Owns(u)'
        BY <2>1, <1>1 DEF MutualExclusion, Owns
      <3>2. pc[t] = "own" /\ FastUnlock(t)
        BY <2>1 DEF Owns, FastLock, Xchg, SetState, TryLock, TryBack, FastUnlock
      <3>3. ~Owns(t)' /\ count' = 1
        BY <3>2 DEF FastUnlock, Goto, Owns, TypeOK
      <3>. QED BY <3>1, <3>3 DEF MutualExclusion, CountMeansFree
    <2>2. CASE ~Owns(t) /\ count = 1
      <3>1. \A u \in Task : u # t => ~Owns(u)'
        BY <2>2, <1>1 DEF CountMeansFree, Owns
      <3>2. CASE SetState(t)
        BY <3>1, <3>2, <2>2 DEF SetState, Goto, Owns, TypeOK, MutualExclusion, CountMeansFree
      <3>3. CASE ~SetState(t)
        <4>1. Owns(t)' /\ count' # 1
          BY <3>3, <2>2 DEF FastLock, Xchg, TryLock, TryBack, FastUnlock, Goto, Owns, TypeOK
        <4>. QED BY <3>1, <4>1 DEF MutualExclusion, CountMeansFree
      <3>. QED BY <3>2, <3>3
    <2>3. CASE ~Owns(t) /\ count # 1
      <3>1. ~Owns(t)' /\ count' # 1
        BY <2>3 DEF FastLock, Xchg, SetState, TryLock, TryBack, FastUnlock, Goto, Owns, TypeOK
      <3>2. PICK o \in Task : Owns(o)
        BY <2>3 DEF CountMeansFree
      <3>3. \A u \in Task : Owns(u)' <=> Owns(u)
        BY <3>1, <2>3, <1>1 DEF Owns
      <3>. QED BY <3>1, <3>2, <3>3 DEF MutualExclusion, CountMeansFree
    <2>. QED BY <2>1, <2>2, <2>3
  <1>7. NoLostWakeup'
    <2>. SUFFICES ASSUME NEW v \in Task, pc'[v] \in {"fail", "setst", "sched"}, count' # -1
                  PROVE  \E u \in Task : InTransit(u)'
      BY DEF NoLostWakeup
    <2>1. \A u \in Task : u # t => (InTransit(u)' <=> InTransit(u))
      BY <1>1 DEF InTransit, Runnable
    <2>2. ~Xchg(t) /\ ~TryBack(t)
      BY DEF Xchg, TryBack
    <2>3. pc[v] \in {"fail", "setst", "sched"}
      BY <1>1, <2>2 DEF TypeOK, FastLock, SetState, TryLock, FastUnlock, Goto
    <2>4. CASE InTransit(t)'
      BY <2>4
    <2>5. CASE ~InTransit(t)'
      <3>1. count # -1
        BY <2>2, <2>5 DEF FastLock, SetState, TryLock, FastUnlock, Goto, InTransit, TypeOK
      <3>2. ~InTransit(t)
        BY <2>2, <2>5 DEF FastLock, SetState, TryLock, FastUnlock, InTransit
      <3>3. PICK u \in Task : InTransit(u)
        BY <2>3, <3>1 DEF NoLostWakeup
      <3>. QED BY <3>2, <3>3, <2>1
    <2>. QED BY <2>4, <2>5
  <1>. QED BY <1>3, <1>5, <1>6, <1>7

\* wait_lock is taken by a new waiter or by one that wakes, and dropped by one
\* that goes to sleep.
LEMMA SleepStep ==
    ASSUME IInv, NEW t \in Task, Enqueue(t) \/ Sleep(t) \/ Resume(t)
    PROVE  IInv'
  <1>. USE DEF IInv
  <1>1. /\ \A u \in Task : u # t => pc'[u] = pc[u] /\ state'[u] = state[u]
        /\ UNCHANGED <<count, mode, signal>>
        /\ pc[t] \in {"slow", "setst", "sched"} /\ pc'[t] \in {"xchg1", "sched", "xchg2"}
        /\ state'[t] \in {"RUNNING", "UNINT", "INT"}
    BY DEF TypeOK, Enqueue, Sleep, Resume, Goto
  <1>2. TypeOK' /\ NoDanglingWaiter'
    <2>1. pc' \in [Task -> PC] /\ state' \in [Task -> {"RUNNING", "UNINT", "INT"}]
      BY DEF TypeOK, Enqueue, Sleep, Resume, Goto, PC, Queued
    <2>2. wait_lock' \in Task \cup {None}
      BY DEF Enqueue, Sleep, Resume
    <2>3. CASE Enqueue(t)
      <3>1. wait_list \in Seq(Task) /\ ~OnList(wait_list, t)
        BY <2>3 DEF Enqueue, NoDanglingWaiter, Queued, TypeOK
      <3>2. Distinct(wait_list)
        BY DEF NoDanglingWaiter
      <3>3. /\ wait_list' \in Seq(Task) /\ Distinct(wait_list')
            /\ \A x : OnList(wait_list', x) <=> (x = t \/ OnList(wait_list, x))
        BY <2>3, <3>1, <3>2, AppendMembers DEF Enqueue
      <3>4. \A u \in Task : pc'[u] \in Queued <=> (u = t \/ pc[u] \in Queued)
        BY <1>1 DEF Queued
      <3>. QED BY <2>1, <2>2, <3>3, <3>4, <1>1 DEF TypeOK, NoDanglingWaiter
    <2>4. CASE ~Enqueue(t)
      <3>1. \A u \in Task : pc'[u] \in Queued <=> pc[u] \in Queued
        BY <1>1, <2>4 DEF Queued, Sleep, Resume
      <3>2. wait_list' = wait_list
        BY <2>4 DEF Sleep, Resume
      <3>. QED BY <2>1, <2>2, <3>1, <3>2, <1>1 DEF TypeOK, NoDanglingWaiter
    <2>. QED BY <2>3, <2>4
  <1>3. LockInv'
    BY <1>1, NoneAssumption DEF LockInv, Locked, Enqueue, Sleep, Resume, Goto, TypeOK
  <1>4. MutualExclusion' /\ CountMeansFree'
    <2>1. \A u \in Task : Owns(u)' <=> Owns(u)
      BY <1>1 DEF Owns
    <2>. QED BY <2>1, <1>1 DEF MutualExclusion, CountMeansFree
  <1>5. NoLostWakeup'
    <2>. SUFFICES ASSUME NEW v \in Task, pc'[v] \in {"fail", "setst", "sched"}, count' # -1
                  PROVE  \E u \in Task : InTransit(u)'
      BY DEF NoLostWakeup
    <2>1. \A u \in Task : u # t => (InTransit(u)' <=> InTransit(u))
      BY <1>1 DEF InTransit, Runnable
    <2>2. CASE Sleep(t)
      <3>1. pc[v] \in {"fail", "setst", "sched"} /\ pc[t] = "setst"
        BY <2>2, <1>1 DEF Sleep
      <3>2. PICK u \in Task : InTransit(u)
        BY <3>1, <1>1 DEF NoLostWakeup
      <3>3. u # t
        BY <3>1, <3>2 DEF InTransit
      <3>. QED BY <3>2, <3>3, <2>1
    <2>3. CASE ~Sleep(t)
      BY <2>3, <1>1 DEF Enqueue, Resume, InTransit, Goto, TypeOK
    <2>. QED BY <2>2, <2>3
  <1>. QED BY <1>2, <1>3, <1>4, <1>5

\* A waiter leaves the list, with the mutex or with -EINTR.
LEMMA LeaveStep ==
    ASSUME IInv, NEW t \in Task, Interrupted(t) \/ Done(t)
    PROVE  IInv'
  <1>. USE DEF IInv
  <1>1. /\ \A u \in Task : u # t => pc'[u] = pc[u] /\ signal'[u] = signal[u]
        /\ UNCHANGED <<state, mode>>
        /\ pc[t] \in {"fail", "done"} /\ pc'[t] = IF pc[t] = "done" THEN "own" ELSE "idle"
        /\ wait_list' = ListDel(wait_list, t) /\ wait_lock' = None
    BY DEF TypeOK, Interrupted, Done, Goto
  <1>2. /\ wait_list' \in Seq(Task) /\ Distinct(wait_list')
        /\ \A x : OnList(wait_list', x) <=> (x # t /\ OnList(wait_list, x))
    <2>1. wait_list \in Seq(Task) /\ OnList(wait_list, t) /\ Distinct(wait_list)
      BY <1>1 DEF NoDanglingWaiter, Queued, TypeOK
    <2>. QED BY <2>1, <1>1, ListDelMembers
  <1>3. NoDanglingWaiter'
    <2>1. \A u \in Task : pc'[u] \in Queued <=> (u # t /\ pc[u] \in Queued)
      BY <1>1 DEF Queued
    <2>. QED BY <2>1, <1>2 DEF NoDanglingWaiter
  <1>4. /\ pc[t] = "fail" => count' = count
        /\ pc[t] = "done" => count' = IF wait_list' = <<>> THEN 0 ELSE count
    BY DEF Interrupted, Done
  <1>5. TypeOK'
    <2>1. pc' \in [Task -> PC] /\ signal' \in [Task -> BOOLEAN]
      BY DEF TypeOK, Interrupted, Done, Goto, PC
    <2>2. count' \in {-1, 0, 1}
      BY <1>1, <1>4 DEF TypeOK
    <2>. QED BY <2>1, <2>2, <1>1, <1>2 DEF TypeOK
  <1>6. LockInv'
    BY <1>1, NoneAssumption DEF LockInv, Locked
  <1>7. MutualExclusion' /\ CountMeansFree'
    <2>1. \A u \in Task : Owns(u)' <=> Owns(u)
      BY <1>1 DEF Owns
    <2>2. (count' = 1) <=> (count = 1)
      BY <1>1, <1>4 DEF CountMeansFree, Owns
    <2>. QED BY <2>1, <2>2 DEF MutualExclusion, CountMeansFree
  <1>8. NoLostWakeup'
    <2>. SUFFICES ASSUME NEW v \in Task, pc'[v] \in {"fail", "setst", "sched"}, count' # -1
                  PROVE  \E u \in Task : InTransit(u)'
      BY DEF NoLostWakeup
    <2>1. \A u \in Task : u # t => (InTransit(u)' <=> InTransit(u))
      BY <1>1 DEF InTransit, Runnable
    <2>2. v # t /\ pc[v] \in {"fail", "setst", "sched"}
      BY <1>1
    <2>3. wait_list' # <<>>
      BY <2>2, <1>3 DEF NoDanglingWaiter, OnList, Queued
    <2>4. count # -1 /\ ~InTransit(t)
      BY <2>3, <1>1, <1>4 DEF InTransit
    <2>5. PICK u \in Task : InTransit(u)
      BY <2>2, <2>4 DEF NoLostWakeup
    <2>. QED BY <2>1, <2>4, <2>5
  <1>. QED BY <1>3, <1>5, <1>6, <1>7, <1>8

\* A wakeup, by the slow path of unlock, by a signal or from elsewhere.
LEMMA WakeStep ==
    ASSUME IInv, NEW t \in Task,
           UnlockSlow(t) \/ SendSignal(t) \/ HandleSignal(t) \/ SpuriousWake(t)
    PROVE  IInv'
  <1>. USE DEF IInv
  <1>1. /\ \A u \in Task : u # t => pc'[u] = pc[u] /\ signal'[u] = signal[u]
        /\ UNCHANGED <<count, wait_list, wait_lock, mode>>
        /\ pc'[t] = pc[t] \/ (UnlockSlow(t) /\ pc[t] = "uslow" /\ pc'[t] = "idle")
        /\ \A u \in Task : state'[u] = state[u] \/ state'[u] = "RUNNING"
    BY DEF TypeOK, UnlockSlow, SendSignal, HandleSignal, SpuriousWake, Goto
  <1>2. TypeOK'
    <2>1. pc' \in [Task -> PC] /\ signal' \in [Task -> BOOLEAN]
      BY DEF TypeOK, UnlockSlow, SendSignal, HandleSignal, SpuriousWake, Goto, PC
    <2>2. state' \in [Task -> {"RUNNING", "UNINT", "INT"}]
      BY DEF TypeOK, UnlockSlow, SendSignal, HandleSignal, SpuriousWake
    <2>. QED BY <2>1, <2>2, <1>1 DEF TypeOK
  <1>3. \A u \in Task : /\ pc'[u] \in Queued <=> pc[u] \in Queued
                        /\ pc'[u] \in Locked <=> pc[u] \in Locked
                        /\ Owns(u)' <=> Owns(u)
    BY <1>1 DEF Queued, Locked, Owns
  <1>4. LockInv' /\ NoDanglingWaiter' /\ MutualExclusion' /\ CountMeansFree'
    BY <1>1, <1>3 DEF LockInv, NoDanglingWaiter, MutualExclusion, CountMeansFree
  <1>5. NoLostWakeup'
    <2>. SUFFICES ASSUME NEW v \in Task, pc'[v] \in {"fail", "setst", "sched"}, count' # -1
                  PROVE  \E u \in Task : InTransit(u)'
      BY DEF NoLostWakeup
    <2>1. pc[v] \in {"fail", "setst", "sched"} /\ count # -1
      BY <1>1
    <2>2. CASE UnlockSlow(t)
      <3>1. wait_lock = None /\ \A u \in Task : pc[u] \notin Locked
        BY <2>2, NoneAssumption DEF UnlockSlow, LockInv
      <3>2. wait_list # <<>> /\ wait_list \in Seq(Task)
        BY <2>1 DEF NoDanglingWaiter, OnList, Queued, TypeOK
      <3>3. PICK h \in Task : h = Head(wait_list) /\ OnList(wait_list, h)
        BY <3>2 DEF OnList
      <3>4. pc[h] = "sched" /\ state'[h] = "RUNNING" /\ pc'[h] = "sched"
        BY <2>2, <3>1, <3>2, <3>3, <1>1
           DEF NoDanglingWaiter, Queued, Locked, UnlockSlow, TypeOK
      <3>. QED BY <3>4 DEF InTransit, Runnable
    <2>3. CASE ~UnlockSlow(t)
      <3>1. PICK u \in Task : InTransit(u)
        BY <2>1 DEF NoLostWakeup
      <3>2. pc'[u] = pc[u] /\ (pc[u] = "sched" => signal'[u] \/ ~signal[u])
        BY <2>3, <1>1 DEF SendSignal, HandleSignal, SpuriousWake, TypeOK
      <3>3. (pc[u] = "sched" /\ Runnable(u)) => Runnable(u)'
        BY <3>2, <1>1 DEF Runnable, TypeOK
      <3>. QED BY <3>1, <3>2, <3>3 DEF InTransit
    <2>. QED BY <2>2, <2>3
  <1>. QED BY <1>2, <1>4, <1>5

\* Every step of the mutex preserves the inductive invariant.
LEMMA NextInv == IInv /\ [Next]_vars => IInv'
  <1>. SUFFICES ASSUME IInv, [Next]_vars PROVE IInv'
    OBVIOUS
  <1>1. ASSUME NEW t \in Task, NEW m \in {"UNINT", "INT"}, FastLock(t, m) PROVE IInv'
    BY <1>1, CountStep
  <1>2. ASSUME NEW t \in Task, SlowPath(t) PROVE IInv'
    BY <1>2, CountStep, SleepStep, LeaveStep DEF SlowPath
  <1>3. ASSUME NEW t \in Task, TryLock(t) \/ TryBack(t) \/ FastUnlock(t) PROVE IInv'
    BY <1>3, CountStep
  <1>4. ASSUME NEW t \in Task,
               UnlockSlow(t) \/ SendSignal(t) \/ HandleSignal(t) \/ SpuriousWake(t)
        PROVE IInv'
    BY <1>4, WakeStep
  <1>5. CASE UNCHANGED vars
    <2>1. TypeOK' /\ LockInv' /\ NoDanglingWaiter' /\ MutualExclusion' /\ CountMeansFree'
      BY <1>5 DEF vars, IInv, TypeOK, LockInv, NoDanglingWaiter, MutualExclusion,
         CountMeansFree, OnList, Distinct, Owns
    <2>2. NoLostWakeup'
      BY <1>5 DEF vars, IInv, NoLostWakeup, InTransit, Runnable
    <2>. QED BY <2>1, <2>2 DEF IInv
  <1>. QED BY <1>1, <1>2, <1>3, <1>4, <1>5 DEF Next

\* The inductive invariant holds in every reachable state.
THEOREM Invariance == Safety => []IInv
  BY InitInv, NextInv, PTL DEF Safety

\* The fields of struct mutex keep their types; the count stays in -1..1.
THEOREM TypeCorrect == Safety => []TypeOK
  <1>1. IInv => TypeOK
    BY DEF IInv
  <1>. QED BY <1>1, Invariance, PTL

\* At most one task holds the mutex, and the count tells whether one does.
THEOREM ExclusionHolds == Safety => [](MutualExclusion /\ CountMeansFree)
  <1>1. IInv => MutualExclusion /\ CountMeansFree
    BY DEF IInv
  <1>. QED BY <1>1, Invariance, PTL

\* The list holds the stack structures of the tasks that wait, and no others.
THEOREM NoDanglingWaiterHolds == Safety => []NoDanglingWaiter
  <1>1. IInv => NoDanglingWaiter
    BY DEF IInv
  <1>. QED BY <1>1, Invariance, PTL

\* Behind a sleeping waiter there is the contended mark or a task in transit.
THEOREM NoLostWakeupHolds == Safety => []NoLostWakeup
  <1>1. IInv => NoLostWakeup
    BY DEF IInv
  <1>. QED BY <1>1, Invariance, PTL
===============================================================================
