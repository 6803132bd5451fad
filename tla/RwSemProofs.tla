------------------------------ MODULE RwSemProofs ------------------------------
(***************************************************************************)
(* TLAPS proofs about RwSem for any finite set of tasks.                   *)
(***************************************************************************)
EXTENDS RwSem, FiniteSetTheorems, SequenceTheorems, TLAPS

\* The first element of a list without repetitions leaves it, and nobody else.
LEMMA TailMembers ==
    ASSUME NEW S, NEW s \in Seq(S), s # <<>>,
           \A i, j \in 1..Len(s) : s[i] = s[j] => i = j
    PROVE  /\ Head(s) \in S /\ Tail(s) \in Seq(S)
           /\ \A i, j \in 1..Len(Tail(s)) : Tail(s)[i] = Tail(s)[j] => i = j
           /\ \A x : (\E i \in 1..Len(Tail(s)) : Tail(s)[i] = x)
                       <=> (x # Head(s) /\ \E i \in 1..Len(s) : s[i] = x)
  <1>1. Len(s) \in Nat /\ Len(s) > 0 /\ Head(s) = s[1] /\ Head(s) \in S
    OBVIOUS
  <1>2. /\ Tail(s) \in Seq(S) /\ Len(Tail(s)) = Len(s) - 1
        /\ \A i \in 1..Len(Tail(s)) : Tail(s)[i] = s[i + 1]
    OBVIOUS
  <1>3. \A i, j \in 1..Len(Tail(s)) : Tail(s)[i] = Tail(s)[j] => i = j
    BY <1>1, <1>2
  <1>4. ASSUME NEW x
        PROVE (\E i \in 1..Len(Tail(s)) : Tail(s)[i] = x)
                <=> (x # Head(s) /\ \E i \in 1..Len(s) : s[i] = x)
    <2>1. ASSUME NEW i \in 1..Len(Tail(s)), Tail(s)[i] = x
          PROVE x # Head(s) /\ \E k \in 1..Len(s) : s[k] = x
      <3>1. i + 1 \in 1..Len(s) /\ s[i + 1] = x /\ 1 \in 1..Len(s) /\ i + 1 # 1
        BY <1>1, <1>2, <2>1
      <3>. QED BY <3>1, <1>1
    <2>2. ASSUME NEW i \in 1..Len(s), s[i] = x, x # Head(s)
          PROVE \E k \in 1..Len(Tail(s)) : Tail(s)[k] = x
      <3>1. i # 1 /\ i - 1 \in 1..Len(Tail(s))
        BY <1>1, <1>2, <2>2
      <3>2. Tail(s)[i - 1] = s[(i - 1) + 1] /\ (i - 1) + 1 = i
        BY <3>1, <1>2
      <3>. QED BY <3>1, <3>2, <2>2
    <2>. QED BY <2>1, <2>2
  <1>. QED BY <1>1, <1>2, <1>3, <1>4

\* A new element goes to the end and keeps the others.
LEMMA AppendMembers ==
    ASSUME NEW S, NEW s \in Seq(S), NEW t \in S,
           \A i, j \in 1..Len(s) : s[i] = s[j] => i = j,
           ~ \E i \in 1..Len(s) : s[i] = t
    PROVE  /\ Append(s, t) \in Seq(S) /\ Append(s, t) # <<>>
           /\ \A i, j \in 1..Len(Append(s, t)) : Append(s, t)[i] = Append(s, t)[j] => i = j
           /\ \A x : (\E i \in 1..Len(Append(s, t)) : Append(s, t)[i] = x)
                       <=> (x = t \/ \E i \in 1..Len(s) : s[i] = x)
           /\ s # <<>> => Head(Append(s, t)) = Head(s)
           /\ s = <<>> => Head(Append(s, t)) = t
  <1>1. /\ Append(s, t) \in Seq(S) /\ Len(Append(s, t)) = Len(s) + 1 /\ Len(s) \in Nat
        /\ Append(s, t)[Len(s) + 1] = t
        /\ \A i \in 1..Len(s) : Append(s, t)[i] = s[i]
    OBVIOUS
  <1>2. \A i, j \in 1..Len(Append(s, t)) : Append(s, t)[i] = Append(s, t)[j] => i = j
    BY <1>1
  <1>3. \A x : (\E i \in 1..Len(Append(s, t)) : Append(s, t)[i] = x)
                 <=> (x = t \/ \E i \in 1..Len(s) : s[i] = x)
    BY <1>1
  <1>4. /\ Append(s, t) # <<>>
        /\ s # <<>> => Head(Append(s, t)) = Head(s)
        /\ s = <<>> => Head(Append(s, t)) = t
    BY <1>1
  <1>. QED BY <1>1, <1>2, <1>3, <1>4

\* Readers is a finite set, and one task more or less counts one.
LEMMA CountReaders ==
    ASSUME NEW R \in SUBSET Task, NEW t \in Task
    PROVE  /\ Cardinality(R) \in Nat
           /\ t \notin R => Cardinality(R \cup {t}) = Cardinality(R) + 1
           /\ t \in R => Cardinality(R \ {t}) = Cardinality(R) - 1
           /\ t \in R => Cardinality(R) > 0
           /\ Cardinality(R) = 0 <=> R = {}
  <1>1. IsFiniteSet(R)
    BY FS_Subset, TaskAssumption
  <1>2. Cardinality(R) \in Nat /\ (Cardinality(R) = 0 <=> R = {})
    BY <1>1, FS_CardinalityType, FS_EmptySet
  <1>3. t \notin R => Cardinality(R \cup {t}) = Cardinality(R) + 1
    BY <1>1, FS_AddElement
  <1>4. t \in R => Cardinality(R \ {t}) = Cardinality(R) - 1
    BY <1>1, FS_RemoveElement
  <1>. QED BY <1>2, <1>3, <1>4

\* The abstract queue of a list s and flags f is a sequence as long as s.
LEMMA RequestsType ==
    ASSUME NEW s \in Seq(Task), NEW f \in [Task -> {"R", "W"}],
           NEW q, q = [i \in 1..Len(s) |-> [task |-> s[i], kind |-> f[s[i]]]]
    PROVE  /\ q \in Seq(Lock!Request) /\ Len(q) = Len(s)
           /\ \A i \in 1..Len(s) : q[i] = [task |-> s[i], kind |-> f[s[i]]]
  <1>1. Len(s) \in Nat /\ \A i \in 1..Len(s) : s[i] \in Task
    OBVIOUS
  <1>2. \A i \in 1..Len(s) : [task |-> s[i], kind |-> f[s[i]]] \in Lock!Request
    BY <1>1 DEF Lock!Request
  <1>. QED BY <1>1, <1>2

\* It does not change while the list and the flags of the waiters do not.
LEMMA RequestsSame ==
    ASSUME TypeOK, UNCHANGED wait_list, \A u \in Task : InList(u) => flags'[u] = flags[u]
    PROVE  Requests' = Requests
  <1>1. \A i \in 1..Len(wait_list) : flags'[wait_list[i]] = flags[wait_list[i]]
    BY DEF InList, TypeOK
  <1>. QED BY <1>1 DEF Requests

\* A waiter that is added to the list is a request that joins the queue.
LEMMA RequestsAppend ==
    ASSUME TypeOK, NEW t \in Task, NEW k \in {"R", "W"},
           flags' \in [Task -> {"R", "W"}],
           wait_list' = Append(wait_list, t), flags'[t] = k,
           \A u \in Task : InList(u) => flags'[u] = flags[u]
    PROVE  Requests' = Append(Requests, [task |-> t, kind |-> k])
  <1>1. /\ wait_list \in Seq(Task) /\ wait_list' \in Seq(Task) /\ Len(wait_list) \in Nat
        /\ Len(wait_list') = Len(wait_list) + 1 /\ wait_list'[Len(wait_list) + 1] = t
        /\ \A i \in 1..Len(wait_list) : /\ wait_list'[i] = wait_list[i] /\ wait_list[i] \in Task
                                        /\ flags'[wait_list[i]] = flags[wait_list[i]]
    BY DEF TypeOK, InList
  <1>2. /\ Requests \in Seq(Lock!Request) /\ Len(Requests) = Len(wait_list)
        /\ \A i \in 1..Len(wait_list) :
                Requests[i] = [task |-> wait_list[i], kind |-> flags[wait_list[i]]]
    BY <1>1, RequestsType DEF Requests, TypeOK
  <1>3. /\ Requests' \in Seq(Lock!Request) /\ Len(Requests') = Len(wait_list')
        /\ \A i \in 1..Len(wait_list') :
                Requests'[i] = [task |-> wait_list'[i], kind |-> flags'[wait_list'[i]]]
    BY <1>1, RequestsType DEF Requests
  <1>4. PICK r \in Lock!Request : r = [task |-> t, kind |-> k]
    BY DEF Lock!Request
  <1>5. PICK q : q = Append(Requests, r)
    OBVIOUS
  <1>6. /\ q \in Seq(Lock!Request) /\ Len(q) = Len(wait_list) + 1 /\ q[Len(wait_list) + 1] = r
        /\ \A i \in 1..Len(wait_list) : q[i] = Requests[i]
    BY <1>1, <1>2, <1>5
  <1>7. \A i \in 1..Len(Requests') : Requests'[i] = q[i]
    <2>1. ASSUME NEW i \in 1..Len(wait_list) PROVE Requests'[i] = q[i]
      BY <1>1, <1>2, <1>3, <1>6
    <2>2. Requests'[Len(wait_list) + 1] = r
      BY <1>1, <1>3, <1>4
    <2>. QED BY <2>1, <2>2, <1>1, <1>3, <1>6
  <1>8. Requests' = q
    BY <1>1, <1>3, <1>6, <1>7, SeqEqual
  <1>. QED BY <1>4, <1>5, <1>8

\* The waiter that is taken off the list is the oldest request.
LEMMA RequestsTail ==
    ASSUME TypeOK, wait_list # <<>>, wait_list' = Tail(wait_list), UNCHANGED flags
    PROVE  /\ Requests # <<>> /\ Requests' = Tail(Requests)
           /\ Head(Requests).task = Head(wait_list)
           /\ Head(Requests).kind = flags[Head(wait_list)]
  <1>1. /\ wait_list \in Seq(Task) /\ wait_list' \in Seq(Task) /\ Len(wait_list) \in Nat
        /\ Len(wait_list') = Len(wait_list) - 1 /\ Len(wait_list) > 0
        /\ Head(wait_list) = wait_list[1]
        /\ \A i \in 1..Len(wait_list') : wait_list'[i] = wait_list[i + 1]
    BY DEF TypeOK
  <1>2. /\ Requests \in Seq(Lock!Request) /\ Len(Requests) = Len(wait_list)
        /\ \A i \in 1..Len(wait_list) :
                Requests[i] = [task |-> wait_list[i], kind |-> flags[wait_list[i]]]
    BY <1>1, RequestsType DEF Requests, TypeOK
  <1>3. /\ Requests' \in Seq(Lock!Request) /\ Len(Requests') = Len(wait_list')
        /\ \A i \in 1..Len(wait_list') :
                Requests'[i] = [task |-> wait_list'[i], kind |-> flags[wait_list'[i]]]
    BY <1>1, RequestsType DEF Requests, TypeOK
  <1>4. Requests # <<>> /\ Head(Requests) = Requests[1]
    BY <1>1, <1>2
  <1>5. PICK q : q = Tail(Requests)
    OBVIOUS
  <1>6. /\ q \in Seq(Lock!Request) /\ Len(q) = Len(wait_list) - 1
        /\ \A i \in 1..Len(q) : q[i] = Requests[i + 1]
    BY <1>1, <1>2, <1>4, <1>5
  <1>7. \A i \in 1..Len(Requests') : Requests'[i] = q[i]
    <2>. SUFFICES ASSUME NEW i \in 1..Len(Requests') PROVE Requests'[i] = q[i]
      OBVIOUS
    <2>1. i \in 1..Len(q) /\ i + 1 \in 1..Len(wait_list)
      BY <1>1, <1>3, <1>6
    <2>2. Requests'[i] = [task |-> wait_list[i + 1], kind |-> flags[wait_list[i + 1]]]
      BY <2>1, <1>1, <1>3
    <2>3. q[i] = [task |-> wait_list[i + 1], kind |-> flags[wait_list[i + 1]]]
      BY <2>1, <1>2, <1>6
    <2>. QED BY <2>2, <2>3
  <1>8. Requests' = q
    BY <1>1, <1>3, <1>6, <1>7, SeqEqual
  <1>9. Requests[1] = [task |-> wait_list[1], kind |-> flags[wait_list[1]]]
    BY <1>1, <1>2
  <1>. QED BY <1>1, <1>4, <1>5, <1>8, <1>9

\* The initial semaphore satisfies the invariant.
LEMMA InitInv == Init => IInv
  <1>. SUFFICES ASSUME Init PROVE IInv
    OBVIOUS
  <1>1. Readers = {} /\ Writers = {} /\ Cardinality(Readers) = 0
    BY FS_EmptySet DEF Init, Readers, Writers, GrantedWaiter, Ctx, WakerPC
  <1>2. TypeOK
    BY TaskAssumption DEF Init, TypeOK, PC, Ctx
  <1>3. Len(wait_list) = 0 /\ \A t \in Task : ~InList(t)
    BY DEF Init, InList
  <1>4. ListInv
    BY <1>3 DEF Init, ListInv, Ctx
  <1>5. LockInv
    BY TaskAssumption DEF Init, LockInv, WakerPC, Ctx
  <1>6. UsageInv
    BY <1>3, TaskAssumption DEF Init, UsageInv, Ctx
  <1>7. CountInv /\ WakeInv /\ QueueJustified /\ NoLostWakeup
    BY <1>1 DEF Init, CountInv, WakeInv, QueueJustified, NoLostWakeup, GrantedWaiter, Ctx
  <1>. QED BY <1>2, <1>4, <1>5, <1>6, <1>7 DEF IInv

-------------------------------------------------------------------------------
(* One lemma per operation: it preserves the invariant and is a step of the *)
(* abstract lock, or changes nothing of it                                  *)

AbstractStep == Lock!LockNext \/ UNCHANGED <<Readers, Writers, Requests>>

\* A task that is granted the lock at once.
LEMMA GrantedStep ==
    ASSUME IInv, NEW t \in Task, pc[t] = "idle", wait_lock = None,
           \/ CanRead /\ Granted(t, activity + 1, "rd")
           \/ CanWrite /\ Granted(t, -1, "wr")
    PROVE  IInv' /\ AbstractStep
  <1>. USE DEF IInv, Granted
  <1>1. /\ t \in Ctx /\ \A u \in Task : u # t => pc'[u] = pc[u]
        /\ pc'[t] \in {"rd", "wr"} /\ pc' \in [Ctx -> PC]
        /\ wait_list = <<>>
    BY DEF TypeOK, Ctx, PC, CanRead, CanWrite
  <1>2. \A u \in Task : /\ InList(u)' <=> InList(u)
                        /\ GrantedWaiter(u)' <=> GrantedWaiter(u)
    BY <1>1 DEF InList, GrantedWaiter
  <1>3. t \notin Readers /\ t \notin Writers
    BY DEF Readers, Writers, WakerPC, GrantedWaiter
  <1>4. TypeOK'
    <2>1. activity' \in Int
      BY DEF TypeOK
    <2>. QED BY <1>1, <2>1 DEF TypeOK
  <1>5. ListInv'
    BY <1>1, <1>2 DEF ListInv
  <1>6. LockInv'
    BY <1>1, <1>2, TaskAssumption DEF LockInv, WakerPC, Ctx, TypeOK
  <1>7. UsageInv'
    BY <1>1, <1>2 DEF UsageInv
  <1>8. /\ CountInv' /\ wait_lock' = None /\ wait_list' = <<>> /\ Writers = {}
        /\ \/ Readers' = Readers \cup {t} /\ Writers' = Writers
           \/ Readers = {} /\ Readers' = {} /\ Writers' = {t}
    <2>1. Readers \in SUBSET Task /\ woken = 0
      BY DEF Readers, LockInv
    <2>2. CASE CanRead /\ Granted(t, activity + 1, "rd")
      <3>1. Readers' = Readers \cup {t} /\ Writers' = Writers
        BY <2>2, <1>1, <1>2 DEF Readers, Writers, WakerPC, TypeOK
      <3>2. Writers = {} /\ activity + woken = Cardinality(Readers)
        BY <2>2 DEF CountInv, CanRead
      <3>3. Cardinality(Readers') = Cardinality(Readers) + 1
        BY <3>1, <2>1, <1>3, CountReaders
      <3>4. activity' = activity + 1 /\ woken' = 0 /\ activity' >= 0
        BY <2>1, <2>2 DEF CanRead, TypeOK
      <3>5. Writers' = {} /\ activity' + woken' = Cardinality(Readers')
        BY <3>1, <3>2, <3>3, <3>4, <2>1 DEF TypeOK
      <3>. QED BY <3>1, <3>2, <3>4, <3>5, <2>2 DEF CountInv, CanRead
    <2>3. CASE CanWrite /\ Granted(t, -1, "wr")
      <3>1. Writers = {} /\ Readers = {}
        <4>1. Writers = {} /\ Cardinality(Readers) = 0
          BY <2>1, <2>3 DEF CountInv, CanWrite
        <4>. QED BY <4>1, <2>1, CountReaders
      <3>2. Readers' = {} /\ Writers' = {t}
        BY <3>1, <2>3, <1>1, <1>2 DEF Readers, Writers, WakerPC, TypeOK
      <3>. QED BY <3>1, <3>2, <2>1, <2>3 DEF CountInv, CanWrite
    <2>. QED BY <2>2, <2>3 DEF CanRead, CanWrite
  <1>9. WakeInv'
    BY <1>1, <1>6, <1>8, TaskAssumption DEF WakeInv, LockInv, WakerPC, Ctx
  <1>10. QueueJustified' /\ NoLostWakeup'
    BY <1>1, <1>2, <1>8, TaskAssumption DEF QueueJustified, NoLostWakeup, TypeOK, Ctx
  <1>11. AbstractStep
    <2>1. Requests' = Requests /\ Requests = <<>>
      BY <1>1 DEF Requests
    <2>2. Lock!ReadNow(t) \/ Lock!WriteNow(t)
      BY <2>1, <1>3, <1>8 DEF Lock!ReadNow, Lock!WriteNow
    <2>. QED BY <2>2 DEF AbstractStep, Lock!LockNext
  <1>. QED BY <1>4, <1>5, <1>6, <1>7, <1>8, <1>9, <1>10, <1>11

\* A task that joins the queue.
LEMMA QueueStep ==
    ASSUME IInv, NEW t \in Task, NEW k \in {"R", "W"},
           pc[t] = "idle", wait_lock = None, Queue(t, k),
           k = "R" => ~CanRead, k = "W" => ~CanWrite
    PROVE  IInv' /\ AbstractStep
  <1>. USE DEF IInv, Queue
  <1>1. /\ t \in Ctx /\ \A u \in Ctx : u # t => pc'[u] = pc[u]
        /\ \A u \in Task : u # t => wtask'[u] = wtask[u] /\ flags'[u] = flags[u]
                                    /\ state'[u] = state[u] /\ usage'[u] = usage[u]
        /\ pc'[t] = "chk" /\ wtask'[t] = TRUE /\ flags'[t] = k /\ usage'[t] = usage[t] + 1
        /\ state'[t] = "UNINT" /\ tsk = None
    BY TaskAssumption DEF TypeOK, Ctx, LockInv, TaskRef, WakerPC
  <1>2. ~InList(t) /\ wait_list \in Seq(Task)
    BY DEF ListInv, TypeOK
  <1>3. /\ wait_list' \in Seq(Task) /\ wait_list' # <<>>
        /\ \A i, j \in 1..Len(wait_list') : wait_list'[i] = wait_list'[j] => i = j
        /\ \A u : InList(u)' <=> (u = t \/ InList(u))
        /\ wait_list # <<>> => Head(wait_list') = Head(wait_list)
        /\ wait_list = <<>> => Head(wait_list') = t
    BY <1>2, AppendMembers DEF InList, ListInv
  <1>4. \A u \in Task : GrantedWaiter(u)' <=> GrantedWaiter(u)
    BY <1>1 DEF GrantedWaiter
  <1>5. TypeOK'
    BY <1>1, <1>3 DEF TypeOK, PC, TaskRef
  <1>6. ListInv'
    BY <1>1, <1>3 DEF ListInv, Ctx
  <1>7. LockInv'
    BY <1>1, <1>4, TaskAssumption DEF LockInv, WakerPC, Ctx, TypeOK
  <1>8. UsageInv'
    <2>1. ASSUME NEW u \in Task
          PROVE usage'[u] = (IF pc'[u] \in {"gone", "dead"} THEN 0 ELSE 1)
                            + (IF InList(u)' \/ tsk' = u THEN 1 ELSE 0)
      <3>1. usage[u] = (IF pc[u] \in {"gone", "dead"} THEN 0 ELSE 1)
                       + (IF InList(u) \/ tsk = u THEN 1 ELSE 0)
        BY DEF UsageInv
      <3>2. CASE u = t
        BY <3>1, <3>2, <1>1, <1>2, <1>3, TaskAssumption
      <3>3. CASE u # t
        BY <3>1, <3>3, <1>1, <1>3 DEF Ctx
      <3>. QED BY <3>2, <3>3
    <2>. QED BY <2>1 DEF UsageInv
  <1>9. Readers' = Readers /\ Writers' = Writers
    BY <1>1, <1>4, TaskAssumption DEF Readers, Writers, WakerPC, Ctx, GrantedWaiter
  <1>10. CountInv'
    BY <1>9 DEF CountInv
  <1>11. WakeInv'
    BY <1>7, TaskAssumption DEF WakeInv, LockInv, WakerPC, Ctx
  <1>12. QueueJustified'
    <2>1. CASE wait_list = <<>>
      BY <2>1, <1>1, <1>3 DEF QueueJustified, CanRead, CanWrite, TypeOK, CountInv
    <2>2. CASE wait_list # <<>>
      <3>1. Head(wait_list) \in Task /\ InList(Head(wait_list))
        BY <2>2, <1>2 DEF InList
      <3>. QED BY <2>2, <3>1, <1>1, <1>2, <1>3 DEF QueueJustified
    <2>. QED BY <2>1, <2>2
  <1>13. NoLostWakeup'
    BY <1>1, <1>4, TaskAssumption DEF NoLostWakeup, Ctx
  <1>14. AbstractStep
    <2>1. Requests' = Append(Requests, [task |-> t, kind |-> k])
      <3>1. TypeOK /\ wait_list' = Append(wait_list, t) /\ flags'[t] = k
        BY <1>1
      <3>2. flags' \in [Task -> {"R", "W"}]
        BY <1>5 DEF TypeOK
      <3>3. \A u \in Task : InList(u) => flags'[u] = flags[u]
        BY <1>1, <1>2
      <3>. QED BY <3>1, <3>2, <3>3, RequestsAppend
    <2>2. Lock!Wait(t, k)
      BY <2>1, <1>9 DEF Lock!Wait
    <2>. QED BY <2>2 DEF AbstractStep, Lock!LockNext
  <1>. QED BY <1>5, <1>6, <1>7, <1>8, <1>10, <1>11, <1>12, <1>13, <1>14

\* The two halves of the wait loop, and a wakeup from elsewhere.
LEMMA WaitStep ==
    ASSUME IInv, NEW t \in Task, Check(t) \/ Schedule(t) \/ SpuriousWake(t)
    PROVE  IInv' /\ AbstractStep
  <1>. USE DEF IInv, Check, Schedule, SpuriousWake
  <1>1. /\ t \in Ctx /\ \A u \in Ctx : u # t => pc'[u] = pc[u]
        /\ \A u \in Task : u # t => state'[u] = state[u]
        /\ pc[t] \in {"chk", "sched"}
        /\ UNCHANGED <<activity, wait_list, wait_lock, flags, wtask, usage, tsk, woken, ret>>
    BY TaskAssumption DEF TypeOK, Ctx
  <1>2. \/ pc'[t] \in {"chk", "sched"} /\ UNCHANGED <<wtask, flags>>
        \/ /\ ~wtask[t] /\ state'[t] = "RUNNING" /\ pc[t] = "chk"
           /\ pc'[t] = IF flags[t] = "R" THEN "rd" ELSE "wr"
    BY <1>1 DEF TypeOK, Ctx
  <1>3. TypeOK'
    <2>1. pc' \in [Ctx -> PC] /\ state' \in [Task -> {"RUNNING", "UNINT"}]
      BY DEF TypeOK, PC
    <2>. QED BY <2>1, <1>1 DEF TypeOK
  <1>4. \A u : InList(u)' <=> InList(u)
    BY <1>1 DEF InList
  <1>5. ListInv'
    BY <1>1, <1>2, <1>4 DEF ListInv, Ctx
  <1>6. \A u \in Task : GrantedWaiter(u)' \/ pc'[u] \in {"rd", "wr"} <=> GrantedWaiter(u) \/ pc[u] \in {"rd", "wr"}
    BY <1>1, <1>2 DEF GrantedWaiter, Ctx
  <1>7. Readers' = Readers /\ Writers' = Writers
    BY <1>1, <1>2 DEF Readers, Writers, WakerPC, Ctx, GrantedWaiter, TypeOK
  <1>8. \A c \in Ctx : c # t => pc'[c] = pc[c]
    BY <1>1
  <1>9. pc[t] \notin WakerPC /\ pc'[t] \notin WakerPC /\ t # Irq
    BY <1>1, <1>2, TaskAssumption DEF WakerPC
  <1>10. LockInv'
    BY <1>1, <1>2, <1>6, <1>8, <1>9, TaskAssumption DEF LockInv, WakerPC, Ctx, TypeOK, GrantedWaiter
  <1>11. UsageInv'
    BY <1>1, <1>2, <1>4, <1>8 DEF UsageInv, Ctx
  <1>12. CountInv'
    BY <1>1, <1>7 DEF CountInv
  <1>13. WakeInv'
    BY <1>1, <1>7, <1>8, <1>9 DEF WakeInv, WakerPC
  <1>14. QueueJustified'
    BY <1>1 DEF QueueJustified
  <1>15. NoLostWakeup'
    <2>. SUFFICES ASSUME NEW u \in Task, GrantedWaiter(u)', pc'[u] = "sched", state'[u] = "UNINT"
                  PROVE  \E c \in Ctx : pc'[c] \in {"wakeW", "wakeR"} /\ tsk' = u
      BY DEF NoLostWakeup
    <2>1. pc[u] = "sched" /\ state[u] = "UNINT" /\ GrantedWaiter(u)
      BY <1>1, <1>2 DEF GrantedWaiter, TypeOK, Ctx
    <2>2. PICK c \in Ctx : pc[c] \in {"wakeW", "wakeR"} /\ tsk = u
      BY <2>1 DEF NoLostWakeup
    <2>. QED BY <2>2, <1>1, <1>9 DEF WakerPC
  <1>16. AbstractStep
    BY <1>1, <1>7, RequestsSame DEF AbstractStep
  <1>. QED BY <1>3, <1>5, <1>10, <1>11, <1>12, <1>13, <1>14, <1>15, <1>16

\* A release takes the spinlock; the releaser keeps it if it has to wake.
LEMMA ReleaseStep ==
    ASSUME IInv, NEW c \in Ctx, NEW o \in Task, NEW a \in Int,
           NEW w \in {"none", "grantW", "grantR"},
           NEW r \in {"idle", "rd"}, NEW after \in {"idle", "rd", "dead"},
           Release(c, o, a, w, r, after),
           \/ /\ pc[o] \in {"rd", "gone"} /\ a = activity - 1 /\ w = ReadWake(a)
              /\ IF pc[o] = "rd" THEN c = o /\ after = "idle"
                                 ELSE c = Irq /\ pc[c] = "idle" /\ after = "dead"
              /\ r = "idle"
           \/ /\ pc[o] = "wr" /\ c = o /\ a = 0 /\ w = DoWake(1) /\ after = "idle" /\ r = "idle"
           \/ /\ pc[o] = "wr" /\ c = o /\ a = 1 /\ w = DoWake(0) /\ after = "rd" /\ r = "rd"
    PROVE  IInv' /\ AbstractStep
  <1>. USE DEF IInv, Release
  <1>1. /\ wait_lock = None /\ woken = 0 /\ ret = "idle" /\ tsk = None
        /\ UNCHANGED <<wait_list, flags, wtask, state, usage, tsk, woken>>
        /\ activity' = a
        /\ \A d \in Ctx : pc[d] \notin WakerPC
    BY TaskAssumption DEF LockInv, WakerPC, Ctx
  <1>2. /\ o \in Ctx /\ pc[o] \in {"rd", "gone", "wr"}
        /\ pc[o] \in {"rd", "wr"} => c = o
        /\ pc[o] = "gone" => c = Irq /\ c # o /\ after = "dead"
        /\ \A d \in Ctx : d # o /\ d # c => pc'[d] = pc[d]
        /\ w = "none" => pc'[o] = after /\ wait_lock' = None /\ ret' = "idle"
                         /\ (c # o => pc'[c] = "idle")
        /\ w # "none" => pc'[c] = w /\ wait_lock' = c /\ ret' = r
                         /\ (c # o => pc'[o] = after)
    BY <1>1, TaskAssumption DEF TypeOK, Ctx
  <1>3. TypeOK'
    <2>1. {w, after} \ {"none"} \subseteq PC
      BY DEF PC, WakerPC
    <2>2. pc' \in [Ctx -> PC]
      BY <1>1, <1>2, <2>1 DEF TypeOK
    <2>3. wait_lock' \in Ctx \cup {None} /\ ret' \in {"idle", "rd"}
      BY <1>1, <1>2 DEF TypeOK
    <2>. QED BY <2>2, <2>3, <1>1 DEF TypeOK
  <1>4. /\ \A u : InList(u)' <=> InList(u)
        /\ \A u \in Task : pc'[u] \in {"chk", "sched"} <=> pc[u] \in {"chk", "sched"}
        /\ \A u \in Task : pc'[u] \in {"chk", "sched"} => pc'[u] = pc[u]
        /\ \A u \in Task : GrantedWaiter(u)' <=> GrantedWaiter(u)
    <2>1. \A u \in Task : u # o => pc'[u] = pc[u]
      BY <1>2, TaskAssumption DEF Ctx
    <2>2. pc'[o] \in {"idle", "rd", "dead", "grantW", "grantR"}
      BY <1>2
    <2>3. \A u : InList(u)' <=> InList(u)
      BY <1>1 DEF InList
    <2>. QED BY <2>1, <2>2, <2>3, <1>1, <1>2 DEF GrantedWaiter
  <1>5. ListInv'
    BY <1>1, <1>4 DEF ListInv
  <1>6. LockInv'
    <2>1. \A d \in Ctx : pc'[d] \in WakerPC <=> wait_lock' = d
      BY <1>1, <1>2, TaskAssumption DEF WakerPC, Ctx
    <2>2. pc'[Irq] \in {"idle"} \cup WakerPC
      BY <1>1, <1>2, TaskAssumption DEF LockInv, WakerPC, Ctx
    <2>3. /\ wait_lock' = None => woken' = 0 /\ ret' = "idle"
          /\ wait_lock' = Irq => ret' = "idle"
      BY <1>1, <1>2, TaskAssumption DEF Ctx
    <2>4. /\ tsk' = None
          /\ ~ \E d \in Ctx : pc'[d] \in {"wakeW", "wakeR", "putW", "putR"}
      BY <1>1, <1>2 DEF WakerPC
    <2>. QED BY <2>1, <2>2, <2>3, <2>4 DEF LockInv
  <1>7. UsageInv'
    <2>1. \A u \in Task : pc'[u] \in {"gone", "dead"} <=> pc[u] \in {"gone", "dead"}
      <3>1. \A u \in Task : u # o => pc'[u] = pc[u]
        BY <1>2, TaskAssumption DEF Ctx
      <3>2. pc'[o] \in {"gone", "dead"} <=> pc[o] \in {"gone", "dead"}
        BY <1>2
      <3>. QED BY <3>1, <3>2
    <2>. QED BY <2>1, <1>1, <1>4 DEF UsageInv
  <1>8. /\ Writers' = {}
        /\ Readers \in SUBSET Task /\ Readers' \in SUBSET Task
        /\ a >= 0 /\ Cardinality(Readers') = a /\ (a = 0 => Readers' = {})
        /\ IF pc[o] = "wr"
           THEN Writers = {o} /\ Readers = {} /\ Readers' = IF r = "rd" THEN {o} ELSE {}
           ELSE Writers = {} /\ o \in Readers /\ Readers' = Readers \ {o}
    <2>1. Readers \in SUBSET Task /\ Readers' \in SUBSET Task
      BY DEF Readers
    <2>2. /\ \A u \in Task : u # o => (u \in Readers' <=> u \in Readers)
          /\ \A u \in Task : u # o => (u \in Writers' <=> u \in Writers)
          /\ o \notin Writers'
          /\ o \in Readers' <=> (r = "rd")
      <3>1. \A u \in Task : u # o => pc'[u] = pc[u] /\ pc[u] \notin WakerPC
        BY <1>1, <1>2, TaskAssumption DEF Ctx
      <3>2. /\ pc'[o] \in {"idle", "rd", "dead", "grantW", "grantR"} /\ ~GrantedWaiter(o)'
            /\ (pc'[o] = "rd" \/ (pc'[o] \in WakerPC /\ ret' = "rd")) <=> (r = "rd")
        BY <1>2, <1>4 DEF WakerPC, GrantedWaiter
      <3>3. \A u \in Task : GrantedWaiter(u)' <=> GrantedWaiter(u)
        BY <1>4
      <3>. QED BY <3>1, <3>2, <3>3, <1>1 DEF Readers, Writers
    <2>3. CASE pc[o] \in {"rd", "gone"}
      <3>1. o \in Readers /\ r = "idle" /\ a = activity - 1
        BY <2>3 DEF Readers
      <3>2. Writers = {} /\ activity = Cardinality(Readers)
        BY <3>1, <1>1 DEF CountInv, TypeOK
      <3>3. Writers' = {} /\ Readers' = Readers \ {o}
        BY <3>1, <3>2, <2>1, <2>2 DEF Writers
      <3>4. Cardinality(Readers') = Cardinality(Readers) - 1 /\ Cardinality(Readers) > 0
        BY <3>1, <3>3, <2>1, CountReaders
      <3>5. Cardinality(Readers') = 0 => Readers' = {}
        BY <2>1, CountReaders
      <3>. QED BY <2>1, <2>3, <3>1, <3>2, <3>3, <3>4, <3>5 DEF TypeOK
    <2>4. CASE pc[o] = "wr"
      <3>1. o \in Writers /\ Readers = {} /\ Writers = {o}
        BY <2>4 DEF Writers, CountInv
      <3>2. Writers' = {}
        BY <3>1, <2>2 DEF Writers
      <3>3. Readers' = IF r = "rd" THEN {} \cup {o} ELSE {}
        BY <3>1, <2>1, <2>2
      <3>4. Cardinality({}) = 0 /\ Cardinality({} \cup {o}) = 0 + 1
        BY CountReaders
      <3>5. a = IF r = "rd" THEN 1 ELSE 0
        BY <2>4
      <3>. QED BY <2>1, <2>4, <3>1, <3>2, <3>3, <3>4, <3>5
    <2>. QED BY <2>3, <2>4, <1>2
  <1>9. CountInv'
    BY <1>1, <1>8 DEF CountInv
  <1>10. /\ w = "grantW" => /\ a = 0 /\ wait_list # <<>> /\ flags[Head(wait_list)] = "W"
         /\ w = "grantR" => /\ wait_list # <<>> /\ flags[Head(wait_list)] = "R"
         /\ w = "none" /\ wait_list # <<>> => a > 0 /\ flags[Head(wait_list)] = "W"
    <2>1. wait_list # <<>> => Head(wait_list) \in Task /\ flags[Head(wait_list)] \in {"R", "W"}
      BY DEF TypeOK
    <2>2. CASE pc[o] \in {"rd", "gone"}
      <3>1. o \in Readers /\ w = ReadWake(a) /\ a = activity - 1
        BY <2>2 DEF Readers
      <3>2. activity > 0
        <4>1. activity = Cardinality(Readers) /\ Readers \in SUBSET Task
          BY <3>1, <1>1 DEF CountInv, TypeOK, Readers
        <4>. QED BY <4>1, <3>1, CountReaders
      <3>3. wait_list # <<>> => flags[Head(wait_list)] = "W"
        BY <3>2, <1>1 DEF QueueJustified
      <3>. QED BY <3>1, <3>2, <3>3 DEF ReadWake, TypeOK
    <2>3. CASE pc[o] = "wr"
      BY <2>1, <2>3 DEF DoWake
    <2>. QED BY <2>2, <2>3, <1>2
  <1>11. WakeInv'
    BY <1>1, <1>2, <1>6, <1>8, <1>10 DEF WakeInv, LockInv, WakerPC
  <1>12. QueueJustified'
    BY <1>1, <1>2, <1>10, TaskAssumption DEF QueueJustified, Ctx
  <1>13. NoLostWakeup'
    BY <1>1, <1>4 DEF NoLostWakeup, WakerPC, GrantedWaiter
  <1>14. AbstractStep
    <2>1. Requests' = Requests
      BY <1>1, RequestsSame
    <2>2. Lock!ReleaseRead(o) \/ Lock!ReleaseWrite(o) \/ Lock!Downgrade(o)
      BY <2>1, <1>8 DEF Lock!ReleaseRead, Lock!ReleaseWrite, Lock!Downgrade
    <2>. QED BY <2>2 DEF AbstractStep, Lock!LockNext
  <1>. QED BY <1>3, <1>5, <1>6, <1>7, <1>9, <1>11, <1>12, <1>13, <1>14

\* A waker takes the first waiter off the list and clears its task pointer.
LEMMA GrantStep ==
    ASSUME IInv, NEW c \in Ctx, GrantWriter(c) \/ GrantReader(c)
    PROVE  IInv' /\ AbstractStep
  <1>. USE DEF IInv
  <1>0. pc[c] \in {"grantW", "grantR"} /\ wait_list # <<>> /\ Head(wait_list) \in Task
    BY DEF GrantWriter, GrantReader, WakeInv, TypeOK
  <1>a. PICK h \in Task : h = Head(wait_list)
    BY <1>0
  <1>b. PICK k \in {"R", "W"} : k = IF pc[c] = "grantW" THEN "W" ELSE "R"
    OBVIOUS
  <1>1. /\ wait_lock = c /\ wait_list # <<>> /\ flags[h] = k
        /\ tsk' = h /\ wait_list' = Tail(wait_list) /\ wtask' = [wtask EXCEPT ![h] = FALSE]
        /\ pc' = [pc EXCEPT ![c] = IF k = "W" THEN "wakeW" ELSE "wakeR"]
        /\ UNCHANGED <<wait_lock, flags, state, usage, ret>>
        /\ k = "W" => activity' = -1 /\ woken' = woken
        /\ k = "R" => activity' = activity /\ woken' = woken + 1
        /\ pc[c] = IF k = "W" THEN "grantW" ELSE "grantR"
    BY <1>0, <1>a, <1>b DEF GrantWriter, GrantReader, Grant, WakeInv, LockInv, WakerPC
  <1>2. /\ h \in Task /\ wait_list' \in Seq(Task)
        /\ \A i, j \in 1..Len(wait_list') : wait_list'[i] = wait_list'[j] => i = j
        /\ \A x : InList(x)' <=> (x # h /\ InList(x))
        /\ InList(h)
    <2>1. InList(h)
      BY <1>1, <1>a DEF InList, TypeOK
    <2>2. /\ wait_list \in Seq(Task)
          /\ \A i, j \in 1..Len(wait_list) : wait_list[i] = wait_list[j] => i = j
      BY DEF TypeOK, ListInv
    <2>3. /\ Tail(wait_list) \in Seq(Task)
          /\ \A i, j \in 1..Len(Tail(wait_list)) :
               Tail(wait_list)[i] = Tail(wait_list)[j] => i = j
          /\ \A x : (\E i \in 1..Len(Tail(wait_list)) : Tail(wait_list)[i] = x)
                      <=> (x # Head(wait_list) /\ \E i \in 1..Len(wait_list) : wait_list[i] = x)
      BY <1>0, <2>2, TailMembers
    <2>4. \A x : InList(x)' <=> (x # h /\ InList(x))
      BY <1>1, <1>a, <2>3 DEF InList
    <2>. QED BY <1>1, <2>1, <2>3, <2>4
  <1>3. /\ \A d \in Ctx : d # c => pc'[d] = pc[d] /\ pc[d] \notin WakerPC
        /\ pc'[c] \in {"wakeW", "wakeR"} /\ (pc'[c] = "wakeW" <=> k = "W")
        /\ k \in {"R", "W"}
        /\ \A u \in Task : u # h => wtask'[u] = wtask[u]
        /\ wtask'[h] = FALSE /\ wtask[h] /\ pc[h] \in {"chk", "sched"} /\ h # c /\ pc'[h] = pc[h]
        /\ tsk = None
    BY <1>1, <1>2, TaskAssumption DEF LockInv, ListInv, TypeOK, WakerPC, Ctx
  <1>4. /\ \A u \in Task : u # h => (GrantedWaiter(u)' <=> GrantedWaiter(u))
        /\ GrantedWaiter(h)' /\ ~GrantedWaiter(h)
    BY <1>1, <1>3 DEF GrantedWaiter, Ctx
  <1>5. TypeOK'
    <2>1. pc' \in [Ctx -> PC] /\ wtask' \in [Task -> BOOLEAN] /\ tsk' \in Task
      BY <1>1, <1>2 DEF TypeOK, PC, WakerPC
    <2>2. activity' \in Int /\ woken' \in Nat
      BY <1>1, <1>3 DEF TypeOK
    <2>. QED BY <2>1, <2>2, <1>1, <1>2 DEF TypeOK
  <1>6. ListInv'
    BY <1>1, <1>2, <1>3 DEF ListInv, Ctx, WakerPC
  <1>7. LockInv'
    <2>1. \A d \in Ctx : pc'[d] \in WakerPC <=> wait_lock' = d
      BY <1>1, <1>3 DEF WakerPC, LockInv
    <2>2. pc'[Irq] \in {"idle"} \cup WakerPC
      BY <1>3 DEF LockInv, WakerPC, Ctx
    <2>3. /\ wait_lock' # None
          /\ wait_lock' = Irq => ret' = "idle"
      BY <1>1, TaskAssumption DEF LockInv, Ctx
    <2>4. tsk' # None /\ GrantedWaiter(tsk)'
      BY <1>1, <1>2, <1>4, TaskAssumption DEF GrantedWaiter
    <2>. QED BY <2>1, <2>2, <2>3, <2>4, <1>3 DEF LockInv
  <1>8. UsageInv'
    <2>1. \A u \in Task : pc'[u] \in {"gone", "dead"} <=> pc[u] \in {"gone", "dead"}
      BY <1>1, <1>3 DEF Ctx
    <2>2. \A u \in Task : (InList(u)' \/ tsk' = u) <=> (InList(u) \/ tsk = u)
      BY <1>1, <1>2, <1>3, TaskAssumption
    <2>. QED BY <2>1, <2>2, <1>1 DEF UsageInv
  <1>9. /\ \A u \in Task : u # h => (u \in Readers' <=> u \in Readers)
        /\ \A u \in Task : u # h => (u \in Writers' <=> u \in Writers)
        /\ h \in Readers' <=> k = "R"
        /\ h \in Writers' <=> k = "W"
        /\ h \notin Readers /\ h \notin Writers
    <2>1. \A u \in Task : pc'[u] \in WakerPC <=> pc[u] \in WakerPC
      BY <1>1, <1>3 DEF WakerPC, Ctx
    <2>2. \A u \in Task : /\ pc'[u] \in {"rd", "gone"} <=> pc[u] \in {"rd", "gone"}
                          /\ pc'[u] = "wr" <=> pc[u] = "wr"
      BY <1>1, <1>3 DEF Ctx
    <2>3. pc[h] \notin WakerPC
      BY <1>3 DEF WakerPC
    <2>. QED BY <2>1, <2>2, <2>3, <1>1, <1>2, <1>3, <1>4 DEF Readers, Writers
  <1>10. /\ CountInv' /\ Writers = {}
         /\ k = "R" => Writers' = {} /\ woken' > 0 /\ Readers' = Readers \cup {h}
         /\ k = "W" => Writers' = {h} /\ Readers = {} /\ Readers' = {}
    <2>1. Readers \in SUBSET Task /\ Writers \in SUBSET Task
          /\ Readers' \in SUBSET Task /\ Writers' \in SUBSET Task
      BY DEF Readers, Writers
    <2>2. CASE k = "R"
      <3>1. Writers = {}
        BY <2>2, <1>1 DEF WakeInv
      <3>2. Writers' = {} /\ Readers' = Readers \cup {h}
        BY <2>1, <2>2, <3>1, <1>2, <1>9
      <3>3. Cardinality(Readers') = Cardinality(Readers) + 1
        BY <3>2, <2>1, <1>2, <1>9, CountReaders
      <3>4. activity >= 0 /\ activity + woken = Cardinality(Readers)
        BY <3>1 DEF CountInv
      <3>5. activity' >= 0 /\ activity' + woken' = Cardinality(Readers') /\ woken' > 0
        BY <2>2, <3>3, <3>4, <1>1 DEF TypeOK
      <3>. QED BY <3>1, <3>2, <3>5, <2>2 DEF CountInv
    <2>3. CASE k = "W"
      <3>1. Writers = {} /\ Readers = {} /\ woken = 0
        BY <2>3, <1>1 DEF WakeInv
      <3>2. Writers' = {h} /\ Readers' = {}
        BY <2>1, <2>3, <3>1, <1>2, <1>9
      <3>. QED BY <3>1, <3>2, <2>3, <1>1, <1>2 DEF CountInv
    <2>. QED BY <2>2, <2>3, <1>3
  <1>11. WakeInv'
    BY <1>3, <1>10 DEF WakeInv, WakerPC
  <1>12. QueueJustified'
    BY <1>1, TaskAssumption DEF QueueJustified, Ctx
  <1>13. NoLostWakeup'
    <2>1. ASSUME NEW u \in Task, GrantedWaiter(u)', pc'[u] = "sched", state'[u] = "UNINT"
          PROVE u = h
      <3>1. CASE u # h
        <4>1. pc[u] = "sched" /\ state[u] = "UNINT" /\ GrantedWaiter(u)
          BY <2>1, <3>1, <1>1, <1>3, <1>4 DEF Ctx
        <4>2. tsk = u
          BY <4>1 DEF NoLostWakeup
        <4>. QED BY <4>2, <1>3, TaskAssumption
      <3>. QED BY <3>1
    <2>. QED BY <2>1, <1>1, <1>3 DEF NoLostWakeup
  <1>14. AbstractStep
    <2>1. /\ Requests # <<>> /\ Requests' = Tail(Requests)
          /\ Head(Requests).task = h /\ Head(Requests).kind = k
      BY <1>0, <1>1, <1>a, RequestsTail
    <2>2. Lock!GrantRead \/ Lock!GrantWrite
      BY <2>1, <1>b, <1>10 DEF Lock!GrantRead, Lock!GrantWrite
    <2>. QED BY <2>2 DEF AbstractStep, Lock!LockNext
  <1>. QED BY <1>5, <1>6, <1>7, <1>8, <1>10, <1>11, <1>12, <1>13, <1>14

\* wake_up_process on the task that was granted the lock.
LEMMA WakeUpStep ==
    ASSUME IInv, NEW c \in Ctx, WakeUpProcess(c)
    PROVE  IInv' /\ AbstractStep
  <1>. USE DEF IInv
  <1>1. /\ wait_lock = c /\ tsk \in Task
        /\ pc[c] \in {"wakeW", "wakeR"}
        /\ pc'[c] = IF pc[c] = "wakeW" THEN "putW" ELSE "putR"
        /\ state'[tsk] = "RUNNING" /\ \A u \in Task : u # tsk => state'[u] = state[u]
        /\ \A d \in Ctx : d # c => pc'[d] = pc[d] /\ pc[d] \notin WakerPC
        /\ UNCHANGED <<activity, wait_list, wait_lock, flags, wtask, usage, tsk, woken, ret>>
    BY TaskAssumption DEF WakeUpProcess, LockInv, WakerPC, TypeOK
  <1>2. TypeOK'
    <2>1. pc' \in [Ctx -> PC] /\ state' \in [Task -> {"RUNNING", "UNINT"}]
      BY DEF WakeUpProcess, TypeOK, PC, WakerPC
    <2>. QED BY <2>1, <1>1 DEF TypeOK
  <1>3. /\ \A u : InList(u)' <=> InList(u)
        /\ \A u \in Task : GrantedWaiter(u)' <=> GrantedWaiter(u)
        /\ \A u \in Task : u # c => pc'[u] = pc[u]
        /\ Readers' = Readers /\ Writers' = Writers
    <2>1. /\ \A u : InList(u)' <=> InList(u)
          /\ \A u \in Task : u # c => pc'[u] = pc[u]
          /\ \A u \in Task : GrantedWaiter(u)' <=> GrantedWaiter(u)
      BY <1>1 DEF InList, GrantedWaiter, Ctx
    <2>2. pc[c] \in WakerPC /\ pc'[c] \in WakerPC
          /\ pc[c] \notin {"rd", "gone", "wr"} /\ pc'[c] \notin {"rd", "gone", "wr"}
      BY <1>1 DEF WakerPC
    <2>. QED BY <2>1, <2>2, <1>1 DEF Readers, Writers
  <1>4. ListInv'
    BY <1>1, <1>3 DEF ListInv, Ctx
  <1>5. LockInv'
    <2>1. \A d \in Ctx : pc'[d] \in WakerPC <=> wait_lock' = d
      BY <1>1 DEF WakerPC, LockInv
    <2>2. pc'[Irq] \in {"idle"} \cup WakerPC
      BY <1>1 DEF LockInv, WakerPC, Ctx
    <2>3. wait_lock' # None /\ (wait_lock' = Irq => ret' = "idle") /\ tsk' # None
      BY <1>1, TaskAssumption DEF LockInv, Ctx
    <2>4. GrantedWaiter(tsk)' \/ pc'[tsk'] \in {"rd", "wr", "gone"}
      <3>1. GrantedWaiter(tsk) \/ pc[tsk] \in {"rd", "wr", "gone"}
        BY <1>1, TaskAssumption DEF LockInv
      <3>2. tsk # c
        BY <3>1, <1>1 DEF GrantedWaiter
      <3>. QED BY <3>1, <3>2, <1>1 DEF GrantedWaiter, Ctx
    <2>. QED BY <2>1, <2>2, <2>3, <2>4, <1>1 DEF LockInv
  <1>6. UsageInv'
    <2>1. \A u \in Task : pc'[u] \in {"gone", "dead"} <=> pc[u] \in {"gone", "dead"}
      BY <1>1, <1>3
    <2>. QED BY <2>1, <1>1, <1>3 DEF UsageInv
  <1>7. CountInv'
    BY <1>1, <1>3 DEF CountInv
  <1>8. WakeInv'
    BY <1>1, <1>3 DEF WakeInv, WakerPC
  <1>9. QueueJustified'
    BY <1>1, TaskAssumption DEF QueueJustified, Ctx
  <1>10. NoLostWakeup'
    <2>1. \A u \in Task : ~(GrantedWaiter(u)' /\ pc'[u] = "sched" /\ state'[u] = "UNINT")
      BY <1>1, <1>3 DEF NoLostWakeup
    <2>. QED BY <2>1 DEF NoLostWakeup
  <1>11. AbstractStep
    BY <1>1, <1>3, RequestsSame DEF AbstractStep
  <1>. QED BY <1>2, <1>4, <1>5, <1>6, <1>7, <1>8, <1>9, <1>10, <1>11

\* put_task_struct, then the next reader or the end of the release.
LEMMA PutStep ==
    ASSUME IInv, NEW c \in Ctx, PutTask(c)
    PROVE  IInv' /\ AbstractStep
  <1>. USE DEF IInv
  <1>0. tsk \in Task /\ pc[c] \in {"putW", "putR"}
    BY DEF PutTask, LockInv, TypeOK
  <1>a. PICK h \in Task : h = tsk
    BY <1>0
  <1>b. PICK more \in BOOLEAN :
          more = (pc[c] = "putR" /\ wait_list # <<>> /\ flags[Head(wait_list)] = "R")
    OBVIOUS
  <1>1. /\ wait_lock = c /\ tsk' = None
        /\ usage' = [usage EXCEPT ![h] = @ - 1]
        /\ \A d \in Ctx : d # c => pc'[d] = pc[d] /\ pc[d] \notin WakerPC
        /\ UNCHANGED <<wait_list, flags, wtask, state>>
        /\ more => /\ pc'[c] = "grantR"
                   /\ UNCHANGED <<activity, woken, wait_lock, ret>>
        /\ ~more => /\ pc'[c] = ret /\ activity' = activity + woken
                    /\ woken' = 0 /\ wait_lock' = None /\ ret' = "idle"
        /\ ret \in {"idle", "rd"} /\ c # h
    <2>1. GrantedWaiter(h) \/ pc[h] \in {"rd", "wr", "gone"}
      BY <1>a, TaskAssumption DEF LockInv
    <2>2. c # h
      BY <2>1, <1>0 DEF GrantedWaiter
    <2>. QED BY <2>2, <1>0, <1>a, <1>b, TaskAssumption
             DEF PutTask, Unlock, LockInv, WakerPC, TypeOK
  <1>2. /\ \A u : InList(u)' <=> InList(u)
        /\ \A u \in Task : u # c => pc'[u] = pc[u]
        /\ \A u \in Task : GrantedWaiter(u)' <=> GrantedWaiter(u)
        /\ ~InList(h)
    <2>1. GrantedWaiter(h) \/ pc[h] \in {"rd", "wr", "gone"}
      BY <1>a, TaskAssumption DEF LockInv
    <2>2. ~InList(h)
      BY <2>1 DEF ListInv, GrantedWaiter
    <2>. QED BY <2>2, <1>0, <1>1 DEF InList, GrantedWaiter, Ctx
  <1>3. usage[h] > 0 /\ usage[h] \in Nat
    <2>1. usage[h] = (IF pc[h] \in {"gone", "dead"} THEN 0 ELSE 1) + 1
      BY <1>a DEF UsageInv
    <2>. QED BY <2>1
  <1>4. TypeOK'
    <2>1. usage' \in [Task -> Nat]
      BY <1>1, <1>3 DEF TypeOK
    <2>2. pc' \in [Ctx -> PC]
      BY <1>0, <1>b DEF PutTask, Unlock, TypeOK, PC, WakerPC
    <2>3. /\ activity' \in Int /\ woken' \in Nat /\ wait_lock' \in Ctx \cup {None}
          /\ ret' \in {"idle", "rd"} /\ tsk' \in Task \cup {None}
      BY <1>1 DEF TypeOK
    <2>. QED BY <2>1, <2>2, <2>3, <1>1 DEF TypeOK
  <1>5. ListInv'
    BY <1>0, <1>1, <1>2 DEF ListInv, Ctx
  <1>6. LockInv'
    <2>1. \A d \in Ctx : pc'[d] \in WakerPC <=> wait_lock' = d
      BY <1>1, TaskAssumption DEF WakerPC, LockInv, Ctx
    <2>2. pc'[Irq] \in {"idle"} \cup WakerPC
      BY <1>1 DEF LockInv, WakerPC, Ctx
    <2>3. /\ wait_lock' = None => woken' = 0 /\ ret' = "idle"
          /\ wait_lock' = Irq => ret' = "idle"
      BY <1>1, TaskAssumption DEF LockInv, Ctx
    <2>4. /\ tsk' = None
          /\ ~ \E d \in Ctx : pc'[d] \in {"wakeW", "wakeR", "putW", "putR"}
      BY <1>1 DEF WakerPC
    <2>. QED BY <2>1, <2>2, <2>3, <2>4 DEF LockInv
  <1>7. UsageInv'
    <2>1. ASSUME NEW u \in Task
          PROVE usage'[u] = (IF pc'[u] \in {"gone", "dead"} THEN 0 ELSE 1)
                            + (IF InList(u)' \/ tsk' = u THEN 1 ELSE 0)
      <3>1. usage[u] = (IF pc[u] \in {"gone", "dead"} THEN 0 ELSE 1)
                       + (IF InList(u) \/ tsk = u THEN 1 ELSE 0)
        BY DEF UsageInv
      <3>2. pc'[u] \in {"gone", "dead"} <=> pc[u] \in {"gone", "dead"}
        BY <1>0, <1>1, <1>2
      <3>3. CASE u = h
        <4>1. usage'[u] = usage[u] - 1 /\ usage[u] = (IF pc[u] \in {"gone", "dead"} THEN 0 ELSE 1) + 1
          BY <3>1, <3>3, <1>a, <1>1 DEF TypeOK
        <4>. QED BY <3>2, <3>3, <4>1, <1>1, <1>2, TaskAssumption
      <3>4. CASE u # h
        <4>1. usage'[u] = usage[u]
          BY <3>4, <1>1 DEF TypeOK
        <4>. QED BY <3>1, <3>2, <3>4, <4>1, <1>1, <1>2, <1>a, TaskAssumption
      <3>. QED BY <3>3, <3>4
    <2>. QED BY <2>1 DEF UsageInv
  <1>8. Readers' = Readers /\ Writers' = Writers
    <2>1. pc[c] \in WakerPC /\ pc[c] \notin {"rd", "gone", "wr"} /\ pc'[c] \notin {"gone", "wr"}
      BY <1>0, <1>1 DEF WakerPC
    <2>2. (pc'[c] = "rd" \/ (pc'[c] \in WakerPC /\ ret' = "rd")) <=> ret = "rd"
      BY <1>1 DEF WakerPC
    <2>3. \A u \in Task : u # c => pc[u] \notin WakerPC /\ pc'[u] \notin WakerPC
      BY <1>1, <1>2 DEF Ctx
    <2>. QED BY <2>1, <2>2, <2>3, <1>1, <1>2 DEF Readers, Writers
  <1>9. CountInv'
    <2>1. CASE more
      BY <2>1, <1>1, <1>8 DEF CountInv
    <2>2. CASE ~more
      <3>1. activity' + woken' = activity + woken /\ woken' = 0 /\ activity' = activity + woken
        BY <2>2, <1>1 DEF TypeOK
      <3>. QED BY <3>1, <1>8 DEF CountInv, TypeOK
    <2>. QED BY <2>1, <2>2
  <1>10. WakeInv'
    <2>1. more => Writers = {} /\ wait_list # <<>> /\ flags[Head(wait_list)] = "R"
      BY <1>b DEF WakeInv
    <2>. QED BY <2>1, <1>1, <1>8 DEF WakeInv, WakerPC
  <1>11. QueueJustified'
    <2>. SUFFICES ASSUME ~more, wait_list # <<>>
                  PROVE  activity' # 0 /\ (activity' > 0 => flags[Head(wait_list)] = "W")
      BY <1>1, TaskAssumption DEF QueueJustified, Ctx
    <2>1. flags[Head(wait_list)] \in {"R", "W"}
      BY DEF TypeOK
    <2>2. CASE pc[c] = "putR"
      <3>1. flags[Head(wait_list)] = "W" /\ woken > 0 /\ activity >= 0
        BY <2>1, <2>2, <1>b DEF WakeInv, CountInv
      <3>. QED BY <3>1, <1>1 DEF TypeOK
    <2>3. CASE pc[c] = "putW"
      <3>1. activity = -1 /\ woken = 0
        BY <2>3 DEF WakeInv, CountInv
      <3>. QED BY <3>1, <1>1
    <2>. QED BY <2>2, <2>3, <1>0
  <1>12. NoLostWakeup'
    <2>1. \A d \in Ctx : pc[d] \notin {"wakeW", "wakeR"}
      BY <1>0, <1>1 DEF WakerPC
    <2>2. \A u \in Task : pc'[u] = "sched" => pc[u] = "sched"
      BY <1>1, <1>2
    <2>. QED BY <2>1, <2>2, <1>1, <1>2 DEF NoLostWakeup
  <1>13. AbstractStep
    BY <1>1, <1>8, RequestsSame DEF AbstractStep
  <1>. QED BY <1>4, <1>5, <1>6, <1>7, <1>9, <1>10, <1>11, <1>12, <1>13

\* The exit of a reader that leaves its lock to Irq, and a new task.
LEMMA ExitForkStep ==
    ASSUME IInv, NEW t \in Task, Exit(t) \/ Fork(t)
    PROVE  IInv' /\ AbstractStep
  <1>. USE DEF IInv
  <1>1. /\ t \in Ctx /\ t # Irq
        /\ \A d \in Ctx : d # t => pc'[d] = pc[d]
        /\ \A u \in Task : u # t => usage'[u] = usage[u]
        /\ UNCHANGED <<activity, wait_list, wait_lock, flags, wtask, state, tsk, woken, ret>>
    BY TaskAssumption DEF Exit, Fork, TypeOK, Ctx
  <1>2. \/ pc[t] = "rd" /\ pc'[t] = "gone" /\ usage'[t] = usage[t] - 1
        \/ pc[t] = "dead" /\ pc'[t] = "idle" /\ usage'[t] = 1 /\ usage[t] = 0
    BY <1>1 DEF Exit, Fork, TypeOK
  <1>3. /\ \A u : InList(u)' <=> InList(u)
        /\ \A u \in Task : GrantedWaiter(u)' <=> GrantedWaiter(u)
        /\ pc[t] \notin WakerPC /\ pc'[t] \notin WakerPC
    BY <1>1, <1>2 DEF InList, GrantedWaiter, WakerPC, Ctx
  <1>4. Readers' = Readers /\ Writers' = Writers
    BY <1>1, <1>2, <1>3 DEF Readers, Writers, Ctx
  <1>5. UsageInv'
    <2>1. usage[t] = (IF pc[t] \in {"gone", "dead"} THEN 0 ELSE 1)
                     + (IF InList(t) \/ tsk = t THEN 1 ELSE 0)
      BY DEF UsageInv
    <2>2. usage'[t] = (IF pc'[t] \in {"gone", "dead"} THEN 0 ELSE 1)
                      + (IF InList(t)' \/ tsk' = t THEN 1 ELSE 0)
      BY <2>1, <1>1, <1>2, <1>3
    <2>. QED BY <2>2, <1>1, <1>3 DEF UsageInv, Ctx
  <1>6. TypeOK'
    <2>1. usage'[t] \in Nat
      BY <1>2, <1>5 DEF UsageInv
    <2>2. usage' \in [Task -> Nat] /\ pc' \in [Ctx -> PC]
      BY <2>1 DEF Exit, Fork, TypeOK, PC
    <2>. QED BY <2>2, <1>1 DEF TypeOK
  <1>7. ListInv'
    BY <1>1, <1>2, <1>3 DEF ListInv, Ctx
  <1>8. LockInv'
    <2>1. \A d \in Ctx : pc'[d] \in WakerPC <=> wait_lock' = d
      BY <1>1, <1>3 DEF LockInv
    <2>2. pc'[Irq] = pc[Irq]
      BY <1>1 DEF Ctx
    <2>3. (\E d \in Ctx : pc'[d] \in {"wakeW", "wakeR", "putW", "putR"})
             <=> (\E d \in Ctx : pc[d] \in {"wakeW", "wakeR", "putW", "putR"})
      BY <1>1, <1>2
    <2>4. tsk' # None => GrantedWaiter(tsk)' \/ pc'[tsk'] \in {"rd", "wr", "gone"}
      BY <1>1, <1>2 DEF LockInv, TypeOK, GrantedWaiter, Ctx
    <2>. QED BY <2>1, <2>2, <2>3, <2>4, <1>1 DEF LockInv
  <1>9. CountInv'
    BY <1>1, <1>4 DEF CountInv
  <1>10. WakeInv'
    BY <1>1, <1>3, <1>4 DEF WakeInv, WakerPC
  <1>11. QueueJustified'
    BY <1>1 DEF QueueJustified
  <1>12. NoLostWakeup'
    BY <1>1, <1>2, <1>3 DEF NoLostWakeup, Ctx
  <1>13. AbstractStep
    BY <1>1, <1>4, RequestsSame DEF AbstractStep
  <1>. QED BY <1>5, <1>6, <1>7, <1>8, <1>9, <1>10, <1>11, <1>12, <1>13

\* A failed trylock, and any step of the rest of the system.
LEMMA StutterStep ==
    ASSUME IInv, UNCHANGED vars
    PROVE  IInv' /\ AbstractStep
  <1>. USE DEF vars
  <1>1. /\ \A u : InList(u)' <=> InList(u)
        /\ \A u \in Task : GrantedWaiter(u)' <=> GrantedWaiter(u)
    BY DEF InList, GrantedWaiter
  <1>2. Readers' = Readers /\ Writers' = Writers
    BY <1>1 DEF Readers, Writers
  <1>3. TypeOK'
    BY DEF IInv, TypeOK
  <1>4. ListInv'
    BY <1>1 DEF IInv, ListInv
  <1>5. LockInv'
    BY <1>1 DEF IInv, LockInv, GrantedWaiter
  <1>6. UsageInv'
    BY <1>1 DEF IInv, UsageInv
  <1>7. CountInv' /\ QueueJustified'
    BY <1>2 DEF IInv, CountInv, QueueJustified
  <1>8. WakeInv'
    BY <1>2 DEF IInv, WakeInv
  <1>9. NoLostWakeup'
    BY <1>1 DEF IInv, NoLostWakeup
  <1>10. AbstractStep
    BY <1>2, RequestsSame DEF IInv, AbstractStep
  <1>. QED BY <1>3, <1>4, <1>5, <1>6, <1>7, <1>8, <1>9, <1>10 DEF IInv

-------------------------------------------------------------------------------
(* The theorems *)

\* Every step of the semaphore preserves the inductive invariant, and the
\* callers see it as a step of the abstract lock or not at all.
LEMMA NextInv == IInv /\ [Next]_vars => IInv' /\ AbstractStep
  <1>. SUFFICES ASSUME IInv, [Next]_vars PROVE IInv' /\ AbstractStep
    OBVIOUS
  <1>1. ASSUME NEW t \in Task, Acquire(t) PROVE IInv' /\ AbstractStep
    <2>1. CASE UNCHANGED vars
      BY <2>1, StutterStep
    <2>2. CASE pc[t] = "idle" /\ wait_lock = None /\ CanRead /\ Granted(t, activity + 1, "rd")
      BY <2>2, GrantedStep
    <2>3. CASE pc[t] = "idle" /\ wait_lock = None /\ CanWrite /\ Granted(t, -1, "wr")
      BY <2>3, GrantedStep
    <2>4. CASE pc[t] = "idle" /\ wait_lock = None /\ ~CanRead /\ Queue(t, "R")
      BY <2>4, QueueStep
    <2>5. CASE pc[t] = "idle" /\ wait_lock = None /\ ~CanWrite /\ Queue(t, "W")
      BY <2>5, QueueStep
    <2>. QED BY <1>1, <2>1, <2>2, <2>3, <2>4, <2>5
             DEF Acquire, DownRead, DownWrite, DownReadTrylock, DownWriteTrylock
  <1>2. ASSUME NEW t \in Task, Waiting(t) \/ SpuriousWake(t) PROVE IInv' /\ AbstractStep
    BY <1>2, WaitStep DEF Waiting
  <1>3. ASSUME NEW t \in Task, UpRead(t) PROVE IInv' /\ AbstractStep
    <2>1. ReadWake(activity - 1) \in {"none", "grantW", "grantR"} /\ activity - 1 \in Int /\ t \in Ctx
      BY DEF ReadWake, IInv, TypeOK, Ctx
    <2>. QED BY <1>3, <2>1, ReleaseStep DEF UpRead
  <1>4. ASSUME NEW t \in Task, UpReadNonOwner(t) PROVE IInv' /\ AbstractStep
    <2>1. ReadWake(activity - 1) \in {"none", "grantW", "grantR"} /\ activity - 1 \in Int /\ Irq \in Ctx
      BY DEF ReadWake, IInv, TypeOK, Ctx
    <2>. QED BY <1>4, <2>1, ReleaseStep DEF UpReadNonOwner
  <1>5. ASSUME NEW t \in Task, UpWrite(t) PROVE IInv' /\ AbstractStep
    <2>1. DoWake(1) \in {"none", "grantW", "grantR"} /\ t \in Ctx
      BY DEF DoWake, Ctx
    <2>. QED BY <1>5, <2>1, ReleaseStep DEF UpWrite
  <1>6. ASSUME NEW t \in Task, DowngradeWrite(t) PROVE IInv' /\ AbstractStep
    <2>1. DoWake(0) \in {"none", "grantW", "grantR"} /\ t \in Ctx
      BY DEF DoWake, Ctx
    <2>. QED BY <1>6, <2>1, ReleaseStep DEF DowngradeWrite
  <1>7. ASSUME NEW t \in Task, Exit(t) \/ Fork(t) PROVE IInv' /\ AbstractStep
    BY <1>7, ExitForkStep
  <1>8. ASSUME NEW c \in Ctx, Wake(c) PROVE IInv' /\ AbstractStep
    BY <1>8, GrantStep, WakeUpStep, PutStep DEF Wake
  <1>9. CASE UNCHANGED vars
    BY <1>9, StutterStep
  <1>. QED BY <1>1, <1>2, <1>3, <1>4, <1>5, <1>6, <1>7, <1>8, <1>9 DEF Next

\* The inductive invariant holds in every reachable state.
THEOREM Invariance == Safety => []IInv
  BY InitInv, NextInv, PTL DEF Safety

\* The semaphore with its counter, spinlock, waiters and wakeups implements the
\* first-come first-served lock: readers share, a writer is alone, nobody
\* overtakes the queue and the oldest request is granted first.
THEOREM Refinement == Safety => Lock!LockSafety
  <1>1. Init => Lock!LockInit
    <2>. SUFFICES ASSUME Init PROVE Lock!LockInit
      OBVIOUS
    <2>1. Readers = {} /\ Writers = {}
      BY DEF Init, Readers, Writers, GrantedWaiter, Ctx, WakerPC
    <2>2. Requests = <<>>
      BY DEF Init, Requests
    <2>. QED BY <2>1, <2>2 DEF Lock!LockInit
  <1>2. IInv /\ [Next]_vars => [Lock!LockNext]_(Lock!lockVars)
    BY NextInv DEF AbstractStep, Lock!lockVars
  <1>. QED BY <1>1, <1>2, Invariance, PTL DEF Safety, Lock!LockSafety

\* The fields and locals of rwsem-spinlock.c keep their types.
THEOREM TypeCorrect == Safety => []TypeOK
  <1>1. IInv => TypeOK
    BY DEF IInv
  <1>. QED BY <1>1, Invariance, PTL

\* A writer is never together with another writer or with a reader.
THEOREM ExclusionHolds == Safety => []Exclusion
  <1>1. IInv => Exclusion
    BY DEF IInv, CountInv, Exclusion
  <1>. QED BY <1>1, Invariance, PTL

\* activity is what the comment of struct rw_semaphore says.
THEOREM ActivityExactHolds == Safety => []ActivityExact
  <1>1. IInv => ActivityExact
    <2>. SUFFICES ASSUME IInv, wait_lock = None
                  PROVE  activity = IF Writers # {} THEN -1 ELSE Cardinality(Readers)
      BY DEF ActivityExact
    <2>1. woken = 0 /\ activity \in Int
      BY DEF IInv, LockInv, TypeOK
    <2>2. CASE Writers = {}
      BY <2>1, <2>2 DEF IInv, CountInv
    <2>3. CASE Writers # {}
      BY <2>3 DEF IInv, CountInv
    <2>. QED BY <2>2, <2>3
  <1>. QED BY <1>1, Invariance, PTL

\* Nobody waits for a lock that could be granted, and __up_read only meets a
\* writer at the head of the list.
THEOREM QueueJustifiedHolds == Safety => []QueueJustified
  <1>1. IInv => QueueJustified
    BY DEF IInv
  <1>. QED BY <1>1, Invariance, PTL

\* A granted waiter that sleeps is about to be woken.
THEOREM NoLostWakeupHolds == Safety => []NoLostWakeup
  <1>1. IInv => NoLostWakeup
    BY DEF IInv
  <1>. QED BY <1>1, Invariance, PTL

\* The task_struct that is woken and put has not been freed.
THEOREM TaskStructAliveHolds == Safety => []TaskStructAlive
  <1>1. IInv => TaskStructAlive
    <2>. SUFFICES ASSUME IInv, NEW c \in Ctx, pc[c] \in {"wakeW", "wakeR", "putW", "putR"}
                  PROVE  usage[tsk] > 0
      BY DEF TaskStructAlive
    <2>1. tsk \in Task
      BY DEF IInv, LockInv, TypeOK
    <2>. QED BY <2>1 DEF IInv, UsageInv
  <1>. QED BY <1>1, Invariance, PTL
===============================================================================
