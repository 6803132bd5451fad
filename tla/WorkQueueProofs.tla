---------------------------- MODULE WorkQueueProofs ----------------------------
(***************************************************************************)
(* TLAPS proofs about WorkQueue, for any number of CPUs, works and tasks,  *)
(* when work functions do not flush their own workqueue.                   *)
(***************************************************************************)
EXTENDS WorkQueue, FiniteSetTheorems, SequenceTheorems, TLAPS

-------------------------------------------------------------------------------
(* Lists: what is on them, once and in which order                          *)

\* From s to r a list gets x at its tail or at its head, loses its head x, or
\* loses x wherever it is.
Appended(s, r, x) == r = Append(s, x)
Prepended(s, r, x) == r = <<x>> \o s
Beheaded(s, r, x) == s # <<>> /\ x = Head(s) /\ r = Tail(s)
Unlinked(s, r, x) == r = ListDel(s, x)

\* One more entry at the tail.
LEMMA AppendList ==
    ASSUME NEW S, NEW s \in Seq(S), NEW x \in S, NEW r, Appended(s, r, x)
    PROVE  /\ r \in Seq(S) /\ r # <<>>
           /\ \A y : OnList(r, y) <=> OnList(s, y) \/ y = x
           /\ \A y, z : Before(s, y, z) => Before(r, y, z)
           /\ \A y : OnList(s, y) => Before(r, y, x)
           /\ Distinct(s) /\ ~OnList(s, x) => Distinct(r)
  <1>1. PICK n \in Nat : n = Len(s)
    OBVIOUS
  <1>2. /\ r \in Seq(S) /\ Len(r) = n + 1 /\ r[n + 1] = x
        /\ \A i \in 1..n : r[i] = s[i]
    BY <1>1 DEF Appended
  <1>3. r # <<>>
    BY <1>1, <1>2
  <1>4. ASSUME NEW i \in 1..n PROVE i \in 1..(n + 1) /\ i < n + 1 /\ r[i] = s[i]
    BY <1>2
  <1>5. n + 1 \in 1..(n + 1) /\ \A i \in 1..(n + 1) : i # n + 1 => i \in 1..n
    OBVIOUS
  <1>6. \A y : OnList(r, y) <=> OnList(s, y) \/ y = x
    BY <1>1, <1>2, <1>4, <1>5 DEF OnList
  <1>7. \A y, z : Before(s, y, z) => Before(r, y, z)
    BY <1>1, <1>2, <1>4 DEF Before
  <1>8. \A y : OnList(s, y) => Before(r, y, x)
    BY <1>1, <1>2, <1>4, <1>5 DEF Before, OnList
  <1>9. ASSUME Distinct(s), ~OnList(s, x) PROVE Distinct(r)
    <2>. SUFFICES ASSUME NEW i \in 1..(n + 1), NEW j \in 1..(n + 1), r[i] = r[j] PROVE i = j
      BY <1>2 DEF Distinct
    <2>1. CASE i = n + 1 \/ j = n + 1
      BY <2>1, <1>9, <1>1, <1>2, <1>5 DEF OnList
    <2>2. CASE i # n + 1 /\ j # n + 1
      BY <2>2, <1>9, <1>1, <1>2, <1>5 DEF Distinct
    <2>. QED BY <2>1, <2>2
  <1>. QED BY <1>2, <1>3, <1>6, <1>7, <1>8, <1>9

\* One more entry at the head.
LEMMA PrependList ==
    ASSUME NEW S, NEW s \in Seq(S), NEW x \in S, NEW r, Prepended(s, r, x)
    PROVE  /\ r \in Seq(S)
           /\ \A y : OnList(r, y) <=> OnList(s, y) \/ y = x
           /\ \A y, z : Before(s, y, z) => Before(r, y, z)
           /\ Distinct(s) /\ ~OnList(s, x) => Distinct(r)
  <1>1. PICK n \in Nat : n = Len(s)
    OBVIOUS
  <1>2. /\ r \in Seq(S) /\ Len(r) = n + 1 /\ r[1] = x
        /\ \A i \in 1..n : r[i + 1] = s[i]
    <2>1. <<x>> \in Seq(S) /\ Len(<<x>>) = 1 /\ <<x>>[1] = x
      OBVIOUS
    <2>2. /\ r \in Seq(S) /\ Len(r) = 1 + n
          /\ \A i \in 1 .. 1 + n : r[i] = IF i <= 1 THEN x ELSE s[i - 1]
      BY <2>1, <1>1, ConcatProperties DEF Prepended
    <2>3. 1 \in 1 .. 1 + n /\ \A k \in 1..n : k + 1 \in 1 .. 1 + n /\ ~(k + 1 <= 1) /\ (k + 1) - 1 = k
      OBVIOUS
    <2>. QED BY <1>1, <2>2, <2>3
  <1>3. ASSUME NEW i \in 1..n PROVE i + 1 \in 1..(n + 1) /\ r[i + 1] = s[i]
    BY <1>2
  <1>4. 1 \in 1..(n + 1)
    OBVIOUS
  <1>5. ASSUME NEW i \in 1..(n + 1), i # 1
        PROVE  i - 1 \in 1..n /\ r[i] = s[i - 1]
    <2>1. i - 1 \in 1..n /\ (i - 1) + 1 = i
      BY <1>5
    <2>. QED BY <2>1, <1>2
  <1>6. \A y : OnList(r, y) <=> OnList(s, y) \/ y = x
    <2>1. ASSUME NEW y, OnList(r, y) PROVE OnList(s, y) \/ y = x
      BY <2>1, <1>1, <1>2, <1>5 DEF OnList
    <2>2. ASSUME NEW y, OnList(s, y) PROVE OnList(r, y)
      BY <2>2, <1>1, <1>2, <1>3 DEF OnList
    <2>3. OnList(r, x)
      BY <1>2, <1>4 DEF OnList
    <2>. QED BY <2>1, <2>2, <2>3
  <1>7. ASSUME NEW y, NEW z, Before(s, y, z) PROVE Before(r, y, z)
    <2>1. PICK i \in 1..n, j \in 1..n : i < j /\ s[i] = y /\ s[j] = z
      BY <1>7, <1>1 DEF Before
    <2>2. i + 1 < j + 1
      BY <2>1
    <2>. QED BY <2>1, <2>2, <1>2, <1>3 DEF Before
  <1>8. ASSUME Distinct(s), ~OnList(s, x) PROVE Distinct(r)
    <2>. SUFFICES ASSUME NEW i \in 1..(n + 1), NEW j \in 1..(n + 1), r[i] = r[j] PROVE i = j
      BY <1>2 DEF Distinct
    <2>1. CASE i = 1 \/ j = 1
      BY <2>1, <1>8, <1>1, <1>2, <1>5 DEF OnList
    <2>2. CASE i # 1 /\ j # 1
      <3>1. i - 1 = j - 1
        BY <2>2, <1>8, <1>1, <1>5 DEF Distinct
      <3>. QED BY <3>1
    <2>. QED BY <2>1, <2>2
  <1>. QED BY <1>2, <1>6, <1>7, <1>8

\* The first entry leaves.
LEMMA BeheadList ==
    ASSUME NEW S, NEW s \in Seq(S), Distinct(s), NEW r, NEW x, Beheaded(s, r, x)
    PROVE  /\ r \in Seq(S) /\ x \in S /\ OnList(s, x)
           /\ \A y : OnList(r, y) <=> OnList(s, y) /\ y # x
           /\ \A y, z : Before(s, y, z) /\ y # x => Before(r, y, z)
           /\ \A y, z : Before(s, y, z) => OnList(r, z)
           /\ Distinct(r)
  <1>0. s # <<>> /\ x = Head(s) /\ r = Tail(s)
    BY DEF Beheaded
  <1>1. PICK n \in Nat : n = Len(s) /\ n # 0
    BY <1>0
  <1>2. /\ r \in Seq(S) /\ Len(r) = n - 1 /\ x = s[1] /\ x \in S
        /\ \A i \in 1..(n - 1) : r[i] = s[i + 1]
    BY <1>0, <1>1
  <1>3. 1 \in 1..n /\ \A i \in 1..n : i # 1 => i > 1
    BY <1>1
  <1>4. ASSUME NEW i \in 1..(n - 1) PROVE i + 1 \in 1..n /\ i + 1 # 1 /\ r[i] = s[i + 1]
    BY <1>1, <1>2
  <1>5. ASSUME NEW i \in 1..n, i # 1 PROVE i - 1 \in 1..(n - 1) /\ r[i - 1] = s[i]
    <2>1. i - 1 \in 1..(n - 1) /\ (i - 1) + 1 = i
      BY <1>5
    <2>. QED BY <2>1, <1>2
  <1>6. OnList(s, x)
    BY <1>1, <1>2, <1>3 DEF OnList
  <1>7. \A y : OnList(r, y) <=> OnList(s, y) /\ y # x
    <2>1. ASSUME NEW y, OnList(r, y) PROVE OnList(s, y) /\ y # x
      <3>1. PICK i \in 1..(n - 1) : r[i] = y
        BY <2>1, <1>2 DEF OnList
      <3>2. i + 1 \in 1..n /\ i + 1 # 1 /\ s[i + 1] = y
        BY <3>1, <1>4
      <3>3. y # x
        BY <3>2, <1>1, <1>2, <1>3 DEF Distinct
      <3>. QED BY <3>2, <3>3, <1>1 DEF OnList
    <2>2. ASSUME NEW y, OnList(s, y), y # x PROVE OnList(r, y)
      BY <2>2, <1>1, <1>2, <1>5 DEF OnList
    <2>. QED BY <2>1, <2>2
  <1>8. ASSUME NEW y, NEW z, Before(s, y, z)
        PROVE  OnList(r, z) /\ (y # x => Before(r, y, z))
    <2>1. PICK i \in 1..n, j \in 1..n : i < j /\ s[i] = y /\ s[j] = z
      BY <1>8, <1>1 DEF Before
    <2>2. j # 1 /\ i - 1 < j - 1
      BY <2>1
    <2>3. j - 1 \in 1..(n - 1) /\ r[j - 1] = z
      BY <2>1, <2>2, <1>5
    <2>4. y # x => i - 1 \in 1..(n - 1) /\ r[i - 1] = y
      BY <2>1, <1>2, <1>5
    <2>. QED BY <2>2, <2>3, <2>4, <1>2 DEF OnList, Before
  <1>9. Distinct(r)
    <2>. SUFFICES ASSUME NEW i \in 1..(n - 1), NEW j \in 1..(n - 1), r[i] = r[j] PROVE i = j
      BY <1>2 DEF Distinct
    <2>1. i + 1 = j + 1
      BY <1>1, <1>4 DEF Distinct
    <2>. QED BY <2>1
  <1>. QED BY <1>2, <1>6, <1>7, <1>8, <1>9

\* An entry is unlinked, if it is on the list.
LEMMA ListDelList ==
    ASSUME NEW S, NEW s \in Seq(S), Distinct(s), NEW x, NEW r, Unlinked(s, r, x)
    PROVE  /\ r \in Seq(S)
           /\ \A y : OnList(r, y) <=> OnList(s, y) /\ y # x
           /\ \A y, z : Before(s, y, z) /\ y # x /\ z # x => Before(r, y, z)
           /\ Distinct(r)
  <1>1. CASE ~OnList(s, x)
    BY <1>1 DEF ListDel, Unlinked
  <1>2. CASE OnList(s, x)
    <2>. DEFINE k == CHOOSE i \in 1..Len(s) : s[i] = x
    <2>1. PICK n \in Nat : n = Len(s)
      OBVIOUS
    <2>2. k \in 1..n /\ s[k] = x
      BY <1>2, <2>1 DEF OnList
    <2>3. r = [j \in 1..(n - 1) |-> IF j < k THEN s[j] ELSE s[j + 1]]
      BY <1>2, <2>1 DEF ListDel, Unlinked
    <2>. HIDE DEF k
    <2>4. n - 1 \in Nat
      BY <2>1, <2>2
    <2>5. \A j \in 1..(n - 1) : r[j] = (IF j < k THEN s[j] ELSE s[j + 1]) /\ r[j] \in S
      BY <2>1, <2>2, <2>3
    <2>6. r \in Seq(S) /\ Len(r) = n - 1
      BY <2>3, <2>4, <2>5
    <2>7. ASSUME NEW j \in 1..(n - 1)
          PROVE  \E i \in 1..n : r[j] = s[i] /\ i # k /\ i = IF j < k THEN j ELSE j + 1
      BY <2>2, <2>5
    <2>8. ASSUME NEW i \in 1..n, i # k
          PROVE  \E j \in 1..(n - 1) : r[j] = s[i] /\ j = IF i < k THEN i ELSE i - 1
      <3>1. CASE i < k
        BY <3>1, <2>2, <2>5
      <3>2. CASE i > k
        <4>1. i - 1 \in 1..(n - 1) /\ ~(i - 1 < k) /\ (i - 1) + 1 = i
          BY <3>2, <2>2
        <4>2. r[i - 1] = s[i]
          BY <4>1, <2>5
        <4>. QED BY <3>2, <4>1, <4>2, <2>2
      <3>. QED BY <2>8, <3>1, <3>2, <2>2
    <2>9. \A y : OnList(r, y) <=> OnList(s, y) /\ y # x
      <3>1. ASSUME NEW y, OnList(r, y) PROVE OnList(s, y) /\ y # x
        <4>1. PICK j \in 1..(n - 1) : r[j] = y
          BY <3>1, <2>6 DEF OnList
        <4>2. PICK i \in 1..n : y = s[i] /\ i # k
          BY <4>1, <2>7
        <4>3. y # x
          BY <4>2, <2>1, <2>2 DEF Distinct
        <4>. QED BY <4>2, <4>3, <2>1 DEF OnList
      <3>2. ASSUME NEW y, OnList(s, y), y # x PROVE OnList(r, y)
        <4>1. PICK i \in 1..n : y = s[i] /\ i # k
          BY <3>2, <2>1, <2>2 DEF OnList
        <4>. QED BY <4>1, <2>6, <2>8 DEF OnList
      <3>. QED BY <3>1, <3>2
    <2>10. ASSUME NEW y, NEW z, Before(s, y, z), y # x, z # x PROVE Before(r, y, z)
      <3>1. PICK i \in 1..n, j \in 1..n : i < j /\ s[i] = y /\ s[j] = z
        BY <2>10, <2>1 DEF Before
      <3>2. i # k /\ j # k
        BY <3>1, <2>10, <2>2
      <3>3. PICK a \in 1..(n - 1) : r[a] = y /\ a = IF i < k THEN i ELSE i - 1
        BY <3>1, <3>2, <2>8
      <3>4. PICK b \in 1..(n - 1) : r[b] = z /\ b = IF j < k THEN j ELSE j - 1
        BY <3>1, <3>2, <2>8
      <3>5. a < b
        BY <3>1, <3>2, <3>3, <3>4, <2>2
      <3>. QED BY <3>3, <3>4, <3>5, <2>6 DEF Before
    <2>11. Distinct(r)
      <3>. SUFFICES ASSUME NEW i \in 1..(n - 1), NEW j \in 1..(n - 1), r[i] = r[j] PROVE i = j
        BY <2>6 DEF Distinct
      <3>1. PICK a \in 1..n : r[i] = s[a] /\ a # k /\ a = IF i < k THEN i ELSE i + 1
        BY <2>7
      <3>2. PICK b \in 1..n : r[j] = s[b] /\ b # k /\ b = IF j < k THEN j ELSE j + 1
        BY <2>7
      <3>3. a = b
        BY <3>1, <3>2, <2>1 DEF Distinct
      <3>. QED BY <3>1, <3>2, <3>3, <2>2
    <2>. QED BY <2>6, <2>9, <2>10, <2>11
  <1>. QED BY <1>1, <1>2

-------------------------------------------------------------------------------
(* Types                                                                    *)

\* A worker runs one function at most.
LEMMA Frames ==
    ASSUME TypeOK, FrameInv, NEW c \in Cpu
    PROVE  /\ worklist[c] \in Seq(Item) /\ current[c] \in Item \cup {Null}
           /\ current[c] = Null => fn[c] = <<>>
           /\ current[c] # Null => /\ fn[c] = <<current[c]>> /\ fn[c] # <<>>
                                  /\ Last(fn[c]) = current[c] /\ Front(fn[c]) = <<>>
  <1>1. worklist[c] \in Seq(Item) /\ current[c] \in Item \cup {Null}
    BY DEF TypeOK
  <1>2. fn[c] = IF current[c] = Null THEN <<>> ELSE <<current[c]>>
    BY DEF FrameInv
  <1>3. ASSUME NEW x PROVE <<x>> # <<>> /\ Last(<<x>>) = x /\ Front(<<x>>) = <<>>
    BY DEF Last, Front
  <1>. QED BY <1>1, <1>2, <1>3

LEMMA TypeStep ==
    ASSUME IInv, ~SelfFlush, Next
    PROVE  TypeOK'
  <1>. TypeOK /\ FrameInv /\ DataInv /\ BarrierInv
    BY DEF IInv
  <1>. USE DEF TypeOK, workVars, cwqVars, taskVars, grabVars
  <1>a. /\ "idle" \in TaskPC /\ "ins" \in TaskPC /\ "flush" \in TaskPC /\ "flushwait" \in TaskPC
        /\ "flushed" \in TaskPC /\ "cdel" \in TaskPC /\ "cgrab" \in TaskPC /\ "cread" \in TaskPC
        /\ "clock" \in TaskPC /\ "ccmp" \in TaskPC /\ "cwait" \in TaskPC /\ "cwaitcpu" \in TaskPC
        /\ "cbarr" \in TaskPC /\ "cclear" \in TaskPC
    BY DEF TaskPC, Cancel
  <1>1. ASSUME NEW t \in Task, NEW w \in Work, NEW c \in Cpu,
               QueueWork(t, w, c) \/ QueueDelayedWork(t, w, c)
        PROVE  TypeOK'
    <2>1. CASE QueueWork(t, w, c)
      BY <2>1, <1>a DEF QueueWork, Insert, Goto, Insertion
    <2>2. CASE QueueDelayedWork(t, w, c)
      BY <2>2, <1>a DEF QueueDelayedWork, Goto, Insertion
    <2>. QED BY <1>1, <2>1, <2>2
  <1>2. ASSUME NEW w \in Work, NEW c \in Cpu, TimerFires(w, c)
        PROVE  TypeOK'
    BY <1>2 DEF TimerFires, Insert, Insertion
  <1>3. ASSUME NEW w \in Work, AddTimer(w)
        PROVE  TypeOK'
    BY <1>3 DEF AddTimer, InsStep, InsertReturns, TaskPC, WorkerPC, Insertion
  <1>4. ASSUME NEW w \in Work, SetData(w)
        PROVE  TypeOK'
    <2>1. ins[w] \in Insertion /\ ins[w].cpu \in Cpu
      BY <1>4 DEF SetData, InsStep, Insertion
    <2>2. ins' \in [Work -> Insertion \cup {Null}]
      BY <1>4, <2>1 DEF SetData, Insertion
    <2>3. lock' \in [Cpu -> Item \cup {Null}] /\ wqdata' \in [Work -> Cpu \cup {Null}]
      BY <1>4, <2>1 DEF SetData, Item
    <2>. QED BY <1>4, <2>2, <2>3 DEF SetData
  <1>5. ASSUME NEW w \in Work, ListAdd(w)
        PROVE  TypeOK'
    BY <1>5 DEF ListAdd, InsStep, InsertReturns, WakeWorker, TaskPC, WorkerPC, Insertion, Item
  <1>6. ASSUME NEW c \in Cpu, WorkerPrepare(c) \/ WorkerTest(c) \/ WorkerScheduled(c)
        PROVE  TypeOK'
    <2>1. wstate' \in [Cpu -> {"run", "sleep"}]
      BY <1>6 DEF WorkerPrepare, WorkerTest, WorkerScheduled
    <2>2. wpc' \in [Cpu -> WorkerPC]
      BY <1>6 DEF WorkerPrepare, WorkerTest, WorkerScheduled, WGoto, WorkerPC
    <2>3. UNCHANGED <<workVars, lock, worklist, current, fn, taskVars, owed>>
      BY <1>6 DEF WorkerPrepare, WorkerTest, WorkerScheduled
    <2>. QED BY <2>1, <2>2, <2>3
  <1>7. ASSUME NEW c \in Cpu, RunNext(c)
        PROVE  TypeOK'
    <2>1. wpc' \in [Cpu -> WorkerPC]
      BY <1>7 DEF RunNext, WGoto, WorkerPC
    <2>2. CASE worklist[c] = <<>>
      BY <1>7, <2>1, <2>2 DEF RunNext
    <2>3. CASE worklist[c] # <<>>
      <3>1. worklist[c] \in Seq(Item) /\ fn[c] \in Seq(Item)
        OBVIOUS
      <3>2. Head(worklist[c]) \in Item /\ Tail(worklist[c]) \in Seq(Item)
        BY <3>1, <2>3
      <3>3. Append(fn[c], Head(worklist[c])) \in Seq(Item)
        BY <3>1, <3>2
      <3>4. /\ current' \in [Cpu -> Item \cup {Null}]
            /\ worklist' \in [Cpu -> Seq(Item)] /\ fn' \in [Cpu -> Seq(Item)]
        BY <1>7, <2>3, <3>2, <3>3 DEF RunNext
      <3>5. ASSUME NEW t \in Task, NEW o \in owed'[t]
            PROVE  o \in Owed
        <4>1. PICK h : h = Head(worklist[c])
          OBVIOUS
        <4>2. owed'[t] = IF <<h, "queued", c>> \in owed[t]
                         THEN (owed[t] \ {<<h, "queued", c>>}) \cup {<<h, "running", c>>}
                         ELSE owed[t]
          BY <1>7, <2>3, <4>1 DEF RunNext
        <4>3. owed[t] \subseteq Owed
          OBVIOUS
        <4>4. <<h, "queued", c>> \in Owed => <<h, "running", c>> \in Owed
          BY DEF Owed
        <4>. QED BY <3>5, <4>2, <4>3, <4>4
      <3>6. owed' \in [Task -> SUBSET Owed]
        <4>1. \A t \in Task : owed'[t] \in SUBSET Owed
          BY <3>5
        <4>2. owed' = [t \in Task |-> owed'[t]]
          BY <1>7, <2>3 DEF RunNext
        <4>. QED BY <4>1, <4>2
      <3>. QED BY <1>7, <2>1, <3>4, <3>6 DEF RunNext
    <2>. QED BY <2>2, <2>3
  <1>8. ASSUME NEW c \in Cpu, ClearPending(c) \/ FuncReturns(c)
        PROVE  TypeOK'
    <2>1. CASE ClearPending(c)
      BY <2>1 DEF ClearPending, WGoto, WorkerPC
    <2>2. CASE FuncReturns(c)
      BY <2>2 DEF FuncReturns, WGoto, WorkerPC
    <2>. QED BY <1>8, <2>1, <2>2
  <1>9. ASSUME NEW c \in Cpu, NEW w \in Work, FuncRequeues(c, w) \/ FuncRearms(c, w)
        PROVE  TypeOK'
    <2>1. CASE FuncRequeues(c, w)
      BY <2>1 DEF FuncRequeues, Insert, WGoto, WorkerPC, Insertion
    <2>2. CASE FuncRearms(c, w)
      BY <2>2 DEF FuncRearms, WGoto, WorkerPC, Insertion
    <2>. QED BY <1>9, <2>1, <2>2
  <1>10. ASSUME NEW c \in Cpu, FuncDone(c)
         PROVE  TypeOK'
    <2>1. current[c] # Null /\ Front(fn[c]) = <<>>
      BY <1>10, Frames DEF FuncDone, At, FrameInv
    <2>2. <<>> \in Seq(Item)
      OBVIOUS
    <2>3. fn' \in [Cpu -> Seq(Item)]
      BY <1>10, <2>1, <2>2 DEF FuncDone
    <2>4. /\ wpc' \in [Cpu -> WorkerPC]
          /\ current' \in [Cpu -> Item \cup {Null}]
      BY <1>10 DEF FuncDone, WGoto, WorkerPC
    <2>5. owed' \in [Task -> SUBSET Owed]
      BY <1>10 DEF FuncDone
    <2>. QED BY <1>10, <2>3, <2>4, <2>5 DEF FuncDone
  <1>11. ASSUME NEW t \in Task, FlushWorkqueue(t) \/ FlushWait(t) \/ FlushReturns(t)
         PROVE  TypeOK'
    <2>1. CASE FlushWorkqueue(t)
      BY <2>1, <1>a DEF FlushWorkqueue, Goto
    <2>2. CASE FlushWait(t)
      BY <2>2, <1>a DEF FlushWait, Goto
    <2>3. CASE FlushReturns(t)
      BY <2>3, <1>a DEF FlushReturns, Goto
    <2>. QED BY <1>11, <2>1, <2>2, <2>3
  <1>12. ASSUME NEW t \in Task, NEW c \in Cpu, FlushCpu(t, c)
         PROVE  TypeOK'
    <2>1. owed' \in [Task -> SUBSET Owed]
      <3>1. ToFlush(c) \in SUBSET Owed
        BY DEF ToFlush, Owed
      <3>. QED BY <1>12, <3>1 DEF FlushCpu
    <2>2. pc' \in [Task -> TaskPC]
      BY <1>12, <1>a DEF FlushCpu, Goto
    <2>3. Append(worklist[c], t) \in Seq(Item)
      BY DEF Item
    <2>4. /\ done' \in [Task -> BOOLEAN] /\ worklist' \in [Cpu -> Seq(Item)]
          /\ wstate' \in [Cpu -> {"run", "sleep"}]
      BY <1>12, <2>3 DEF FlushCpu, InsertBarrier, WakeWorker
    <2>5. todo' \in [Task -> SUBSET Cpu]
      BY <1>12 DEF FlushCpu
    <2>. QED BY <1>12, <2>1, <2>2, <2>4, <2>5 DEF FlushCpu
  <1>13. ASSUME NEW t \in Task, NEW w \in Work, NEW tm \in BOOLEAN, CancelSync(t, w, tm)
         PROVE  TypeOK'
    BY <1>13, <1>a DEF CancelSync, Goto
  <1>14. ASSUME NEW t \in Task, \/ CancelDelTimer(t) \/ GrabBit(t) \/ GrabReadCwq(t)
                               \/ GrabLock(t) \/ GrabCompare(t)
         PROVE  TypeOK'
    <2>1. pc' \in [Task -> TaskPC]
      BY <1>14, <1>a DEF CancelDelTimer, GrabBit, GrabReadCwq, GrabLock, GrabCompare, Grabbed, Goto
    <2>2. ret' \in [Task -> {-1, 0, 1}]
      BY <1>14 DEF CancelDelTimer, GrabBit, GrabReadCwq, GrabLock, GrabCompare, Grabbed
    <2>3. arg[t] \in Work
      BY <1>14 DEF DataInv, Cancel, CancelDelTimer, GrabBit, GrabReadCwq, GrabLock, GrabCompare
    <2>4. cwq' \in [Task -> Cpu \cup {Null}]
      BY <1>14, <2>3 DEF CancelDelTimer, GrabBit, GrabReadCwq, GrabLock, GrabCompare, Grabbed
    <2>5. on' \in [Task -> Cpu \cup {Null}]
      BY <1>14 DEF CancelDelTimer, GrabBit, GrabReadCwq, GrabLock, GrabCompare, Grabbed
    <2>6. pending' \in [Work -> BOOLEAN] /\ timer' \in [Work -> {"off", "armed", "firing"}]
      BY <1>14 DEF CancelDelTimer, GrabBit, GrabReadCwq, GrabLock, GrabCompare
    <2>7. lock' \in [Cpu -> Item \cup {Null}]
      BY <1>14 DEF CancelDelTimer, GrabBit, GrabReadCwq, GrabLock, GrabCompare, Item
    <2>8. worklist' \in [Cpu -> Seq(Item)]
      <3>1. \A c \in Cpu : ListDel(worklist[c], arg[t]) \in Seq(Item)
        BY ListDelList DEF BarrierInv, Unlinked
      <3>. QED BY <1>14, <3>1 DEF CancelDelTimer, GrabBit, GrabReadCwq, GrabLock, GrabCompare
    <2>9. owed' \in [Task -> SUBSET Owed]
      <3>1. CASE UNCHANGED owed
        BY <3>1
      <3>2. CASE owed' = [u \in Task |-> owed[u] \ {<<arg[t], "queued", c>> : c \in Cpu}]
        BY <3>2
      <3>. QED BY <1>14, <3>1, <3>2 DEF CancelDelTimer, GrabBit, GrabReadCwq, GrabLock, GrabCompare
    <2>10. UNCHANGED <<wqdata, ins, current, fn, wstate, wpc, arg, usetimer, todo, done>>
      BY <1>14 DEF CancelDelTimer, GrabBit, GrabReadCwq, GrabLock, GrabCompare
    <2>. QED BY <2>1, <2>2, <2>4, <2>5, <2>6, <2>7, <2>8, <2>9, <2>10
  <1>15. ASSUME NEW t \in Task, \/ WaitOnWork(t) \/ CancelBarrier(t) \/ CancelLoop(t) \/ CancelReturns(t)
         PROVE  TypeOK'
    <2>1. CASE WaitOnWork(t)
      BY <2>1, <1>a DEF WaitOnWork, Goto
    <2>2. CASE CancelBarrier(t)
      BY <2>2, <1>a DEF CancelBarrier, Goto
    <2>3. CASE CancelLoop(t)
      BY <2>3, <1>a DEF CancelLoop, Goto
    <2>4. CASE CancelReturns(t)
      BY <2>4, <1>a DEF CancelReturns, Goto
    <2>. QED BY <1>15, <2>1, <2>2, <2>3, <2>4
  <1>16. ASSUME NEW t \in Task, NEW c \in Cpu, WaitOnCpuWork(t, c)
         PROVE  TypeOK'
    <2>1. pc' \in [Task -> TaskPC]
      BY <1>16, <1>a DEF WaitOnCpuWork, Goto
    <2>2. <<t>> \o worklist[c] \in Seq(Item)
      BY PrependList DEF Item, Prepended
    <2>3. /\ done' \in [Task -> BOOLEAN] /\ worklist' \in [Cpu -> Seq(Item)]
          /\ wstate' \in [Cpu -> {"run", "sleep"}]
      BY <1>16, <2>2 DEF WaitOnCpuWork, InsertBarrier, WakeWorker
    <2>4. todo' \in [Task -> SUBSET Cpu]
      BY <1>16 DEF WaitOnCpuWork
    <2>. QED BY <1>16, <2>1, <2>3, <2>4 DEF WaitOnCpuWork
  <1>17. ASSUME NEW t \in Task, NEW w \in Work, CancelDelayedWork(t, w)
         PROVE  TypeOK'
    BY <1>17 DEF CancelDelayedWork
  <1>18. ASSUME NEW c \in Cpu, FuncFlushes(c)
         PROVE  TypeOK'
    BY <1>18 DEF FuncFlushes
  <1>. HIDE DEF TypeOK, workVars, cwqVars, taskVars, grabVars
  <1>. QED BY <1>1, <1>2, <1>3, <1>4, <1>5, <1>6, <1>7, <1>8, <1>9, <1>10, <1>11, <1>12,
            <1>13, <1>14, <1>15, <1>16, <1>17, <1>18
            DEF Next, Queueing, Inserting, Worker, Flushing, Cancelling, NewCancel

-------------------------------------------------------------------------------
(* The parts of the invariant                                               *)

\* The owner of w stays the owner.
LEMMA OwnerKept ==
    ASSUME NEW w \in Work, NEW o, OwnedBy(w, o),
           pending'[w] <=> pending[w], timer'[w] = "armed" <=> timer[w] = "armed",
           ins'[w] = Null <=> ins[w] = Null,
           \A c \in Cpu : OnList(worklist'[c], w) <=> OnList(worklist[c], w),
           \A c \in Cpu : wpc'[c] = "clear" /\ current'[c] = w <=> wpc[c] = "clear" /\ current[c] = w,
           \A t \in Task : CancelOwns(t, w)' <=> CancelOwns(t, w)
    PROVE  OwnedBy(w, o)'
  BY DEF OwnedBy

\* A task that does not change its claim on any work.
LEMMA ClaimsKept ==
    ASSUME NEW t \in Task,
           \A u \in Task : u # t => pc'[u] = pc[u] /\ arg'[u] = arg[u] /\ ret'[u] = ret[u],
           pc[t] \notin {"cwait", "cwaitcpu", "cbarr", "cclear"},
           pc'[t] \notin {"cwait", "cwaitcpu", "cbarr", "cclear"}
    PROVE  \A u \in Task, w \in Work : CancelOwns(u, w)' <=> CancelOwns(u, w)
  BY DEF CancelOwns

\* The different owners a work can have.
LEMMA OwnerIds ==
    ASSUME NEW w \in Work
    PROVE  /\ <<"none", w>> \in OwnerId(w) /\ <<"timer", w>> \in OwnerId(w) /\ <<"ins", w>> \in OwnerId(w)
           /\ \A c \in Cpu : <<"list", c>> \in OwnerId(w) /\ <<"clear", c>> \in OwnerId(w)
           /\ \A t \in Task : <<"cancel", t>> \in OwnerId(w)
  BY DEF OwnerId

\* Nobody owns a bit that is clear.
LEMMA NoOwner ==
    ASSUME OwnerInv, NEW w \in Work, ~pending[w]
    PROVE  OwnedBy(w, <<"none", w>>)
  BY DEF OwnerInv, OwnedBy

\* What somebody owns nobody else does.
LEMMA SoleOwner ==
    ASSUME OwnerInv, NEW w \in Work
    PROVE  /\ timer[w] = "armed" => OwnedBy(w, <<"timer", w>>)
           /\ ins[w] # Null => OwnedBy(w, <<"ins", w>>)
           /\ \A c \in Cpu : OnList(worklist[c], w) => OwnedBy(w, <<"list", c>>)
           /\ \A c \in Cpu : wpc[c] = "clear" /\ current[c] = w => OwnedBy(w, <<"clear", c>>)
           /\ \A t \in Task : CancelOwns(t, w) => OwnedBy(w, <<"cancel", t>>)
  <1>1. PICK o \in OwnerId(w) : OwnedBy(w, o)
    BY DEF OwnerInv
  <1>2. timer[w] = "armed" => o = <<"timer", w>>
    BY <1>1 DEF OwnedBy
  <1>3. ins[w] # Null => o = <<"ins", w>>
    BY <1>1 DEF OwnedBy
  <1>4. \A c \in Cpu : OnList(worklist[c], w) => o = <<"list", c>>
    BY <1>1 DEF OwnedBy
  <1>5. \A c \in Cpu : wpc[c] = "clear" /\ current[c] = w => o = <<"clear", c>>
    BY <1>1 DEF OwnedBy
  <1>6. \A t \in Task : CancelOwns(t, w) => o = <<"cancel", t>>
    BY <1>1 DEF OwnedBy
  <1>. QED BY <1>1, <1>2, <1>3, <1>4, <1>5, <1>6

\* The bit of w gets another owner; those of the other works keep theirs.
LEMMA OwnerMoves ==
    ASSUME OwnerInv, NEW w \in Work, NEW p \in OwnerId(w), OwnedBy(w, p)',
           \A v \in Work : v # w => \A o \in OwnerId(v) : OwnedBy(v, o) => OwnedBy(v, o)'
    PROVE  OwnerInv'
  <1>. SUFFICES ASSUME NEW v \in Work PROVE \E o \in OwnerId(v) : OwnedBy(v, o)'
    BY DEF OwnerInv, OwnerId
  <1>1. PICK o \in OwnerId(v) : OwnedBy(v, o)
    BY DEF OwnerInv
  <1>. QED BY <1>1

LEMMA OwnersKept ==
    ASSUME OwnerInv,
           \A v \in Work : \A o \in OwnerId(v) : OwnedBy(v, o) => OwnedBy(v, o)'
    PROVE  OwnerInv'
  <1>. SUFFICES ASSUME NEW v \in Work PROVE \E o \in OwnerId(v) : OwnedBy(v, o)'
    BY DEF OwnerInv, OwnerId
  <1>1. PICK o \in OwnerId(v) : OwnedBy(v, o)
    BY DEF OwnerInv
  <1>. QED BY <1>1

\* What a flush waits for stays before its barrier.
LEMMA FlushKept ==
    ASSUME FlushInv,
           \A t \in Task : owed'[t] \subseteq owed[t],
           \A t \in Task : pc[t] = "flushwait" /\ owed'[t] # {} => pc'[t] = "flushwait",
           \A t \in Task, w \in Work, c \in Cpu : <<w, "queued", c>> \in owed'[t] =>
              (Before(worklist[c], w, t) => Before(worklist'[c], w, t)),
           \A t \in Task, w \in Work, c \in Cpu : <<w, "running", c>> \in owed'[t] =>
              /\ OnList(worklist[c], t) => OnList(worklist'[c], t)
              /\ current[c] = w => current'[c] = w
    PROVE  FlushInv'
  <1>. SUFFICES ASSUME NEW t \in Task, NEW w \in Work, NEW c \in Cpu
                PROVE  /\ <<w, "queued", c>> \in owed'[t] =>
                            pc'[t] = "flushwait" /\ Before(worklist'[c], w, t)
                       /\ <<w, "running", c>> \in owed'[t] =>
                            pc'[t] = "flushwait" /\ current'[c] = w /\ OnList(worklist'[c], t)
    BY DEF FlushInv
  <1>1. ASSUME <<w, "queued", c>> \in owed'[t]
        PROVE  pc'[t] = "flushwait" /\ Before(worklist'[c], w, t)
    BY <1>1 DEF FlushInv
  <1>2. ASSUME <<w, "running", c>> \in owed'[t]
        PROVE  pc'[t] = "flushwait" /\ current'[c] = w /\ OnList(worklist'[c], t)
    BY <1>2 DEF FlushInv
  <1>. QED BY <1>1, <1>2

-------------------------------------------------------------------------------
(* Steps of one task that touch neither lists, bits nor locks               *)

LEMMA LocalInv ==
    ASSUME IInv, TypeOK', LockInv', NEW t \in Task,
           UNCHANGED <<pending, wqdata, timer, ins, worklist, current, fn, wpc, done>>,
           \A u \in Task : u # t => /\ pc'[u] = pc[u] /\ arg'[u] = arg[u] /\ ret'[u] = ret[u]
                                    /\ todo'[u] = todo[u] /\ owed'[u] = owed[u],
           pc[t] \notin {"ins", "flushwait", "cbarr"},
           pc'[t] \notin {"ins", "flushwait", "cbarr"},
           pc'[t] \in Cancel => arg'[t] \in Work, pc'[t] = "cclear" => ret'[t] >= 0,
           \A w \in Work : CancelOwns(t, w)' <=> CancelOwns(t, w),
           \A c \in Cpu : CancelOwns(t, arg[t])' /\ current[c] = arg'[t] =>
              pc'[t] = "cwait" \/ (pc'[t] = "cwaitcpu" /\ c \in todo'[t]),
           owed'[t] = {}
    PROVE  IInv'
  <1>. USE DEF IInv
  <1>2. FrameInv'
    BY DEF FrameInv
  <1>3. InsertInv'
    BY DEF InsertInv
  <1>4. DataInv'
    BY DEF DataInv
  <1>5. OwnerInv'
    <2>1. \A u \in Task, w \in Work : CancelOwns(u, w)' <=> CancelOwns(u, w)
      BY DEF CancelOwns
    <2>. QED BY <2>1, OwnerKept, OwnersKept
  <1>6. BarrierInv'
    BY DEF BarrierInv
  <1>7. CancelInv'
    <2>. SUFFICES ASSUME NEW u \in Task, NEW c \in Cpu, CancelOwns(u, arg[u])', current'[c] = arg'[u]
                  PROVE  \/ pc'[u] = "cwait"
                         \/ pc'[u] \in {"cwaitcpu", "cbarr"} /\ c \in todo'[u]
                         \/ pc'[u] = "cbarr" /\ OnList(worklist'[c], u)
      BY DEF CancelInv
    <2>1. CASE u = t
      BY <2>1
    <2>2. CASE u # t
      <3>1. CancelOwns(u, arg[u])
        BY <2>2 DEF CancelOwns
      <3>. QED BY <2>2, <3>1 DEF CancelInv
    <2>. QED BY <2>1, <2>2
  <1>8. FlushInv'
    <2>1. ASSUME NEW u \in Task
          PROVE  owed'[u] \subseteq owed[u] /\ (pc[u] = "flushwait" /\ owed'[u] # {} => pc'[u] = "flushwait")
      BY DEF TypeOK
    <2>. QED BY <2>1, FlushKept
  <1>. QED BY <1>2, <1>3, <1>4, <1>5, <1>6, <1>7, <1>8

\* A worker between two works.
LEMMA IdleWorkerInv ==
    ASSUME IInv, TypeOK', NEW c \in Cpu,
           UNCHANGED <<workVars, lock, worklist, current, fn, taskVars, owed>>,
           \A d \in Cpu : d # c => wpc'[d] = wpc[d],
           wpc[c] \in {"prep", "test", "sched", "pop"}, wpc'[c] \in {"prep", "test", "sched", "pop"}
    PROVE  IInv'
  <1>. USE DEF IInv, workVars, taskVars, grabVars
  <1>1. LockInv'
    BY DEF LockInv
  <1>2. FrameInv'
    BY DEF FrameInv
  <1>3. InsertInv'
    BY DEF InsertInv
  <1>4. DataInv'
    BY DEF DataInv
  <1>5. OwnerInv'
    <2>1. \A u \in Task, w \in Work : CancelOwns(u, w)' <=> CancelOwns(u, w)
      BY DEF CancelOwns
    <2>2. \A d \in Cpu : wpc'[d] = "clear" <=> wpc[d] = "clear"
      OBVIOUS
    <2>. QED BY <2>1, <2>2, OwnerKept, OwnersKept
  <1>6. BarrierInv'
    BY DEF BarrierInv
  <1>7. CancelInv'
    BY DEF CancelInv, CancelOwns
  <1>8. FlushInv'
    BY FlushKept
  <1>. QED BY <1>1, <1>2, <1>3, <1>4, <1>5, <1>6, <1>7, <1>8

\* Only a task that waits for its barrier has something to wait for.
LEMMA NothingOwed ==
    ASSUME TypeOK, FlushInv, NEW t \in Task, pc[t] # "flushwait"
    PROVE  owed[t] = {}
  <1>. SUFFICES ASSUME NEW o \in owed[t] PROVE FALSE
    OBVIOUS
  <1>1. owed[t] \subseteq Owed
    BY DEF TypeOK
  <1>2. PICK w \in Work, k \in {"queued", "running"}, c \in Cpu : o = <<w, k, c>>
    BY <1>1 DEF Owed
  <1>3. k = "queued" \/ k = "running"
    BY <1>2
  <1>4. CASE k = "queued"
    BY <1>2, <1>4 DEF FlushInv
  <1>5. CASE k = "running"
    BY <1>2, <1>5 DEF FlushInv
  <1>. QED BY <1>3, <1>4, <1>5

\* An idle CPU has nothing to flush.
LEMMA NothingToFlush ==
    ASSUME TypeOK, FrameInv, NEW c \in Cpu, ~Active(c)
    PROVE  ToFlush(c) = {}
  <1>1. worklist[c] = <<>> /\ fn[c] = <<>>
    BY Frames DEF Active
  <1>2. \A x : ~OnList(worklist[c], x) /\ ~OnList(fn[c], x)
    BY <1>1 DEF OnList
  <1>. SUFFICES ASSUME NEW o \in ToFlush(c) PROVE FALSE
    OBVIOUS
  <1>3. OnList(IF o[2] = "queued" THEN worklist[c] ELSE fn[c], o[1])
    BY DEF ToFlush
  <1>. QED BY <1>2, <1>3

LEMMA FlushLocal ==
    ASSUME IInv, TypeOK', NEW t \in Task,
           \/ FlushWorkqueue(t) \/ FlushReturns(t)
           \/ \E c \in Cpu : FlushCpu(t, c) /\ ~Active(c)
    PROVE  IInv'
  <1>. USE DEF IInv
  <1>1. pc[t] \in {"idle", "flushed", "flush"} /\ pc'[t] \in {"flush", "idle", "flushed"}
    <2>1. CASE FlushWorkqueue(t)
      BY <2>1 DEF FlushWorkqueue, Goto, TypeOK
    <2>2. CASE FlushReturns(t)
      BY <2>2 DEF FlushReturns, Goto, TypeOK
    <2>3. CASE \E c \in Cpu : FlushCpu(t, c) /\ ~Active(c)
      BY <2>3 DEF FlushCpu, Goto, TypeOK
    <2>. QED BY <2>1, <2>2, <2>3
  <1>2. \A u \in Task : u # t => pc'[u] = pc[u] /\ todo'[u] = todo[u] /\ owed'[u] = owed[u]
    <2>1. CASE FlushWorkqueue(t)
      BY <2>1 DEF FlushWorkqueue, Goto, TypeOK
    <2>2. CASE FlushReturns(t)
      BY <2>2 DEF FlushReturns, Goto, TypeOK
    <2>3. CASE \E c \in Cpu : FlushCpu(t, c) /\ ~Active(c)
      BY <2>3 DEF FlushCpu, Goto, TypeOK
    <2>. QED BY <2>1, <2>2, <2>3
  <1>3. UNCHANGED <<pending, wqdata, timer, ins, lock, worklist, current, fn, wpc, done, arg, cwq, on, ret>>
    BY DEF FlushWorkqueue, FlushReturns, FlushCpu, workVars, cwqVars, grabVars
  <1>4. owed'[t] = {}
    <2>1. CASE FlushWorkqueue(t)
      <3>1. owed[t] = {}
        BY <1>1, NothingOwed
      <3>. QED BY <2>1, <3>1 DEF FlushWorkqueue
    <2>2. CASE FlushReturns(t)
      BY <2>2 DEF FlushReturns, TypeOK
    <2>3. CASE \E c \in Cpu : FlushCpu(t, c) /\ ~Active(c)
      BY <2>3, NothingToFlush DEF FlushCpu, TypeOK
    <2>. QED BY <2>1, <2>2, <2>3
  <1>5. /\ pc'[t] \notin Cancel
        /\ \A w \in Work : CancelOwns(t, w)' <=> CancelOwns(t, w)
        /\ ~CancelOwns(t, arg[t])'
    BY <1>1 DEF CancelOwns, Cancel
  <1>6. LockInv'
    BY <1>1, <1>2, <1>3 DEF LockInv
  <1>. QED BY <1>1, <1>2, <1>3, <1>4, <1>5, <1>6, LocalInv

LEMMA CancelLocal ==
    ASSUME IInv, TypeOK', NEW t \in Task,
           \/ \E w \in Work, tm \in BOOLEAN : CancelSync(t, w, tm)
           \/ CancelDelTimer(t) /\ timer[arg[t]] # "armed"
           \/ GrabBit(t) /\ pending[arg[t]]
           \/ GrabReadCwq(t)
           \/ GrabLock(t) /\ Entry(arg[t]) = {}
           \/ WaitOnWork(t)
           \/ \E c \in Cpu : WaitOnCpuWork(t, c) /\ current[c] # arg[t]
           \/ CancelLoop(t)
    PROVE  IInv'
  <1>. USE DEF IInv
  <1>1. /\ pc[t] \in {"idle", "cdel", "cgrab", "cread", "clock", "cwait", "cwaitcpu"}
        /\ pc'[t] \in {"cdel", "cgrab", "cread", "clock", "cwait", "cwaitcpu", "cclear"}
    BY DEF CancelSync, CancelDelTimer, GrabBit, GrabReadCwq, GrabLock, WaitOnWork, WaitOnCpuWork,
           CancelLoop, Grabbed, Goto, TypeOK
  <1>2. \A u \in Task : u # t => /\ pc'[u] = pc[u] /\ arg'[u] = arg[u] /\ cwq'[u] = cwq[u]
                                 /\ on'[u] = on[u] /\ ret'[u] = ret[u] /\ todo'[u] = todo[u]
    BY DEF CancelSync, CancelDelTimer, GrabBit, GrabReadCwq, GrabLock, WaitOnWork, WaitOnCpuWork,
           CancelLoop, Grabbed, Goto, grabVars, TypeOK
  <1>3. UNCHANGED <<pending, wqdata, timer, ins, lock, worklist, current, fn, wpc, done, owed>>
    BY DEF CancelSync, CancelDelTimer, GrabBit, GrabReadCwq, GrabLock, WaitOnWork, WaitOnCpuWork,
           CancelLoop, workVars, cwqVars
  <1>4. owed'[t] = {}
    BY <1>1, <1>3, NothingOwed
  <1>5. arg'[t] \in Work
    <2>1. CASE \E w \in Work, tm \in BOOLEAN : CancelSync(t, w, tm)
      BY <2>1 DEF CancelSync, TypeOK
    <2>2. CASE ~ \E w \in Work, tm \in BOOLEAN : CancelSync(t, w, tm)
      <3>1. pc[t] \in Cancel /\ arg' = arg
        BY <2>2 DEF CancelDelTimer, GrabBit, GrabReadCwq, GrabLock, WaitOnWork, WaitOnCpuWork,
                    CancelLoop, Cancel
      <3>. QED BY <3>1 DEF DataInv
    <2>. QED BY <2>1, <2>2
  <1>6. pc'[t] = "clock" => cwq'[t] \in Cpu
    <2>1. ASSUME pc'[t] = "clock" PROVE GrabReadCwq(t) /\ wqdata[arg[t]] # Null
      BY <2>1 DEF CancelSync, CancelDelTimer, GrabBit, GrabReadCwq, GrabLock, WaitOnWork, WaitOnCpuWork,
             CancelLoop, Grabbed, Goto, TypeOK
    <2>2. ASSUME GrabReadCwq(t), wqdata[arg[t]] # Null PROVE cwq'[t] \in Cpu
      <3>1. arg[t] \in Work
        BY <2>2 DEF GrabReadCwq, DataInv, Cancel
      <3>. QED BY <2>2, <3>1 DEF GrabReadCwq, TypeOK
    <2>. QED BY <2>1, <2>2
  <1>7. /\ \A w \in Work : CancelOwns(t, w)' <=> CancelOwns(t, w)
        /\ \A c \in Cpu : CancelOwns(t, arg[t])' /\ current[c] = arg'[t] =>
             pc'[t] = "cwait" \/ (pc'[t] = "cwaitcpu" /\ c \in todo'[t])
    <2>1. CASE \E w \in Work, tm \in BOOLEAN : CancelSync(t, w, tm)
      BY <2>1 DEF CancelSync, Goto, TypeOK, CancelOwns
    <2>2. CASE CancelDelTimer(t) /\ timer[arg[t]] # "armed"
      BY <2>2 DEF CancelDelTimer, Goto, TypeOK, CancelOwns
    <2>3. CASE GrabBit(t) /\ pending[arg[t]]
      BY <2>3 DEF GrabBit, Goto, TypeOK, CancelOwns
    <2>4. CASE GrabReadCwq(t) \/ (GrabLock(t) /\ Entry(arg[t]) = {})
      <3>1. pc[t] \in {"cread", "clock"} /\ (pc'[t] = "clock" \/ (pc'[t] = "cwait" /\ ret'[t] = -1))
        BY <2>4 DEF GrabReadCwq, GrabLock, Grabbed, Goto, TypeOK
      <3>. QED BY <3>1 DEF CancelOwns
    <2>5. CASE WaitOnWork(t)
      <3>1. /\ pc[t] = "cwait" /\ pc'[t] = "cwaitcpu" /\ arg' = arg /\ ret' = ret
            /\ todo'[t] = IF wqdata[arg[t]] = Null THEN {} ELSE Cpu
        BY <2>5 DEF WaitOnWork, Goto, TypeOK, grabVars
      <3>2. \A c \in Cpu : current[c] = arg[t] => wqdata[arg[t]] # Null
        BY <3>1, <1>5 DEF DataInv
      <3>. QED BY <3>1, <3>2 DEF CancelOwns
    <2>6. CASE \E c \in Cpu : WaitOnCpuWork(t, c) /\ current[c] # arg[t]
      <3>1. PICK d \in Cpu : WaitOnCpuWork(t, d) /\ current[d] # arg[t]
        BY <2>6
      <3>2. /\ pc[t] = "cwaitcpu" /\ pc'[t] = "cwaitcpu" /\ arg' = arg /\ ret' = ret
            /\ todo'[t] = todo[t] \ {d}
        BY <3>1 DEF WaitOnCpuWork, TypeOK, grabVars
      <3>3. \A w \in Work : CancelOwns(t, w)' <=> CancelOwns(t, w)
        BY <3>2 DEF CancelOwns
      <3>4. ASSUME NEW c \in Cpu, CancelOwns(t, arg[t])', current[c] = arg'[t]
            PROVE  c \in todo'[t]
        <4>1. CancelOwns(t, arg[t])
          BY <3>4, <3>2 DEF CancelOwns
        <4>2. c \in todo[t]
          BY <3>2, <3>4, <4>1 DEF CancelInv
        <4>. QED BY <3>1, <3>2, <3>4, <4>2
      <3>. QED BY <3>2, <3>3, <3>4
    <2>7. CASE CancelLoop(t)
      <3>1. /\ pc[t] = "cwaitcpu" /\ todo[t] = {} /\ arg' = arg
            /\ ret[t] >= 0 => pc'[t] = "cclear" /\ ret'[t] = ret[t]
            /\ ~(ret[t] >= 0) => pc'[t] \in {"cdel", "cgrab"}
        <4>1. pc[t] = "cwaitcpu" /\ todo[t] = {} /\ arg' = arg
          BY <2>7 DEF CancelLoop
        <4>2. /\ pc'[t] = IF ret[t] >= 0 THEN "cclear" ELSE IF usetimer[t] THEN "cdel" ELSE "cgrab"
              /\ ret'[t] = IF ret[t] < 0 THEN 0 ELSE ret[t]
          BY <2>7 DEF CancelLoop, Goto, TypeOK
        <4>3. ret[t] \in {-1, 0, 1}
          BY DEF TypeOK
        <4>4. CASE ret[t] >= 0
          <5>1. ~(ret[t] < 0)
            BY <4>3, <4>4
          <5>. QED BY <4>1, <4>2, <4>4, <5>1
        <4>5. CASE ~(ret[t] >= 0)
          BY <4>1, <4>2, <4>5
        <4>. QED BY <4>4, <4>5
      <3>2. \A w \in Work : CancelOwns(t, w)' <=> CancelOwns(t, w)
        BY <3>1 DEF CancelOwns
      <3>3. ASSUME NEW c \in Cpu, CancelOwns(t, arg[t])', current[c] = arg'[t] PROVE FALSE
        <4>1. CancelOwns(t, arg[t])
          BY <3>3, <3>1 DEF CancelOwns
        <4>. QED BY <3>1, <3>3, <4>1 DEF CancelInv
      <3>. QED BY <3>2, <3>3
    <2>. QED BY <2>1, <2>2, <2>3, <2>4, <2>5, <2>6, <2>7
  <1>8. LockInv'
    BY <1>1, <1>2, <1>3, <1>6 DEF LockInv
  <1>9. pc'[t] = "cclear" => ret'[t] >= 0
    <2>. SUFFICES ASSUME pc'[t] = "cclear" PROVE ret'[t] >= 0
      OBVIOUS
    <2>1. CancelLoop(t)
      BY DEF CancelSync, CancelDelTimer, GrabBit, GrabReadCwq, GrabLock, WaitOnWork, WaitOnCpuWork,
             Grabbed, Goto, TypeOK
    <2>2. ret'[t] = IF ret[t] < 0 THEN 0 ELSE ret[t]
      BY <2>1 DEF CancelLoop, TypeOK
    <2>3. ret[t] \in {-1, 0, 1}
      BY DEF TypeOK
    <2>. QED BY <2>2, <2>3
  <1>. HIDE DEF IInv
  <1>. QED BY <1>1, <1>2, <1>3, <1>4, <1>5, <1>7, <1>8, <1>9, LocalInv

-------------------------------------------------------------------------------
(* Queueing                                                                 *)

\* A task sets the bit of w and begins the insertion.
LEMMA QueueInv ==
    ASSUME IInv, TypeOK', NEW t \in Task, NEW w \in Work, NEW c \in Cpu,
           QueueWork(t, w, c) \/ QueueDelayedWork(t, w, c)
    PROVE  IInv'
  <1>. USE DEF IInv
  <1>1. /\ pc[t] = "idle" /\ pc'[t] = "ins" /\ \A u \in Task : u # t => pc'[u] = pc[u]
        /\ ~pending[w] /\ pending'[w] /\ \A v \in Work : v # w => pending'[v] = pending[v]
    BY DEF QueueWork, QueueDelayedWork, Goto, TypeOK
  <1>2. UNCHANGED <<wqdata, timer, lock, worklist, current, fn, wpc, arg, cwq, on, ret, todo, done, owed>>
    BY DEF QueueWork, QueueDelayedWork, cwqVars, grabVars
  <1>3. /\ ins'[w] # Null /\ ins'[w].by = t /\ ins'[w].step # "add"
        /\ \A v \in Work : v # w => ins'[v] = ins[v]
    <2>1. PICK i \in Insertion : ins' = [ins EXCEPT ![w] = i] /\ i.by = t /\ i.step # "add"
      <3>1. \A l \in {"lock", "arm"} : [cpu |-> c, by |-> t, step |-> l] \in Insertion
        BY DEF Insertion
      <3>. QED BY <3>1 DEF QueueWork, QueueDelayedWork, Insert
    <2>2. i # Null
      BY NullAssumption
    <2>. QED BY <2>1, <2>2 DEF TypeOK
  <1>4. OwnedBy(w, <<"none", w>>)
    BY <1>1, NoOwner
  <1>5. ins[w] = Null
    BY <1>4 DEF OwnedBy
  <1>6. LockInv'
    BY <1>1, <1>2, <1>3, <1>5 DEF LockInv
  <1>7. FrameInv'
    BY <1>2 DEF FrameInv
  <1>8. InsertInv'
    BY <1>1, <1>2, <1>3, NullAssumption DEF InsertInv
  <1>9. DataInv'
    BY <1>1, <1>2 DEF DataInv, Cancel
  <1>10. OwnerInv'
    <2>1. \A u \in Task, v \in Work : CancelOwns(u, v)' <=> CancelOwns(u, v)
      BY <1>1, <1>2, ClaimsKept
    <2>2. ASSUME NEW v \in Work, v # w, NEW o, OwnedBy(v, o) PROVE OwnedBy(v, o)'
      BY <1>1, <1>2, <1>3, <2>1, <2>2, OwnerKept
    <2>3. OwnedBy(w, <<"ins", w>>)'
      BY <1>1, <1>2, <1>3, <1>4, <2>1 DEF OwnedBy
    <2>. QED BY <2>2, <2>3, OwnerIds, OwnerMoves
  <1>11. BarrierInv'
    BY <1>1, <1>2 DEF BarrierInv
  <1>12. CancelInv'
    BY <1>1, <1>2 DEF CancelInv, CancelOwns
  <1>13. FlushInv'
    BY <1>1, <1>2, FlushKept
  <1>. QED BY <1>6, <1>7, <1>8, <1>9, <1>10, <1>11, <1>12, <1>13

\* A work function sets the bit of its own work.
LEMMA RequeueInv ==
    ASSUME IInv, TypeOK', NEW c \in Cpu, NEW w \in Work, FuncRequeues(c, w) \/ FuncRearms(c, w)
    PROVE  IInv'
  <1>. USE DEF IInv
  <1>1. /\ wpc[c] = "func" /\ wpc'[c] = "ins" /\ \A d \in Cpu : d # c => wpc'[d] = wpc[d]
        /\ ~pending[w] /\ pending'[w] /\ \A v \in Work : v # w => pending'[v] = pending[v]
    BY DEF FuncRequeues, FuncRearms, At, WGoto, TypeOK
  <1>2. UNCHANGED <<wqdata, timer, lock, worklist, current, fn, pc, arg, cwq, on, ret, todo, done, owed>>
    BY DEF FuncRequeues, FuncRearms, taskVars, grabVars
  <1>3. /\ ins'[w] # Null /\ ins'[w].by = c /\ ins'[w].step # "add"
        /\ \A v \in Work : v # w => ins'[v] = ins[v]
    <2>1. PICK i \in Insertion : ins' = [ins EXCEPT ![w] = i] /\ i.by = c /\ i.step # "add"
      <3>1. \A l \in {"lock", "arm"} : [cpu |-> c, by |-> c, step |-> l] \in Insertion
        BY DEF Insertion
      <3>. QED BY <3>1 DEF FuncRequeues, FuncRearms, Insert
    <2>2. i # Null
      BY NullAssumption
    <2>. QED BY <2>1, <2>2 DEF TypeOK
  <1>4. OwnedBy(w, <<"none", w>>)
    BY <1>1, NoOwner
  <1>5. ins[w] = Null
    BY <1>4 DEF OwnedBy
  <1>6. current[c] = w
    <2>1. current[c] # Null
      BY <1>1 DEF FrameInv
    <2>. QED BY <2>1, Frames DEF FuncRequeues, FuncRearms
  <1>7. LockInv'
    BY <1>1, <1>2, <1>3, <1>5 DEF LockInv
  <1>8. FrameInv'
    BY <1>1, <1>2, <1>6 DEF FrameInv
  <1>9. InsertInv'
    BY <1>1, <1>2, <1>3, <1>6, NullAssumption DEF InsertInv
  <1>10. DataInv'
    BY <1>1, <1>2 DEF DataInv
  <1>11. OwnerInv'
    <2>1. \A u \in Task, v \in Work : CancelOwns(u, v)' <=> CancelOwns(u, v)
      BY <1>2 DEF CancelOwns
    <2>2. ASSUME NEW v \in Work, v # w, NEW o, OwnedBy(v, o) PROVE OwnedBy(v, o)'
      BY <1>1, <1>2, <1>3, <2>1, <2>2, OwnerKept
    <2>3. OwnedBy(w, <<"ins", w>>)'
      BY <1>1, <1>2, <1>3, <1>4, <2>1 DEF OwnedBy
    <2>. QED BY <2>2, <2>3, OwnerIds, OwnerMoves
  <1>12. BarrierInv'
    <2>1. \A t \in Task : current[c] # t
      BY <1>6, NullAssumption
    <2>. QED BY <1>1, <1>2, <2>1 DEF BarrierInv
  <1>13. CancelInv'
    BY <1>1, <1>2 DEF CancelInv, CancelOwns
  <1>14. FlushInv'
    BY <1>1, <1>2, FlushKept
  <1>. QED BY <1>7, <1>8, <1>9, <1>10, <1>11, <1>12, <1>13, <1>14

\* The timer of w hands the bit over to its function.
LEMMA TimerInv ==
    ASSUME IInv, TypeOK', NEW w \in Work, NEW c \in Cpu, TimerFires(w, c)
    PROVE  IInv'
  <1>. USE DEF IInv
  <1>1. /\ timer[w] = "armed" /\ timer'[w] = "firing"
        /\ \A v \in Work : v # w => timer'[v] = timer[v]
    BY DEF TimerFires, TypeOK
  <1>2. UNCHANGED <<pending, wqdata, lock, worklist, current, fn, wpc, pc, arg, cwq, on, ret, todo, done, owed>>
    BY DEF TimerFires, cwqVars, taskVars, grabVars
  <1>3. /\ ins'[w] # Null /\ ins'[w].by = "timer" /\ ins'[w].step # "add"
        /\ \A v \in Work : v # w => ins'[v] = ins[v]
    <2>1. PICK i \in Insertion : ins' = [ins EXCEPT ![w] = i] /\ i.by = "timer" /\ i.step # "add"
      <3>1. [cpu |-> c, by |-> "timer", step |-> "lock"] \in Insertion
        BY DEF Insertion
      <3>. QED BY <3>1 DEF TimerFires, Insert
    <2>2. i # Null
      BY NullAssumption
    <2>. QED BY <2>1, <2>2 DEF TypeOK
  <1>4. OwnedBy(w, <<"timer", w>>)
    BY <1>1, SoleOwner
  <1>5. ins[w] = Null
    BY <1>4 DEF OwnedBy
  <1>6. LockInv'
    BY <1>2, <1>3, <1>5 DEF LockInv
  <1>7. FrameInv'
    BY <1>2 DEF FrameInv
  <1>8. InsertInv'
    BY <1>1, <1>2, <1>3, NullAssumption DEF InsertInv
  <1>9. DataInv'
    BY <1>2 DEF DataInv
  <1>10. OwnerInv'
    <2>1. \A u \in Task, v \in Work : CancelOwns(u, v)' <=> CancelOwns(u, v)
      BY <1>2 DEF CancelOwns
    <2>2. ASSUME NEW v \in Work, v # w, NEW o, OwnedBy(v, o) PROVE OwnedBy(v, o)'
      BY <1>1, <1>2, <1>3, <2>1, <2>2, OwnerKept
    <2>3. OwnedBy(w, <<"ins", w>>)'
      BY <1>1, <1>2, <1>3, <1>4, <2>1 DEF OwnedBy
    <2>. QED BY <2>2, <2>3, OwnerIds, OwnerMoves
  <1>11. BarrierInv'
    BY <1>2 DEF BarrierInv
  <1>12. CancelInv'
    BY <1>2 DEF CancelInv, CancelOwns
  <1>13. FlushInv'
    BY <1>2, FlushKept
  <1>. QED BY <1>6, <1>7, <1>8, <1>9, <1>10, <1>11, <1>12, <1>13

\* The end of an insertion: whoever began it goes on.
LEMMA InsertEnds ==
    ASSUME IInv, NEW w \in Work, ins[w] # Null, InsertReturns(w)
    PROVE  /\ ins'[w] = Null /\ \A v \in Work : v # w => ins'[v] = ins[v]
           /\ \A t \in Task : /\ ins[w].by = t => pc[t] = "ins" /\ pc'[t] = "idle"
                              /\ ins[w].by # t => pc'[t] = pc[t]
           /\ \A c \in Cpu : /\ ins[w].by = c => wpc[c] = "ins" /\ wpc'[c] = "func" /\ current[c] = w
                             /\ ins[w].by # c => wpc'[c] = wpc[c]
  <1>1. ins'[w] = Null /\ \A v \in Work : v # w => ins'[v] = ins[v]
    BY DEF IInv, TypeOK, InsertReturns
  <1>2. ASSUME NEW t \in Task
        PROVE  /\ ins[w].by = t => pc[t] = "ins" /\ pc'[t] = "idle"
               /\ ins[w].by # t => pc'[t] = pc[t]
    BY DEF IInv, InsertInv, InsertReturns
  <1>3. ASSUME NEW c \in Cpu
        PROVE  /\ ins[w].by = c => wpc[c] = "ins" /\ wpc'[c] = "func" /\ current[c] = w
               /\ ins[w].by # c => wpc'[c] = wpc[c]
    BY DEF IInv, InsertInv, InsertReturns
  <1>. QED BY <1>1, <1>2, <1>3

\* The insertions of the other works are not concerned.
LEMMA InsertEndsInv ==
    ASSUME IInv, NEW w \in Work, ins[w] # Null, InsertReturns(w), UNCHANGED current,
           \A v \in Work : v # w => timer'[v] = timer[v] /\ wqdata'[v] = wqdata[v],
           timer'[w] # "firing"
    PROVE  InsertInv'
  <1>. USE DEF IInv
  <1>1. /\ ins'[w] = Null /\ \A v \in Work : v # w => ins'[v] = ins[v]
        /\ \A t \in Task : ins[w].by # t => pc'[t] = pc[t]
        /\ \A c \in Cpu : ins[w].by # c => wpc'[c] = wpc[c]
    BY InsertEnds
  <1>2. ASSUME NEW v \in Work, v # w, ins[v] # Null
        PROVE  /\ \A t \in Task : ins[v].by = t => ins[w].by # t
               /\ \A c \in Cpu : ins[v].by = c => ins[w].by # c
    BY <1>2 DEF InsertInv
  <1>. QED BY <1>1, <1>2 DEF InsertInv

\* queue_delayed_work_on arms the timer.
LEMMA AddTimerInv ==
    ASSUME IInv, TypeOK', NEW w \in Work, AddTimer(w)
    PROVE  IInv'
  <1>. USE DEF IInv
  <1>1. /\ ins[w] # Null /\ ins[w].step = "arm" /\ ins[w].cpu \in Cpu
        /\ timer'[w] = "armed" /\ \A v \in Work : v # w => timer'[v] = timer[v]
        /\ wqdata'[w] = ins[w].cpu /\ \A v \in Work : v # w => wqdata'[v] = wqdata[v]
    BY DEF AddTimer, InsStep, TypeOK, Insertion
  <1>2. UNCHANGED <<pending, lock, worklist, current, fn, arg, cwq, on, ret, todo, done, owed>>
    BY DEF AddTimer, grabVars
  <1>3. /\ ins'[w] = Null /\ \A v \in Work : v # w => ins'[v] = ins[v]
        /\ \A t \in Task : pc'[t] = pc[t] \/ (pc[t] = "ins" /\ pc'[t] = "idle")
        /\ \A c \in Cpu : wpc'[c] = wpc[c] \/ (wpc[c] = "ins" /\ wpc'[c] = "func" /\ current[c] = w)
    BY <1>1, InsertEnds DEF AddTimer
  <1>4. OwnedBy(w, <<"ins", w>>)
    BY <1>1, SoleOwner
  <1>5. LockInv'
    BY <1>1, <1>2, <1>3 DEF LockInv
  <1>6. FrameInv'
    BY <1>2, <1>3 DEF FrameInv
  <1>7. InsertInv'
    BY <1>1, <1>2, InsertEndsInv DEF AddTimer
  <1>8. DataInv'
    <2>1. \A c \in Cpu : ~OnList(worklist[c], w) /\ ~(wpc[c] = "clear" /\ current[c] = w)
      BY <1>4 DEF OwnedBy
    <2>2. wqdata'[w] # Null
      BY <1>1, NullAssumption
    <2>. QED BY <1>1, <1>2, <1>3, <2>1, <2>2 DEF DataInv, Cancel
  <1>9. OwnerInv'
    <2>1. \A u \in Task, v \in Work : CancelOwns(u, v)' <=> CancelOwns(u, v)
      BY <1>2, <1>3 DEF CancelOwns
    <2>2. \A c \in Cpu : wpc'[c] = "clear" <=> wpc[c] = "clear"
      BY <1>3
    <2>3. ASSUME NEW v \in Work, v # w, NEW o, OwnedBy(v, o) PROVE OwnedBy(v, o)'
      BY <1>1, <1>2, <1>3, <2>1, <2>2, <2>3, OwnerKept
    <2>4. OwnedBy(w, <<"timer", w>>)'
      BY <1>1, <1>2, <1>3, <1>4, <2>1, <2>2 DEF OwnedBy
    <2>. QED BY <2>3, <2>4, OwnerIds, OwnerMoves
  <1>10. BarrierInv'
    <2>1. \A t \in Task : t # w
      BY NullAssumption
    <2>2. ASSUME NEW t \in Task, NEW c \in Cpu
          PROVE  /\ pc[t] \in {"flushwait", "cbarr"} => pc'[t] = pc[t]
                 /\ current[c] = t => wpc'[c] = wpc[c]
      BY <1>3, <2>1
    <2>. QED BY <1>2, <2>2 DEF BarrierInv
  <1>11. CancelInv'
    <2>1. \A t \in Task : pc'[t] \in {"cwait", "cwaitcpu", "cbarr", "cclear"} => pc'[t] = pc[t]
      BY <1>3
    <2>. QED BY <1>2, <2>1 DEF CancelInv, CancelOwns
  <1>12. FlushInv'
    <2>1. \A t \in Task : pc[t] = "flushwait" => pc'[t] = "flushwait"
      BY <1>3
    <2>. QED BY <1>2, <2>1, FlushKept
  <1>. QED BY <1>5, <1>6, <1>7, <1>8, <1>9, <1>10, <1>11, <1>12

\* __queue_work takes the lock of the list.
LEMMA SetDataInv ==
    ASSUME IInv, TypeOK', NEW w \in Work, SetData(w)
    PROVE  IInv'
  <1>. USE DEF IInv
  <1>1. PICK c \in Cpu : /\ ins[w] # Null /\ ins[w].step = "lock" /\ ins[w].cpu = c /\ lock[c] = Null
                         /\ lock'[c] = w /\ \A d \in Cpu : d # c => lock'[d] = lock[d]
                         /\ wqdata'[w] = c /\ \A v \in Work : v # w => wqdata'[v] = wqdata[v]
    BY DEF SetData, InsStep, TypeOK, Insertion
  <1>2. UNCHANGED <<pending, timer, worklist, current, fn, wpc, pc, arg, cwq, on, ret, todo, done, owed>>
    BY DEF SetData, taskVars, grabVars
  <1>3. /\ ins'[w] # Null /\ ins'[w].by = ins[w].by /\ ins'[w].cpu = c /\ ins'[w].step = "add"
        /\ \A v \in Work : v # w => ins'[v] = ins[v]
    <2>1. ins[w] \in Insertion
      BY <1>1 DEF TypeOK
    <2>2. PICK i : i = [ins[w] EXCEPT !.step = "add"]
      OBVIOUS
    <2>3. i \in Insertion /\ i.by = ins[w].by /\ i.cpu = c /\ i.step = "add"
      BY <1>1, <2>1, <2>2 DEF Insertion
    <2>4. ins'[w] = i /\ \A v \in Work : v # w => ins'[v] = ins[v]
      BY <2>2 DEF SetData, TypeOK
    <2>. QED BY <2>3, <2>4, NullAssumption
  <1>4. OwnedBy(w, <<"ins", w>>)
    BY <1>1, SoleOwner
  <1>5. LockInv'
    <2>1. \A t \in Task : t # w
      BY NullAssumption
    <2>2. w # Null
      BY NullAssumption
    <2>3. \A t \in Task : t # Null
      BY NullAssumption
    <2>4. \A d \in Cpu, v \in Work : lock'[d] = v <=> ins'[v] # Null /\ ins'[v].cpu = d /\ ins'[v].step = "add"
      BY <1>1, <1>3, NullAssumption DEF LockInv
    <2>5. \A d \in Cpu, t \in Task : lock'[d] = t <=> pc'[t] = "ccmp" /\ cwq'[t] = d
      BY <1>1, <1>2, <2>1, <2>3 DEF LockInv
    <2>. QED BY <1>2, <2>4, <2>5 DEF LockInv
  <1>6. FrameInv'
    BY <1>2 DEF FrameInv
  <1>7. InsertInv'
    BY <1>1, <1>2, <1>3 DEF InsertInv
  <1>8. DataInv'
    <2>1. \A d \in Cpu : ~OnList(worklist[d], w) /\ ~(wpc[d] = "clear" /\ current[d] = w)
      BY <1>4 DEF OwnedBy
    <2>2. wqdata'[w] # Null
      BY <1>1, NullAssumption
    <2>. QED BY <1>1, <1>2, <2>1, <2>2 DEF DataInv
  <1>9. OwnerInv'
    <2>1. \A u \in Task, v \in Work : CancelOwns(u, v)' <=> CancelOwns(u, v)
      BY <1>2 DEF CancelOwns
    <2>2. \A v \in Work : ins'[v] = Null <=> ins[v] = Null
      BY <1>1, <1>3
    <2>. QED BY <1>2, <2>1, <2>2, OwnerKept, OwnersKept
  <1>10. BarrierInv'
    BY <1>2 DEF BarrierInv
  <1>11. CancelInv'
    BY <1>2 DEF CancelInv, CancelOwns
  <1>12. FlushInv'
    BY <1>2, FlushKept
  <1>. QED BY <1>5, <1>6, <1>7, <1>8, <1>9, <1>10, <1>11, <1>12

\* insert_work links the entry at the tail.
LEMMA ListAddInv ==
    ASSUME IInv, TypeOK', NEW w \in Work, ListAdd(w)
    PROVE  IInv'
  <1>. USE DEF IInv
  <1>1. PICK c \in Cpu : /\ ins[w] # Null /\ ins[w].step = "add" /\ ins[w].cpu = c /\ lock[c] = w
                         /\ lock'[c] = Null /\ \A d \in Cpu : d # c => lock'[d] = lock[d]
                         /\ worklist'[c] = Append(worklist[c], w)
                         /\ \A d \in Cpu : d # c => worklist'[d] = worklist[d]
    BY DEF ListAdd, InsStep, TypeOK, LockInv, Insertion
  <1>2. UNCHANGED <<pending, wqdata, current, fn, arg, cwq, on, ret, todo, done, owed>>
    BY DEF ListAdd, grabVars
  <1>3. /\ ins'[w] = Null /\ \A v \in Work : v # w => ins'[v] = ins[v]
        /\ \A t \in Task : pc'[t] = pc[t] \/ (pc[t] = "ins" /\ pc'[t] = "idle")
        /\ \A d \in Cpu : wpc'[d] = wpc[d] \/ (wpc[d] = "ins" /\ wpc'[d] = "func" /\ current[d] = w)
    BY <1>1, InsertEnds DEF ListAdd
  <1>4. OwnedBy(w, <<"ins", w>>)
    BY <1>1, SoleOwner
  <1>5. timer'[w] = "off" /\ \A v \in Work : v # w => timer'[v] = timer[v]
    <2>1. timer[w] # "armed" /\ timer[w] \in {"off", "armed", "firing"}
      BY <1>4 DEF OwnedBy, TypeOK
    <2>. QED BY <2>1 DEF ListAdd, TypeOK
  <1>6. /\ \A y : OnList(worklist'[c], y) <=> OnList(worklist[c], y) \/ y = w
        /\ \A y, z : Before(worklist[c], y, z) => Before(worklist'[c], y, z)
        /\ Distinct(worklist'[c])
    <2>1. worklist[c] \in Seq(Item) /\ w \in Item
      BY DEF TypeOK, Item
    <2>2. ~OnList(worklist[c], w)
      BY <1>4 DEF OwnedBy
    <2>3. Distinct(worklist[c])
      BY DEF BarrierInv
    <2>4. PICK s, r : s = worklist[c] /\ r = worklist'[c]
      OBVIOUS
    <2>5. Appended(s, r, w) /\ s \in Seq(Item) /\ ~OnList(s, w) /\ Distinct(s)
      BY <1>1, <2>1, <2>2, <2>3, <2>4 DEF Appended
    <2>6. /\ \A y : OnList(r, y) <=> OnList(s, y) \/ y = w
          /\ \A y, z : Before(s, y, z) => Before(r, y, z)
          /\ Distinct(r)
      BY <2>1, <2>5, AppendList
    <2>. QED BY <2>4, <2>6
  <1>7. \A t \in Task : t # w
    BY NullAssumption
  <1>8. LockInv'
    <2>1. \A d \in Cpu, v \in Work : lock'[d] = v <=> ins'[v] # Null /\ ins'[v].cpu = d /\ ins'[v].step = "add"
      BY <1>1, <1>3, NullAssumption DEF LockInv
    <2>2. ASSUME NEW t \in Task PROVE pc'[t] \in {"clock", "ccmp"} <=> pc[t] \in {"clock", "ccmp"}
      BY <1>3
    <2>3. ASSUME NEW t \in Task PROVE pc'[t] = "ccmp" <=> pc[t] = "ccmp"
      BY <1>3
    <2>4. \A t \in Task : t # Null
      BY NullAssumption
    <2>5. \A d \in Cpu, t \in Task : lock'[d] = t <=> pc'[t] = "ccmp" /\ cwq'[t] = d
      BY <1>1, <1>2, <1>7, <2>3, <2>4 DEF LockInv
    <2>. QED BY <1>2, <2>1, <2>2, <2>3, <2>5 DEF LockInv
  <1>9. FrameInv'
    BY <1>2, <1>3 DEF FrameInv
  <1>10. InsertInv'
    BY <1>1, <1>2, <1>5, InsertEndsInv DEF ListAdd
  <1>11. DataInv'
    <2>1. wqdata[w] = c
      BY <1>1 DEF InsertInv
    <2>2. \A v \in Work, d \in Cpu : OnList(worklist'[d], v) => wqdata[v] = d
      BY <1>1, <1>6, <2>1 DEF DataInv
    <2>3. \A d \in Cpu : wpc'[d] = "clear" => wpc[d] = "clear"
      BY <1>3
    <2>4. /\ \A t \in Task : pc'[t] \in Cancel => pc[t] \in Cancel
          /\ \A t \in Task : pc'[t] = "cclear" => pc[t] = "cclear"
      BY <1>3 DEF Cancel
    <2>. QED BY <1>2, <2>2, <2>3, <2>4 DEF DataInv
  <1>12. OwnerInv'
    <2>1. \A u \in Task, v \in Work : CancelOwns(u, v)' <=> CancelOwns(u, v)
      BY <1>2, <1>3 DEF CancelOwns
    <2>2. \A d \in Cpu : wpc'[d] = "clear" <=> wpc[d] = "clear"
      BY <1>3
    <2>3. \A d \in Cpu : \A y : OnList(worklist'[d], y) <=> OnList(worklist[d], y) \/ (d = c /\ y = w)
      BY <1>1, <1>6
    <2>4. ASSUME NEW v \in Work, v # w, NEW o, OwnedBy(v, o) PROVE OwnedBy(v, o)'
      BY <1>2, <1>3, <1>5, <2>1, <2>2, <2>3, <2>4, OwnerKept
    <2>5. OwnedBy(w, <<"list", c>>)'
      BY <1>2, <1>3, <1>4, <1>5, <2>1, <2>2, <2>3 DEF OwnedBy
    <2>. QED BY <2>4, <2>5, OwnerIds, OwnerMoves
  <1>13. BarrierInv'
    <2>1. ASSUME NEW t \in Task, NEW d \in Cpu
          PROVE  /\ pc[t] \in {"flushwait", "cbarr"} => pc'[t] = pc[t]
                 /\ current[d] = t => wpc'[d] = wpc[d]
                 /\ OnList(worklist'[d], t) <=> OnList(worklist[d], t)
      BY <1>1, <1>3, <1>6, <1>7
    <2>2. \A d \in Cpu : Distinct(worklist'[d])
      BY <1>1, <1>6 DEF BarrierInv
    <2>. QED BY <1>2, <2>1, <2>2 DEF BarrierInv
  <1>14. CancelInv'
    <2>1. \A t \in Task : pc'[t] \in {"cwait", "cwaitcpu", "cbarr", "cclear"} => pc'[t] = pc[t]
      BY <1>3
    <2>2. \A t \in Task, d \in Cpu : OnList(worklist[d], t) => OnList(worklist'[d], t)
      BY <1>1, <1>6
    <2>. QED BY <1>2, <2>1, <2>2 DEF CancelInv, CancelOwns
  <1>15. FlushInv'
    <2>1. \A t \in Task : pc[t] = "flushwait" => pc'[t] = "flushwait"
      BY <1>3
    <2>2. ASSUME NEW d \in Cpu
          PROVE  /\ \A y, z : Before(worklist[d], y, z) => Before(worklist'[d], y, z)
                 /\ \A y : OnList(worklist[d], y) => OnList(worklist'[d], y)
      BY <1>1, <1>6
    <2>. QED BY <1>2, <2>1, <2>2, FlushKept
  <1>. QED BY <1>8, <1>9, <1>10, <1>11, <1>12, <1>13, <1>14, <1>15

-------------------------------------------------------------------------------
(* The worker                                                               *)

LEMMA IdleSteps ==
    ASSUME IInv, TypeOK', NEW c \in Cpu,
           \/ WorkerPrepare(c) \/ WorkerTest(c) \/ WorkerScheduled(c)
           \/ RunNext(c) /\ worklist[c] = <<>>
    PROVE  IInv'
  <1>1. UNCHANGED <<workVars, lock, worklist, current, fn, taskVars, owed>>
    BY DEF WorkerPrepare, WorkerTest, WorkerScheduled, RunNext
  <1>2. /\ \A d \in Cpu : d # c => wpc'[d] = wpc[d]
        /\ wpc[c] \in {"prep", "test", "sched", "pop"} /\ wpc'[c] \in {"prep", "test", "sched", "pop"}
    <2>1. CASE WorkerPrepare(c)
      BY <2>1 DEF WorkerPrepare, At, WGoto, IInv, TypeOK
    <2>2. CASE WorkerTest(c)
      BY <2>2 DEF WorkerTest, At, WGoto, IInv, TypeOK
    <2>3. CASE WorkerScheduled(c)
      BY <2>3 DEF WorkerScheduled, At, WGoto, IInv, TypeOK
    <2>4. CASE RunNext(c) /\ worklist[c] = <<>>
      <3>1. current[c] = Null
        BY <2>4 DEF RunNext, At, IInv, FrameInv
      <3>2. fn[c] = <<>>
        BY <3>1, Frames DEF IInv
      <3>. QED BY <2>4, <3>2 DEF RunNext, At, WGoto, IInv, TypeOK
    <2>. QED BY <2>1, <2>2, <2>3, <2>4
  <1>. QED BY <1>1, <1>2, IdleWorkerInv

\* run_workqueue takes the first entry off the list.
LEMMA RunNextInv ==
    ASSUME IInv, TypeOK', NEW c \in Cpu, RunNext(c), worklist[c] # <<>>
    PROVE  IInv'
  <1>. USE DEF IInv
  <1>1. UNCHANGED <<pending, wqdata, timer, ins, lock, pc, arg, cwq, on, ret, todo, done>>
    BY DEF RunNext, workVars, taskVars, grabVars
  <1>2. /\ wpc[c] = "pop" /\ wpc'[c] = "clear" /\ current[c] = Null /\ fn[c] = <<>>
        /\ \A d \in Cpu : d # c => /\ wpc'[d] = wpc[d] /\ current'[d] = current[d]
                                   /\ fn'[d] = fn[d] /\ worklist'[d] = worklist[d]
    <2>1. wpc[c] = "pop" /\ wpc'[c] = "clear"
      BY DEF RunNext, At, WGoto, TypeOK
    <2>2. current[c] = Null
      BY <2>1 DEF FrameInv
    <2>3. fn[c] = <<>>
      BY <2>2, Frames
    <2>4. \A d \in Cpu : d # c => /\ wpc'[d] = wpc[d] /\ current'[d] = current[d]
                                  /\ fn'[d] = fn[d] /\ worklist'[d] = worklist[d]
      BY DEF RunNext, WGoto, TypeOK
    <2>. QED BY <2>1, <2>2, <2>3, <2>4
  <1>3. PICK h : h = Head(worklist[c])
    OBVIOUS
  <1>4. /\ current'[c] = h /\ fn'[c] = <<h>> /\ worklist'[c] = Tail(worklist[c])
        /\ \A t \in Task : owed'[t] = IF <<h, "queued", c>> \in owed[t]
                                      THEN (owed[t] \ {<<h, "queued", c>>}) \cup {<<h, "running", c>>}
                                      ELSE owed[t]
    <2>1. current'[c] = h /\ worklist'[c] = Tail(worklist[c]) /\ fn'[c] = Append(fn[c], h)
      BY <1>3 DEF RunNext, TypeOK
    <2>2. Append(fn[c], h) = <<h>>
      BY <1>2
    <2>3. ASSUME NEW t \in Task
          PROVE  owed'[t] = IF <<h, "queued", c>> \in owed[t]
                            THEN (owed[t] \ {<<h, "queued", c>>}) \cup {<<h, "running", c>>}
                            ELSE owed[t]
      BY <1>3 DEF RunNext
    <2>. QED BY <2>1, <2>2, <2>3
  <1>5. /\ h \in Item /\ OnList(worklist[c], h)
        /\ \A y : OnList(worklist'[c], y) <=> OnList(worklist[c], y) /\ y # h
        /\ \A y, z : Before(worklist[c], y, z) /\ y # h => Before(worklist'[c], y, z)
        /\ \A y, z : Before(worklist[c], y, z) => OnList(worklist'[c], z)
        /\ Distinct(worklist'[c])
    <2>1. PICK s, r : s = worklist[c] /\ r = worklist'[c]
      OBVIOUS
    <2>2. Beheaded(s, r, h) /\ s \in Seq(Item) /\ Distinct(s)
      BY <1>3, <1>4, <2>1 DEF Beheaded, BarrierInv, TypeOK
    <2>3. /\ h \in Item /\ OnList(s, h)
          /\ \A y : OnList(r, y) <=> OnList(s, y) /\ y # h
          /\ \A y, z : Before(s, y, z) /\ y # h => Before(r, y, z)
          /\ \A y, z : Before(s, y, z) => OnList(r, z)
          /\ Distinct(r)
      BY <2>2, BeheadList
    <2>. QED BY <2>1, <2>3
  <1>6. h # Null
    BY <1>5, NullAssumption DEF Item
  <1>7. LockInv'
    BY <1>1 DEF LockInv
  <1>8. FrameInv'
    BY <1>2, <1>4, <1>6 DEF FrameInv
  <1>9. InsertInv'
    BY <1>1, <1>2 DEF InsertInv
  <1>10. DataInv'
    <2>1. \A w \in Work, d \in Cpu : OnList(worklist'[d], w) => OnList(worklist[d], w)
      BY <1>2, <1>5
    <2>2. h \in Work => wqdata[h] = c
      BY <1>5 DEF DataInv
    <2>3. c # Null
      BY NullAssumption
    <2>. QED BY <1>1, <1>2, <1>4, <2>1, <2>2, <2>3 DEF DataInv
  <1>11. \A u \in Task, v \in Work : CancelOwns(u, v)' <=> CancelOwns(u, v)
    BY <1>1 DEF CancelOwns
  <1>12. OwnerInv'
    <2>1. ASSUME NEW v \in Work, v # h, NEW o, OwnedBy(v, o) PROVE OwnedBy(v, o)'
      <3>1. \A d \in Cpu : OnList(worklist'[d], v) <=> OnList(worklist[d], v)
        BY <1>2, <1>5, <2>1
      <3>2. \A d \in Cpu : wpc'[d] = "clear" /\ current'[d] = v <=> wpc[d] = "clear" /\ current[d] = v
        BY <1>2, <1>4, <2>1
      <3>. QED BY <1>1, <1>11, <2>1, <3>1, <3>2, OwnerKept
    <2>2. CASE h \in Work
      <3>1. OwnedBy(h, <<"list", c>>)
        BY <2>2, <1>5, SoleOwner
      <3>2. \A d \in Cpu : ~OnList(worklist'[d], h)
        BY <1>2, <1>5, <3>1 DEF OwnedBy
      <3>3. \A d \in Cpu : wpc'[d] = "clear" /\ current'[d] = h <=> d = c
        BY <1>2, <1>4, <3>1 DEF OwnedBy
      <3>4. OwnedBy(h, <<"clear", c>>)'
        BY <1>1, <1>11, <2>2, <3>1, <3>2, <3>3 DEF OwnedBy
      <3>. QED BY <2>1, <2>2, <3>4, OwnerIds, OwnerMoves
    <2>3. CASE h \notin Work
      BY <2>1, <2>3, OwnersKept
    <2>. QED BY <2>2, <2>3
  <1>13. BarrierInv'
    <2>1. \A d \in Cpu : Distinct(worklist'[d])
      BY <1>2, <1>5 DEF BarrierInv
    <2>2. ASSUME NEW t \in Task, NEW d \in Cpu
          PROVE  /\ OnList(worklist'[d], t) <=> OnList(worklist[d], t) /\ ~(d = c /\ t = h)
                 /\ (current'[d] = t /\ wpc'[d] \in {"clear", "func"})
                      <=> (current[d] = t /\ wpc[d] \in {"clear", "func"}) \/ (d = c /\ t = h)
      BY <1>2, <1>4, <1>5
    <2>3. ~(wpc[c] \in {"clear", "func"})
      BY <1>2
    <2>. QED BY <1>1, <1>5, <2>1, <2>2, <2>3 DEF BarrierInv
  <1>14. CancelInv'
    <2>. SUFFICES ASSUME NEW t \in Task, NEW d \in Cpu, CancelOwns(t, arg[t])', current'[d] = arg'[t]
                  PROVE  \/ pc'[t] = "cwait"
                         \/ pc'[t] \in {"cwaitcpu", "cbarr"} /\ d \in todo'[t]
                         \/ pc'[t] = "cbarr" /\ OnList(worklist'[d], t)
      BY DEF CancelInv
    <2>1. CancelOwns(t, arg[t]) /\ arg[t] \in Work
      BY <1>1 DEF CancelOwns, DataInv, Cancel
    <2>2. d # c
      <3>. SUFFICES ASSUME d = c PROVE FALSE
        OBVIOUS
      <3>1. h = arg[t]
        BY <1>1, <1>4
      <3>2. OwnedBy(h, <<"list", c>>)
        BY <1>5, <2>1, <3>1, SoleOwner
      <3>. QED BY <2>1, <3>1, <3>2 DEF OwnedBy
    <2>. QED BY <1>1, <1>2, <2>1, <2>2 DEF CancelInv
  <1>15. FlushInv'
    <2>. SUFFICES ASSUME NEW t \in Task, NEW w \in Work, NEW d \in Cpu
                  PROVE  /\ <<w, "queued", d>> \in owed'[t] =>
                              pc'[t] = "flushwait" /\ Before(worklist'[d], w, t)
                         /\ <<w, "running", d>> \in owed'[t] =>
                              pc'[t] = "flushwait" /\ current'[d] = w /\ OnList(worklist'[d], t)
      BY DEF FlushInv
    <2>1. ASSUME <<w, "queued", d>> \in owed'[t]
          PROVE  pc'[t] = "flushwait" /\ Before(worklist'[d], w, t)
      <3>0. <<w, "queued", d>> # <<h, "running", c>>
        OBVIOUS
      <3>1. <<w, "queued", d>> \in owed[t] /\ ~(w = h /\ d = c)
        <4>1. CASE <<h, "queued", c>> \in owed[t]
          <5>1. owed'[t] = (owed[t] \ {<<h, "queued", c>>}) \cup {<<h, "running", c>>}
            BY <1>4, <4>1
          <5>2. <<w, "queued", d>> \in owed[t] /\ <<w, "queued", d>> # <<h, "queued", c>>
            BY <2>1, <3>0, <5>1
          <5>. QED BY <5>2
        <4>2. CASE <<h, "queued", c>> \notin owed[t]
          <5>1. owed'[t] = owed[t]
            BY <1>4, <4>2
          <5>. QED BY <2>1, <4>2, <5>1
        <4>. QED BY <4>1, <4>2
      <3>2. pc[t] = "flushwait" /\ Before(worklist[d], w, t)
        BY <3>1 DEF FlushInv
      <3>. QED BY <1>1, <1>2, <1>5, <3>1, <3>2
    <2>2. ASSUME <<w, "running", d>> \in owed'[t]
          PROVE  pc'[t] = "flushwait" /\ current'[d] = w /\ OnList(worklist'[d], t)
      <3>1. \/ <<w, "running", d>> \in owed[t]
            \/ w = h /\ d = c /\ <<h, "queued", c>> \in owed[t]
        <4>1. CASE <<h, "queued", c>> \in owed[t]
          <5>1. owed'[t] = (owed[t] \ {<<h, "queued", c>>}) \cup {<<h, "running", c>>}
            BY <1>4, <4>1
          <5>2. <<w, "running", d>> \in owed[t] \/ <<w, "running", d>> = <<h, "running", c>>
            BY <2>2, <5>1
          <5>. QED BY <4>1, <5>2
        <4>2. CASE <<h, "queued", c>> \notin owed[t]
          <5>1. owed'[t] = owed[t]
            BY <1>4, <4>2
          <5>. QED BY <2>2, <5>1
        <4>. QED BY <4>1, <4>2
      <3>2. CASE <<w, "running", d>> \in owed[t]
        <4>1. pc[t] = "flushwait" /\ current[d] = w /\ OnList(worklist[d], t)
          BY <3>2 DEF FlushInv
        <4>2. w # Null
          BY NullAssumption
        <4>3. d # c
          BY <1>2, <4>1, <4>2
        <4>. QED BY <1>1, <1>2, <4>1, <4>3
      <3>3. CASE w = h /\ d = c /\ <<h, "queued", c>> \in owed[t]
        <4>1. pc[t] = "flushwait" /\ Before(worklist[c], h, t)
          BY <3>3 DEF FlushInv
        <4>. QED BY <1>1, <1>4, <1>5, <3>3, <4>1
      <3>. QED BY <3>1, <3>2, <3>3
    <2>. QED BY <2>1, <2>2
  <1>. QED BY <1>7, <1>8, <1>9, <1>10, <1>12, <1>13, <1>14, <1>15

\* work_clear_pending gives the bit up.
LEMMA ClearPendingInv ==
    ASSUME IInv, TypeOK', NEW c \in Cpu, ClearPending(c)
    PROVE  IInv'
  <1>. USE DEF IInv
  <1>1. UNCHANGED <<wqdata, timer, ins, lock, worklist, current, fn, pc, arg, cwq, on, ret, todo, done, owed>>
    BY DEF ClearPending, taskVars, grabVars
  <1>2. wpc[c] = "clear" /\ wpc'[c] = "func" /\ \A d \in Cpu : d # c => wpc'[d] = wpc[d]
    BY DEF ClearPending, At, WGoto, TypeOK
  <1>3. current[c] # Null
    BY <1>2 DEF FrameInv
  <1>4. \A w \in Work : pending'[w] = IF current[c] = w THEN FALSE ELSE pending[w]
    BY <1>3, Frames DEF ClearPending
  <1>5. LockInv'
    BY <1>1 DEF LockInv
  <1>6. FrameInv'
    BY <1>1, <1>2 DEF FrameInv
  <1>7. InsertInv'
    BY <1>1, <1>2 DEF InsertInv
  <1>8. DataInv'
    BY <1>1, <1>2 DEF DataInv
  <1>9. OwnerInv'
    <2>1. \A u \in Task, v \in Work : CancelOwns(u, v)' <=> CancelOwns(u, v)
      BY <1>1 DEF CancelOwns
    <2>2. ASSUME NEW v \in Work, v # current[c], NEW o, OwnedBy(v, o) PROVE OwnedBy(v, o)'
      <3>1. \A d \in Cpu : wpc'[d] = "clear" /\ current'[d] = v <=> wpc[d] = "clear" /\ current[d] = v
        BY <1>1, <1>2, <2>2
      <3>2. pending'[v] = pending[v]
        BY <1>4, <2>2
      <3>. QED BY <1>1, <2>1, <2>2, <3>1, <3>2, OwnerKept
    <2>3. CASE current[c] \in Work
      <3>1. PICK w \in Work : w = current[c]
        BY <2>3
      <3>2. OwnedBy(w, <<"clear", c>>)
        BY <1>2, <3>1, SoleOwner
      <3>3. ~pending'[w]
        BY <1>4, <3>1
      <3>4. \A d \in Cpu : ~(wpc'[d] = "clear" /\ current'[d] = w)
        BY <1>1, <1>2, <3>2 DEF OwnedBy
      <3>5. OwnedBy(w, <<"none", w>>)'
        BY <1>1, <2>1, <3>2, <3>3, <3>4 DEF OwnedBy
      <3>. QED BY <2>2, <3>1, <3>5, OwnerIds, OwnerMoves
    <2>4. CASE current[c] \notin Work
      BY <2>2, <2>4, OwnersKept
    <2>. QED BY <2>3, <2>4
  <1>10. BarrierInv'
    <2>1. \A d \in Cpu : wpc'[d] \in {"clear", "func"} <=> wpc[d] \in {"clear", "func"}
      BY <1>2
    <2>. QED BY <1>1, <2>1 DEF BarrierInv
  <1>11. CancelInv'
    BY <1>1 DEF CancelInv, CancelOwns
  <1>12. FlushInv'
    BY <1>1, FlushKept
  <1>. QED BY <1>5, <1>6, <1>7, <1>8, <1>9, <1>10, <1>11, <1>12

\* A function returns; that of a barrier has completed it.
LEMMA FuncReturnsInv ==
    ASSUME IInv, TypeOK', NEW c \in Cpu, FuncReturns(c)
    PROVE  IInv'
  <1>. USE DEF IInv
  <1>1. UNCHANGED <<pending, wqdata, timer, ins, lock, worklist, current, fn, pc, arg, cwq, on, ret, todo, owed>>
    BY DEF FuncReturns, workVars, grabVars
  <1>2. wpc[c] = "func" /\ wpc'[c] = "fin" /\ \A d \in Cpu : d # c => wpc'[d] = wpc[d]
    BY DEF FuncReturns, At, WGoto, TypeOK
  <1>3. current[c] # Null
    BY <1>2 DEF FrameInv
  <1>4. \A t \in Task : done'[t] <=> done[t] \/ current[c] = t
    BY <1>3, Frames DEF FuncReturns
  <1>5. LockInv'
    BY <1>1 DEF LockInv
  <1>6. FrameInv'
    BY <1>1, <1>2 DEF FrameInv
  <1>7. InsertInv'
    BY <1>1, <1>2 DEF InsertInv
  <1>8. DataInv'
    BY <1>1, <1>2 DEF DataInv
  <1>9. OwnerInv'
    <2>1. \A u \in Task, v \in Work : CancelOwns(u, v)' <=> CancelOwns(u, v)
      BY <1>1 DEF CancelOwns
    <2>2. \A d \in Cpu : wpc'[d] = "clear" <=> wpc[d] = "clear"
      BY <1>2
    <2>. QED BY <1>1, <2>1, <2>2, OwnerKept, OwnersKept
  <1>10. BarrierInv'
    <2>1. ASSUME NEW d \in Cpu PROVE wpc'[d] \in {"clear", "func"} <=> wpc[d] \in {"clear", "func"} /\ d # c
      BY <1>2
    <2>2. wpc[c] \in {"clear", "func"}
      BY <1>2
    <2>. QED BY <1>1, <1>4, <2>1, <2>2 DEF BarrierInv
  <1>11. CancelInv'
    BY <1>1 DEF CancelInv, CancelOwns
  <1>12. FlushInv'
    BY <1>1, FlushKept
  <1>. QED BY <1>5, <1>6, <1>7, <1>8, <1>9, <1>10, <1>11, <1>12

\* The worker is done with its current work.
LEMMA FuncDoneInv ==
    ASSUME IInv, TypeOK', NEW c \in Cpu, FuncDone(c)
    PROVE  IInv'
  <1>. USE DEF IInv
  <1>1. UNCHANGED <<pending, wqdata, timer, ins, lock, worklist, pc, arg, cwq, on, ret, todo, done>>
    BY DEF FuncDone, workVars, taskVars, grabVars
  <1>2. /\ wpc[c] = "fin" /\ wpc'[c] = "pop" /\ current'[c] = Null
        /\ \A d \in Cpu : d # c => wpc'[d] = wpc[d] /\ current'[d] = current[d] /\ fn'[d] = fn[d]
    BY DEF FuncDone, At, WGoto, TypeOK
  <1>3. current[c] # Null
    BY <1>2 DEF FrameInv
  <1>4. fn'[c] = <<>> /\ \A t \in Task : owed'[t] = owed[t] \ {<<current[c], "running", c>>}
    <2>1. Last(fn[c]) = current[c] /\ Front(fn[c]) = <<>>
      BY <1>3, Frames
    <2>. QED BY <2>1 DEF FuncDone, TypeOK
  <1>5. LockInv'
    BY <1>1 DEF LockInv
  <1>6. FrameInv'
    BY <1>2, <1>4 DEF FrameInv
  <1>7. InsertInv'
    BY <1>1, <1>2 DEF InsertInv
  <1>8. \A w \in Work, d \in Cpu : current'[d] = w => current[d] = w /\ d # c
    BY <1>2, NullAssumption
  <1>9. DataInv'
    BY <1>1, <1>2, <1>8 DEF DataInv
  <1>10. OwnerInv'
    <2>1. \A u \in Task, v \in Work : CancelOwns(u, v)' <=> CancelOwns(u, v)
      BY <1>1 DEF CancelOwns
    <2>2. \A d \in Cpu, v \in Work : wpc'[d] = "clear" /\ current'[d] = v <=> wpc[d] = "clear" /\ current[d] = v
      BY <1>2
    <2>. QED BY <1>1, <2>1, <2>2, OwnerKept, OwnersKept
  <1>11. BarrierInv'
    <2>1. \A d \in Cpu : wpc'[d] \in {"clear", "func"} => wpc'[d] = wpc[d] /\ current'[d] = current[d]
      BY <1>2
    <2>. QED BY <1>1, <2>1 DEF BarrierInv
  <1>12. CancelInv'
    <2>1. \A t \in Task : CancelOwns(t, arg[t])' => CancelOwns(t, arg[t]) /\ arg[t] \in Work
      BY <1>1 DEF CancelOwns, DataInv, Cancel
    <2>. QED BY <1>1, <1>8, <2>1 DEF CancelInv
  <1>13. FlushInv'
    <2>1. ASSUME NEW t \in Task, NEW w \in Work, NEW d \in Cpu, <<w, "running", d>> \in owed'[t]
          PROVE  current[d] = w => current'[d] = w
      <3>1. ~(w = current[c] /\ d = c)
        BY <1>4, <2>1
      <3>. QED BY <1>2, <3>1
    <2>2. \A t \in Task : owed'[t] \subseteq owed[t]
      BY <1>4
    <2>. QED BY <1>1, <2>1, <2>2, FlushKept
  <1>. QED BY <1>5, <1>6, <1>7, <1>9, <1>10, <1>11, <1>12, <1>13

-------------------------------------------------------------------------------
(* flush_workqueue                                                          *)

\* A barrier is put at the tail of a list; what is before it is owed.
LEMMA FlushBarrierInv ==
    ASSUME IInv, TypeOK', NEW t \in Task, NEW c \in Cpu, FlushCpu(t, c), Active(c)
    PROVE  IInv'
  <1>. USE DEF IInv
  <1>1. UNCHANGED <<pending, wqdata, timer, ins, lock, current, fn, wpc, arg, cwq, on, ret>>
    BY DEF FlushCpu, workVars, grabVars
  <1>2. /\ pc[t] = "flush" /\ pc'[t] = "flushwait" /\ done'[t] = FALSE /\ owed'[t] = ToFlush(c)
        /\ \A u \in Task : u # t => /\ pc'[u] = pc[u] /\ done'[u] = done[u]
                                    /\ owed'[u] = owed[u] /\ todo'[u] = todo[u]
        /\ \A d \in Cpu : d # c => worklist'[d] = worklist[d]
        /\ worklist'[c] = Append(worklist[c], t)
    BY DEF FlushCpu, InsertBarrier, Goto, TypeOK
  <1>3. \A d \in Cpu : ~OnList(worklist[d], t) /\ ~(current[d] = t /\ wpc[d] \in {"clear", "func"})
    BY <1>2 DEF BarrierInv
  <1>4. /\ \A y : OnList(worklist'[c], y) <=> OnList(worklist[c], y) \/ y = t
        /\ \A y, z : Before(worklist[c], y, z) => Before(worklist'[c], y, z)
        /\ \A y : OnList(worklist[c], y) => Before(worklist'[c], y, t)
        /\ Distinct(worklist'[c])
    <2>1. PICK s, r : s = worklist[c] /\ r = worklist'[c]
      OBVIOUS
    <2>2. Appended(s, r, t) /\ s \in Seq(Item) /\ ~OnList(s, t) /\ Distinct(s) /\ t \in Item
      BY <1>2, <1>3, <2>1 DEF Appended, BarrierInv, TypeOK, Item
    <2>3. /\ \A y : OnList(r, y) <=> OnList(s, y) \/ y = t
          /\ \A y, z : Before(s, y, z) => Before(r, y, z)
          /\ \A y : OnList(s, y) => Before(r, y, t)
          /\ Distinct(r)
      BY <2>2, AppendList
    <2>. QED BY <2>1, <2>3
  <1>5. \A w \in Work : w # t
    BY NullAssumption
  <1>6. LockInv'
    BY <1>1, <1>2 DEF LockInv
  <1>7. FrameInv'
    BY <1>1 DEF FrameInv
  <1>8. InsertInv'
    BY <1>1, <1>2 DEF InsertInv
  <1>9. \A w \in Work, d \in Cpu : OnList(worklist'[d], w) <=> OnList(worklist[d], w)
    BY <1>2, <1>4, <1>5
  <1>10. DataInv'
    BY <1>1, <1>2, <1>9 DEF DataInv, Cancel
  <1>11. OwnerInv'
    <2>1. \A u \in Task, v \in Work : CancelOwns(u, v)' <=> CancelOwns(u, v)
      BY <1>1, <1>2, ClaimsKept
    <2>. QED BY <1>1, <1>9, <2>1, OwnerKept, OwnersKept
  <1>12. BarrierInv'
    <2>1. \A d \in Cpu : Distinct(worklist'[d])
      BY <1>2, <1>4 DEF BarrierInv
    <2>2. \A u \in Task, d \in Cpu : OnList(worklist'[d], u) <=> OnList(worklist[d], u) \/ (d = c /\ u = t)
      BY <1>2, <1>4
    <2>. QED BY <1>1, <1>2, <1>3, <2>1, <2>2 DEF BarrierInv
  <1>13. CancelInv'
    <2>1. \A u \in Task, d \in Cpu : OnList(worklist[d], u) => OnList(worklist'[d], u)
      BY <1>2, <1>4
    <2>2. \A u \in Task : CancelOwns(u, arg[u])' => u # t /\ CancelOwns(u, arg[u])
      BY <1>1, <1>2 DEF CancelOwns
    <2>. QED BY <1>1, <1>2, <2>1, <2>2 DEF CancelInv
  <1>14. FlushInv'
    <2>. SUFFICES ASSUME NEW u \in Task, NEW w \in Work, NEW d \in Cpu
                  PROVE  /\ <<w, "queued", d>> \in owed'[u] =>
                              pc'[u] = "flushwait" /\ Before(worklist'[d], w, u)
                         /\ <<w, "running", d>> \in owed'[u] =>
                              pc'[u] = "flushwait" /\ current'[d] = w /\ OnList(worklist'[d], u)
      BY DEF FlushInv
    <2>1. CASE u # t
      <3>1. /\ \A y, z : Before(worklist[d], y, z) => Before(worklist'[d], y, z)
            /\ \A y : OnList(worklist[d], y) => OnList(worklist'[d], y)
        BY <1>2, <1>4
      <3>. QED BY <1>1, <1>2, <2>1, <3>1 DEF FlushInv
    <2>2. CASE u = t
      <3>1. ASSUME <<w, "queued", d>> \in ToFlush(c)
            PROVE  d = c /\ OnList(worklist[c], w)
        BY <3>1 DEF ToFlush
      <3>2. ASSUME <<w, "running", d>> \in ToFlush(c)
            PROVE  d = c /\ current[c] = w
        <4>1. d = c /\ OnList(fn[c], w)
          BY <3>2 DEF ToFlush
        <4>2. current[c] # Null
          <5>. SUFFICES ASSUME current[c] = Null PROVE FALSE
            OBVIOUS
          <5>1. fn[c] = <<>>
            BY Frames
          <5>. QED BY <4>1, <5>1 DEF OnList
        <4>3. fn[c] = <<current[c]>>
          BY <4>2, Frames
        <4>4. current[c] = w
          BY <4>1, <4>3 DEF OnList
        <4>. QED BY <4>1, <4>4
      <3>. QED BY <1>1, <1>2, <1>4, <2>2, <3>1, <3>2
    <2>. QED BY <2>1, <2>2
  <1>. QED BY <1>6, <1>7, <1>8, <1>10, <1>11, <1>12, <1>13, <1>14

\* The barrier of a task is completed: nothing was left before it.
LEMMA CompletedInv ==
    ASSUME IInv, TypeOK', NEW t \in Task, FlushWait(t) \/ CancelBarrier(t)
    PROVE  IInv'
  <1>. USE DEF IInv
  <1>1. UNCHANGED <<pending, wqdata, timer, ins, lock, worklist, current, fn, wpc, arg, cwq, on, ret, todo, owed>>
    BY DEF FlushWait, CancelBarrier, workVars, cwqVars, grabVars
  <1>2. /\ done[t] /\ done'[t] = FALSE
        /\ \A u \in Task : u # t => pc'[u] = pc[u] /\ done'[u] = done[u]
        /\ \/ pc[t] = "flushwait" /\ pc'[t] = "flushed"
           \/ pc[t] = "cbarr" /\ pc'[t] = "cwaitcpu"
    BY DEF FlushWait, CancelBarrier, Goto, TypeOK
  <1>3. \A d \in Cpu : ~OnList(worklist[d], t) /\ ~(current[d] = t /\ wpc[d] \in {"clear", "func"})
    BY <1>2 DEF BarrierInv
  <1>4. LockInv'
    BY <1>1, <1>2 DEF LockInv
  <1>5. FrameInv'
    BY <1>1 DEF FrameInv
  <1>6. InsertInv'
    BY <1>1, <1>2 DEF InsertInv
  <1>7. DataInv'
    BY <1>1, <1>2 DEF DataInv, Cancel
  <1>8. \A u \in Task, w \in Work : CancelOwns(u, w)' <=> CancelOwns(u, w)
    BY <1>1, <1>2 DEF CancelOwns
  <1>9. OwnerInv'
    BY <1>1, <1>8, OwnerKept, OwnersKept
  <1>10. BarrierInv'
    BY <1>1, <1>2, <1>3 DEF BarrierInv
  <1>11. CancelInv'
    <2>1. \A u \in Task : CancelOwns(u, arg[u])' => CancelOwns(u, arg[u])
      BY <1>1, <1>2 DEF CancelOwns
    <2>. QED BY <1>1, <1>2, <1>3, <2>1 DEF CancelInv, CancelOwns
  <1>12. FlushInv'
    <2>1. owed[t] = {}
      <3>1. CASE pc[t] = "cbarr"
        BY <3>1, NothingOwed
      <3>2. CASE pc[t] = "flushwait"
        <4>. SUFFICES ASSUME NEW o \in owed[t] PROVE FALSE
          OBVIOUS
        <4>1. PICK w \in Work, k \in {"queued", "running"}, c \in Cpu : o = <<w, k, c>>
          BY DEF TypeOK, Owed
        <4>2. CASE k = "queued"
          <5>1. Before(worklist[c], w, t)
            BY <4>1, <4>2 DEF FlushInv
          <5>. QED BY <1>3, <5>1 DEF Before, OnList
        <4>3. CASE k = "running"
          BY <1>3, <4>1, <4>3 DEF FlushInv
        <4>. QED BY <4>1, <4>2, <4>3
      <3>. QED BY <1>2, <3>1, <3>2
    <2>2. \A u \in Task : pc[u] = "flushwait" /\ owed'[u] # {} => pc'[u] = "flushwait"
      BY <1>1, <1>2, <2>1
    <2>. QED BY <1>1, <2>2, FlushKept
  <1>. QED BY <1>4, <1>5, <1>6, <1>7, <1>9, <1>10, <1>11, <1>12

-------------------------------------------------------------------------------
(* __cancel_work_timer                                                      *)

\* try_to_grab_pending takes the lock of the cwq it has read, or finds another
\* one in work->data and leaves the work alone.
LEMMA GrabLockInv ==
    ASSUME IInv, TypeOK', NEW t \in Task,
           \/ GrabLock(t) /\ Entry(arg[t]) # {}
           \/ GrabCompare(t) /\ cwq[t] # wqdata[arg[t]]
    PROVE  IInv'
  <1>. USE DEF IInv
  <1>1. UNCHANGED <<pending, wqdata, timer, ins, worklist, current, fn, wpc, done, arg, todo, owed>>
    BY DEF GrabLock, GrabCompare, workVars
  <1>2. \A u \in Task : u # t => /\ pc'[u] = pc[u] /\ cwq'[u] = cwq[u]
                                 /\ on'[u] = on[u] /\ ret'[u] = ret[u]
    BY DEF GrabLock, GrabCompare, Grabbed, Goto, TypeOK
  <1>3. pc[t] \in {"clock", "ccmp"}
    BY DEF GrabLock, GrabCompare
  <1>4. PICK d \in Cpu : d = cwq[t]
    BY <1>3 DEF LockInv
  <1>5. \/ /\ pc[t] = "clock" /\ lock[d] = Null /\ lock'[d] = t /\ pc'[t] = "ccmp"
           /\ cwq'[t] = d /\ on'[t] \in Cpu
        \/ pc[t] = "ccmp" /\ lock'[d] = Null /\ pc'[t] = "cwait" /\ ret'[t] = -1
    <2>1. CASE GrabLock(t) /\ Entry(arg[t]) # {}
      BY <2>1, <1>4 DEF GrabLock, Goto, TypeOK
    <2>2. CASE GrabCompare(t) /\ cwq[t] # wqdata[arg[t]]
      BY <2>2, <1>4 DEF GrabCompare, Grabbed, Goto, TypeOK
    <2>. QED BY <2>1, <2>2
  <1>6. \A c \in Cpu : c # d => lock'[c] = lock[c]
    BY <1>4 DEF GrabLock, GrabCompare, TypeOK
  <1>7. LockInv'
    <2>1. \A w \in Work : w # t /\ w # Null
      BY NullAssumption
    <2>2. \A u \in Task : u # Null
      BY NullAssumption
    <2>3. pc[t] = "ccmp" => lock[d] = t
      BY <1>4 DEF LockInv
    <2>4. ASSUME NEW c \in Cpu, NEW w \in Work
          PROVE  lock'[c] = w <=> ins'[w] # Null /\ ins'[w].cpu = c /\ ins'[w].step = "add"
      <3>1. lock'[c] = w <=> lock[c] = w
        BY <1>5, <1>6, <2>1, <2>3
      <3>. QED BY <1>1, <3>1 DEF LockInv
    <2>5. ASSUME NEW c \in Cpu, NEW u \in Task
          PROVE  lock'[c] = u <=> pc'[u] = "ccmp" /\ cwq'[u] = c
      <3>1. CASE u = t
        BY <3>1, <1>4, <1>5, <1>6, <2>2 DEF LockInv
      <3>2. CASE u # t
        <4>1. lock'[c] = u <=> lock[c] = u
          BY <3>2, <1>5, <1>6, <2>2, <2>3
        <4>. QED BY <3>2, <1>2, <4>1 DEF LockInv
      <3>. QED BY <3>1, <3>2
    <2>6. ASSUME NEW u \in Task
          PROVE  /\ pc'[u] \in {"clock", "ccmp"} => cwq'[u] \in Cpu
                 /\ pc'[u] = "ccmp" => on'[u] \in Cpu
      BY <1>2, <1>5 DEF LockInv
    <2>. QED BY <2>4, <2>5, <2>6 DEF LockInv
  <1>8. pc'[t] \in {"ccmp", "cwait"}
    BY <1>5
  <1>9. owed'[t] = {}
    BY <1>1, <1>3, NothingOwed
  <1>10. arg'[t] \in Work
    BY <1>1, <1>3 DEF DataInv, Cancel
  <1>11. \A w \in Work : ~CancelOwns(t, w)' /\ ~CancelOwns(t, w)
    BY <1>5 DEF CancelOwns
  <1>12. ~CancelOwns(t, arg[t])'
    BY <1>5 DEF CancelOwns
  <1>. QED BY <1>1, <1>2, <1>3, <1>7, <1>8, <1>9, <1>10, <1>11, <1>12, LocalInv

\* A canceller takes the bit of w over from its timer, from its list, or from
\* nobody.
LEMMA GrabbedInv ==
    ASSUME IInv, TypeOK', LockInv', NEW t \in Task, NEW w \in Work,
           UNCHANGED <<wqdata, ins, current, fn, wpc, arg, todo, done>>,
           pc[t] \in {"cdel", "cgrab", "ccmp"}, pc'[t] = "cwait",
           \A u \in Task : u # t => pc'[u] = pc[u] /\ ret'[u] = ret[u],
           pending'[w], timer'[w] # "armed", timer'[w] = "firing" => timer[w] = "firing",
           \A v \in Work : v # w => (pending'[v] <=> pending[v]) /\ timer'[v] = timer[v],
           ins[w] = Null, \A c \in Cpu : ~(wpc[c] = "clear" /\ current[c] = w),
           \A u \in Task : ~CancelOwns(u, w), CancelOwns(t, w)',
           \A c \in Cpu, y \in Item : OnList(worklist'[c], y) <=> OnList(worklist[c], y) /\ y # w,
           \A c \in Cpu : Distinct(worklist'[c]),
           \A u \in Task : owed'[u] \subseteq owed[u],
           \A u \in Task, v \in Work, c \in Cpu : <<v, "queued", c>> \in owed'[u] =>
              (Before(worklist[c], v, u) => Before(worklist'[c], v, u))
    PROVE  IInv'
  <1>. USE DEF IInv
  <1>1. /\ \A u \in Task, c \in Cpu : OnList(worklist'[c], u) <=> OnList(worklist[c], u)
        /\ \A v \in Work, c \in Cpu : OnList(worklist'[c], v) <=> OnList(worklist[c], v) /\ v # w
    BY NullAssumption DEF Item
  <1>2. FrameInv'
    BY DEF FrameInv
  <1>3. InsertInv'
    BY DEF InsertInv
  <1>4. DataInv'
    BY <1>1 DEF DataInv, Cancel
  <1>5. \A u \in Task, v \in Work : u # t => (CancelOwns(u, v)' <=> CancelOwns(u, v))
    BY DEF CancelOwns
  <1>6. arg[t] = w /\ \A v \in Work : v # w => ~CancelOwns(t, v) /\ ~CancelOwns(t, v)'
    BY DEF CancelOwns
  <1>7. OwnerInv'
    <2>1. ASSUME NEW v \in Work, v # w, NEW o, OwnedBy(v, o) PROVE OwnedBy(v, o)'
      <3>1. \A u \in Task : CancelOwns(u, v)' <=> CancelOwns(u, v)
        BY <1>5, <1>6, <2>1
      <3>. QED BY <1>1, <2>1, <3>1, OwnerKept
    <2>2. \A u \in Task : CancelOwns(u, w)' <=> u = t
      BY <1>5
    <2>3. OwnedBy(w, <<"cancel", t>>)'
      BY <1>1, <2>2 DEF OwnedBy
    <2>. QED BY <2>1, <2>3, OwnerIds, OwnerMoves
  <1>8. BarrierInv'
    BY <1>1 DEF BarrierInv
  <1>9. CancelInv'
    <2>. SUFFICES ASSUME NEW u \in Task, NEW c \in Cpu, CancelOwns(u, arg[u])', current[c] = arg[u], u # t
                  PROVE  \/ pc'[u] = "cwait"
                         \/ pc'[u] \in {"cwaitcpu", "cbarr"} /\ c \in todo[u]
                         \/ pc'[u] = "cbarr" /\ OnList(worklist'[c], u)
      BY DEF CancelInv
    <2>1. CancelOwns(u, arg[u])
      BY DEF CancelOwns
    <2>. QED BY <1>1, <2>1 DEF CancelInv
  <1>10. FlushInv'
    <2>1. \A u \in Task : pc[u] = "flushwait" /\ owed'[u] # {} => pc'[u] = "flushwait"
      OBVIOUS
    <2>. QED BY <1>1, <2>1, FlushKept
  <1>. QED BY <1>2, <1>3, <1>4, <1>7, <1>8, <1>9, <1>10

\* del_timer found the timer pending, or the bit was clear.
LEMMA GrabBitInv ==
    ASSUME IInv, TypeOK', NEW t \in Task,
           \/ CancelDelTimer(t) /\ timer[arg[t]] = "armed"
           \/ GrabBit(t) /\ ~pending[arg[t]]
    PROVE  IInv'
  <1>. USE DEF IInv
  <1>1. UNCHANGED <<wqdata, ins, lock, worklist, current, fn, wpc, arg, todo, done, owed>>
    BY DEF CancelDelTimer, GrabBit, cwqVars
  <1>2. /\ pc[t] \in {"cdel", "cgrab"} /\ pc'[t] = "cwait" /\ ret'[t] \in {0, 1}
        /\ \A u \in Task : u # t => /\ pc'[u] = pc[u] /\ ret'[u] = ret[u]
                                    /\ cwq'[u] = cwq[u] /\ on'[u] = on[u]
    BY DEF CancelDelTimer, GrabBit, Grabbed, Goto, TypeOK
  <1>3. PICK w \in Work : w = arg[t]
    BY <1>2 DEF DataInv, Cancel
  <1>4. LockInv'
    BY <1>1, <1>2 DEF LockInv
  <1>5. /\ pending'[w] /\ timer'[w] # "armed" /\ (timer'[w] = "firing" => timer[w] = "firing")
        /\ \A v \in Work : v # w => (pending'[v] <=> pending[v]) /\ timer'[v] = timer[v]
        /\ ins[w] = Null /\ \A c \in Cpu : ~(wpc[c] = "clear" /\ current[c] = w)
        /\ \A u \in Task : ~CancelOwns(u, w)
        /\ \A c \in Cpu : ~OnList(worklist[c], w)
    <2>1. CASE CancelDelTimer(t) /\ timer[arg[t]] = "armed"
      <3>1. /\ pending' = pending /\ timer'[w] = "off" /\ timer[w] = "armed"
            /\ \A v \in Work : v # w => timer'[v] = timer[v]
        BY <2>1, <1>3 DEF CancelDelTimer, TypeOK
      <3>2. OwnedBy(w, <<"timer", w>>)
        BY <3>1, SoleOwner
      <3>. QED BY <3>1, <3>2 DEF OwnedBy
    <2>2. CASE GrabBit(t) /\ ~pending[arg[t]]
      <3>1. /\ timer' = timer /\ pending'[w] /\ ~pending[w]
            /\ \A v \in Work : v # w => pending'[v] = pending[v]
        BY <2>2, <1>3 DEF GrabBit, TypeOK
      <3>2. OwnedBy(w, <<"none", w>>)
        BY <3>1, NoOwner
      <3>. QED BY <3>1, <3>2 DEF OwnedBy
    <2>. QED BY <2>1, <2>2
  <1>6. CancelOwns(t, w)'
    BY <1>1, <1>2, <1>3 DEF CancelOwns
  <1>7. /\ \A c \in Cpu, y \in Item : OnList(worklist'[c], y) <=> OnList(worklist[c], y) /\ y # w
        /\ \A c \in Cpu : Distinct(worklist'[c])
    BY <1>1, <1>5 DEF BarrierInv
  <1>8. /\ \A u \in Task : owed'[u] \subseteq owed[u]
        /\ \A c \in Cpu : worklist'[c] = worklist[c]
    BY <1>1
  <1>. HIDE DEF IInv
  <1>. QED BY <1>1, <1>2, <1>4, <1>5, <1>6, <1>7, <1>8, GrabbedInv

\* The work is taken off the list whose lock is held.
LEMMA GrabListInv ==
    ASSUME IInv, TypeOK', NEW t \in Task, GrabIsExact, GrabCompare(t), cwq[t] = wqdata[arg[t]]
    PROVE  IInv'
  <1>. USE DEF IInv
  <1>1. UNCHANGED <<pending, wqdata, timer, ins, current, fn, wpc, arg, todo, done>>
    BY DEF GrabCompare, workVars
  <1>2. /\ pc[t] = "ccmp" /\ pc'[t] = "cwait" /\ ret'[t] = 1
        /\ \A u \in Task : u # t => /\ pc'[u] = pc[u] /\ ret'[u] = ret[u]
                                    /\ cwq'[u] = cwq[u] /\ on'[u] = on[u]
    BY DEF GrabCompare, Grabbed, Goto, TypeOK
  <1>3. PICK w \in Work : w = arg[t]
    BY <1>2 DEF DataInv, Cancel
  <1>4. PICK d \in Cpu : d = cwq[t]
    BY <1>2 DEF LockInv
  <1>5. Entry(w) = {d}
    BY <1>2, <1>3, <1>4 DEF GrabIsExact
  <1>6. OwnedBy(w, <<"list", d>>)
    <2>1. OnList(worklist[d], w)
      BY <1>5 DEF Entry
    <2>. QED BY <2>1, SoleOwner
  <1>7. /\ pending[w] /\ timer[w] # "armed" /\ ins[w] = Null
        /\ \A c \in Cpu : ~(wpc[c] = "clear" /\ current[c] = w)
        /\ \A u \in Task : ~CancelOwns(u, w)
    BY <1>6 DEF OwnedBy
  <1>8. lock'[d] = Null /\ \A c \in Cpu : c # d => lock'[c] = lock[c]
    BY <1>4 DEF GrabCompare, TypeOK
  <1>9. LockInv'
    <2>1. \A v \in Work : v # t /\ v # Null
      BY NullAssumption
    <2>2. \A u \in Task : u # Null
      BY NullAssumption
    <2>3. lock[d] = t
      BY <1>2, <1>4 DEF LockInv
    <2>4. ASSUME NEW c \in Cpu, NEW v \in Work
          PROVE  lock'[c] = v <=> ins'[v] # Null /\ ins'[v].cpu = c /\ ins'[v].step = "add"
      <3>1. lock'[c] = v <=> lock[c] = v
        BY <1>8, <2>1, <2>3
      <3>. QED BY <1>1, <3>1 DEF LockInv
    <2>5. ASSUME NEW c \in Cpu, NEW u \in Task
          PROVE  lock'[c] = u <=> pc'[u] = "ccmp" /\ cwq'[u] = c
      <3>1. CASE u = t
        BY <3>1, <1>2, <1>4, <1>8, <2>2 DEF LockInv
      <3>2. CASE u # t
        <4>1. lock'[c] = u <=> lock[c] = u
          BY <3>2, <1>8, <2>2, <2>3
        <4>. QED BY <3>2, <1>2, <4>1 DEF LockInv
      <3>. QED BY <3>1, <3>2
    <2>6. ASSUME NEW u \in Task
          PROVE  /\ pc'[u] \in {"clock", "ccmp"} => cwq'[u] \in Cpu
                 /\ pc'[u] = "ccmp" => on'[u] \in Cpu
      BY <1>2 DEF LockInv
    <2>. QED BY <2>4, <2>5, <2>6 DEF LockInv
  <1>10. CancelOwns(t, w)'
    BY <1>1, <1>2, <1>3 DEF CancelOwns
  <1>11. ASSUME NEW c \in Cpu
         PROVE  /\ \A y \in Item : OnList(worklist'[c], y) <=> OnList(worklist[c], y) /\ y # w
                /\ Distinct(worklist'[c])
                /\ \A y, z : Before(worklist[c], y, z) /\ y # w /\ z # w => Before(worklist'[c], y, z)
    <2>1. PICK s, r : s = worklist[c] /\ r = worklist'[c]
      OBVIOUS
    <2>2. Unlinked(s, r, w) /\ s \in Seq(Item) /\ Distinct(s)
      BY <1>3, <2>1 DEF GrabCompare, Unlinked, BarrierInv, TypeOK
    <2>3. /\ \A y : OnList(r, y) <=> OnList(s, y) /\ y # w
          /\ \A y, z : Before(s, y, z) /\ y # w /\ z # w => Before(r, y, z)
          /\ Distinct(r)
      BY <2>2, ListDelList
    <2>. QED BY <2>1, <2>3
  <1>12. \A u \in Task : owed'[u] = owed[u] \ {<<w, "queued", c>> : c \in Cpu}
    BY <1>3 DEF GrabCompare
  <1>13. ASSUME NEW u \in Task, NEW v \in Work, NEW c \in Cpu, <<v, "queued", c>> \in owed'[u],
                Before(worklist[c], v, u)
         PROVE  Before(worklist'[c], v, u)
    <2>1. v # w
      BY <1>12, <1>13
    <2>2. u # w
      BY NullAssumption
    <2>. QED BY <1>11, <1>13, <2>1, <2>2
  <1>14. \A u \in Task : owed'[u] \subseteq owed[u]
    BY <1>12
  <1>15. \A v \in Work : (pending'[v] <=> pending[v]) /\ timer'[v] = timer[v]
    BY <1>1
  <1>. HIDE DEF IInv
  <1>. QED BY <1>1, <1>2, <1>7, <1>9, <1>10, <1>11, <1>13, <1>14, <1>15, GrabbedInv

\* The canceller puts its barrier behind the work that runs.
LEMMA CancelBarrierInv ==
    ASSUME IInv, TypeOK', NEW t \in Task, NEW c \in Cpu, WaitOnCpuWork(t, c), current[c] = arg[t]
    PROVE  IInv'
  <1>. USE DEF IInv
  <1>1. UNCHANGED <<pending, wqdata, timer, ins, lock, current, fn, wpc, arg, cwq, on, ret, owed>>
    BY DEF WaitOnCpuWork, workVars, grabVars
  <1>2. /\ pc[t] = "cwaitcpu" /\ pc'[t] = "cbarr" /\ done'[t] = FALSE /\ todo'[t] = todo[t] \ {c}
        /\ \A u \in Task : u # t => pc'[u] = pc[u] /\ done'[u] = done[u] /\ todo'[u] = todo[u]
        /\ \A d \in Cpu : d # c => worklist'[d] = worklist[d]
        /\ worklist'[c] = <<t>> \o worklist[c]
    BY DEF WaitOnCpuWork, InsertBarrier, Goto, TypeOK
  <1>3. \A d \in Cpu : ~OnList(worklist[d], t) /\ ~(current[d] = t /\ wpc[d] \in {"clear", "func"})
    BY <1>2 DEF BarrierInv
  <1>4. /\ \A y : OnList(worklist'[c], y) <=> OnList(worklist[c], y) \/ y = t
        /\ \A y, z : Before(worklist[c], y, z) => Before(worklist'[c], y, z)
        /\ Distinct(worklist'[c])
    <2>1. PICK s, r : s = worklist[c] /\ r = worklist'[c]
      OBVIOUS
    <2>2. Prepended(s, r, t) /\ s \in Seq(Item) /\ ~OnList(s, t) /\ Distinct(s) /\ t \in Item
      BY <1>2, <1>3, <2>1 DEF Prepended, BarrierInv, TypeOK, Item
    <2>3. /\ \A y : OnList(r, y) <=> OnList(s, y) \/ y = t
          /\ \A y, z : Before(s, y, z) => Before(r, y, z)
          /\ Distinct(r)
      BY <2>2, PrependList
    <2>. QED BY <2>1, <2>3
  <1>5. \A w \in Work : w # t
    BY NullAssumption
  <1>6. LockInv'
    BY <1>1, <1>2 DEF LockInv
  <1>7. FrameInv'
    BY <1>1 DEF FrameInv
  <1>8. InsertInv'
    BY <1>1, <1>2 DEF InsertInv
  <1>9. \A w \in Work, d \in Cpu : OnList(worklist'[d], w) <=> OnList(worklist[d], w)
    BY <1>2, <1>4, <1>5
  <1>10. DataInv'
    BY <1>1, <1>2, <1>9 DEF DataInv, Cancel
  <1>11. \A u \in Task, v \in Work : CancelOwns(u, v)' <=> CancelOwns(u, v)
    BY <1>1, <1>2 DEF CancelOwns
  <1>12. OwnerInv'
    BY <1>1, <1>9, <1>11, OwnerKept, OwnersKept
  <1>13. BarrierInv'
    <2>1. \A d \in Cpu : Distinct(worklist'[d])
      BY <1>2, <1>4 DEF BarrierInv
    <2>2. \A u \in Task, d \in Cpu : OnList(worklist'[d], u) <=> OnList(worklist[d], u) \/ (d = c /\ u = t)
      BY <1>2, <1>4
    <2>. QED BY <1>1, <1>2, <1>3, <2>1, <2>2 DEF BarrierInv
  <1>14. CancelInv'
    <2>1. \A u \in Task, d \in Cpu : OnList(worklist[d], u) => OnList(worklist'[d], u)
      BY <1>2, <1>4
    <2>2. \A u \in Task : CancelOwns(u, arg[u])' => CancelOwns(u, arg[u])
      BY <1>1, <1>2 DEF CancelOwns
    <2>3. OnList(worklist'[c], t)
      BY <1>4
    <2>. QED BY <1>1, <1>2, <2>1, <2>2, <2>3 DEF CancelInv
  <1>15. FlushInv'
    <2>1. \A u \in Task, d \in Cpu : OnList(worklist[d], u) => OnList(worklist'[d], u)
      BY <1>2, <1>4
    <2>2. \A d \in Cpu : \A y, z : Before(worklist[d], y, z) => Before(worklist'[d], y, z)
      BY <1>2, <1>4
    <2>. QED BY <1>1, <1>2, <2>1, <2>2, FlushKept
  <1>. QED BY <1>6, <1>7, <1>8, <1>10, <1>12, <1>13, <1>14, <1>15

\* The canceller clears the bit, or cancel_delayed_work does with the timer's.
LEMMA CancelReturnsInv ==
    ASSUME IInv, TypeOK', NEW t \in Task,
           CancelReturns(t) \/ \E w \in Work : CancelDelayedWork(t, w)
    PROVE  IInv'
  <1>. USE DEF IInv
  <1>1. UNCHANGED <<wqdata, ins, lock, worklist, current, fn, wpc, cwq, on, todo, done, owed>>
    BY DEF CancelReturns, CancelDelayedWork, workVars, cwqVars, taskVars, grabVars
  <1>2. /\ pc[t] \in {"cclear", "idle"} /\ pc'[t] = "idle"
        /\ \A u \in Task : u # t => pc'[u] = pc[u] /\ arg'[u] = arg[u] /\ ret'[u] = ret[u]
    BY DEF CancelReturns, CancelDelayedWork, Goto, TypeOK, taskVars, grabVars
  <1>3. PICK w \in Work :
          /\ ~pending'[w] /\ timer'[w] # "armed" /\ (timer'[w] = "firing" => timer[w] = "firing")
          /\ \A v \in Work : v # w => (pending'[v] <=> pending[v]) /\ timer'[v] = timer[v]
          /\ \A v \in Work : v # w => ~CancelOwns(t, v)
          /\ OwnedBy(w, <<"timer", w>>) \/ OwnedBy(w, <<"cancel", t>>)
    <2>1. CASE CancelReturns(t)
      <3>1. pc[t] = "cclear"
        BY <2>1 DEF CancelReturns
      <3>2. PICK w \in Work : w = arg[t]
        BY <3>1 DEF DataInv, Cancel
      <3>3. ~pending'[w] /\ timer' = timer /\ \A v \in Work : v # w => pending'[v] = pending[v]
        BY <2>1, <3>2 DEF CancelReturns, TypeOK
      <3>4. CancelOwns(t, w)
        BY <3>1, <3>2 DEF DataInv, CancelOwns
      <3>5. OwnedBy(w, <<"cancel", t>>)
        BY <3>4, SoleOwner
      <3>6. timer[w] # "armed"
        BY <3>5 DEF OwnedBy
      <3>. QED BY <3>2, <3>3, <3>5, <3>6 DEF CancelOwns
    <2>2. CASE \E w \in Work : CancelDelayedWork(t, w)
      <3>1. PICK w \in Work : CancelDelayedWork(t, w)
        BY <2>2
      <3>2. /\ timer[w] = "armed" /\ timer'[w] = "off" /\ ~pending'[w] /\ pc[t] = "idle"
            /\ \A v \in Work : v # w => pending'[v] = pending[v] /\ timer'[v] = timer[v]
        BY <3>1 DEF CancelDelayedWork, TypeOK
      <3>3. OwnedBy(w, <<"timer", w>>)
        BY <3>2, SoleOwner
      <3>. QED BY <3>2, <3>3 DEF CancelOwns
    <2>. QED BY <2>1, <2>2
  <1>4. LockInv'
    BY <1>1, <1>2 DEF LockInv
  <1>5. FrameInv'
    BY <1>1 DEF FrameInv
  <1>6. InsertInv'
    <2>1. \A v \in Work : timer'[v] = "firing" => timer[v] = "firing"
      BY <1>3
    <2>2. \A u \in Task : pc[u] = "ins" => pc'[u] = "ins"
      BY <1>2
    <2>. QED BY <1>1, <2>1, <2>2 DEF InsertInv
  <1>7. DataInv'
    BY <1>1, <1>2 DEF DataInv, Cancel
  <1>8. \A v \in Work : ~CancelOwns(t, v)'
    BY <1>2 DEF CancelOwns
  <1>9. \A u \in Task, v \in Work : u # t => (CancelOwns(u, v)' <=> CancelOwns(u, v))
    BY <1>2 DEF CancelOwns
  <1>10. OwnerInv'
    <2>1. ASSUME NEW v \in Work, v # w, NEW o, OwnedBy(v, o) PROVE OwnedBy(v, o)'
      <3>1. \A u \in Task : CancelOwns(u, v)' <=> CancelOwns(u, v)
        BY <1>3, <1>8, <1>9, <2>1
      <3>. QED BY <1>1, <1>3, <2>1, <3>1, OwnerKept
    <2>2. \A u \in Task : ~CancelOwns(u, w)'
      <3>1. \A u \in Task : u # t => ~CancelOwns(u, w)
        BY <1>3 DEF OwnedBy
      <3>. QED BY <1>8, <1>9, <3>1
    <2>3. /\ ins[w] = Null /\ \A d \in Cpu : ~OnList(worklist[d], w)
          /\ \A d \in Cpu : ~(wpc[d] = "clear" /\ current[d] = w)
      BY <1>3 DEF OwnedBy
    <2>4. OwnedBy(w, <<"none", w>>)'
      BY <1>1, <1>3, <2>2, <2>3 DEF OwnedBy
    <2>. QED BY <2>1, <2>4, OwnerIds, OwnerMoves
  <1>11. BarrierInv'
    BY <1>1, <1>2 DEF BarrierInv
  <1>12. CancelInv'
    <2>1. \A u \in Task : CancelOwns(u, arg[u])' => u # t /\ CancelOwns(u, arg[u])
      BY <1>2 DEF CancelOwns
    <2>. QED BY <1>1, <1>2, <2>1 DEF CancelInv
  <1>13. FlushInv'
    BY <1>1, <1>2, FlushKept
  <1>. QED BY <1>4, <1>5, <1>6, <1>7, <1>10, <1>11, <1>12, <1>13

-------------------------------------------------------------------------------
(* All steps together                                                       *)

LEMMA InitInv == Init => IInv
  <1>. SUFFICES ASSUME Init PROVE IInv
    OBVIOUS
  <1>. USE DEF Init
  <1>0. <<>> \in Seq(Item)
    OBVIOUS
  <1>1. TypeOK
    BY <1>0 DEF TypeOK, TaskPC, WorkerPC
  <1>2. LockInv
    BY NullAssumption DEF LockInv
  <1>3. FrameInv
    BY DEF FrameInv
  <1>4. InsertInv
    BY DEF InsertInv
  <1>5. \A c \in Cpu : \A x : ~OnList(worklist[c], x)
    BY DEF OnList
  <1>6. DataInv
    BY <1>5, NullAssumption DEF DataInv, Cancel
  <1>7. OwnerInv
    <2>. SUFFICES ASSUME NEW w \in Work PROVE OwnedBy(w, <<"none", w>>)
      BY OwnerIds DEF OwnerInv
    <2>1. \A t \in Task : ~CancelOwns(t, w)
      BY DEF CancelOwns
    <2>. QED BY <1>5, <2>1 DEF OwnedBy
  <1>8. BarrierInv
    BY <1>5 DEF BarrierInv, Distinct
  <1>9. CancelInv
    BY DEF CancelInv, CancelOwns
  <1>10. FlushInv
    BY DEF FlushInv
  <1>. QED BY <1>1, <1>2, <1>3, <1>4, <1>6, <1>7, <1>8, <1>9, <1>10 DEF IInv

LEMMA StutterInv ==
    ASSUME IInv, UNCHANGED vars
    PROVE  IInv'
  <1>1. UNCHANGED <<pending, wqdata, timer, ins, lock, worklist, current, fn, wstate, wpc, pc, arg,
                    usetimer, cwq, on, ret, todo, done, owed>>
    BY DEF vars, workVars, cwqVars, taskVars, grabVars
  <1>2. TypeOK' /\ LockInv' /\ FrameInv' /\ InsertInv'
    BY <1>1 DEF IInv, TypeOK, LockInv, FrameInv, InsertInv
  <1>3. \A u \in Task, w \in Work : CancelOwns(u, w)' <=> CancelOwns(u, w)
    BY <1>1 DEF CancelOwns
  <1>4. OwnerInv'
    BY <1>1, <1>3, OwnerKept, OwnersKept DEF IInv
  <1>5. DataInv' /\ BarrierInv' /\ FlushInv'
    BY <1>1 DEF IInv, DataInv, BarrierInv, FlushInv
  <1>6. CancelInv'
    BY <1>1 DEF IInv, CancelInv, CancelOwns
  <1>. QED BY <1>2, <1>4, <1>5, <1>6 DEF IInv

\* Every step keeps the invariant, if the second read of the cwq is conclusive.
LEMMA NextInv ==
    ASSUME IInv, GrabIsExact, ~SelfFlush, Next
    PROVE  IInv'
  <1>. TypeOK'
    BY TypeStep
  <1>1. CASE Queueing
    BY <1>1, QueueInv, RequeueInv DEF Queueing
  <1>2. CASE \E w \in Work : Inserting(w) \/ \E c \in Cpu : TimerFires(w, c)
    BY <1>2, AddTimerInv, SetDataInv, ListAddInv, TimerInv DEF Inserting
  <1>3. ASSUME NEW c \in Cpu, Worker(c) \/ FuncFlushes(c) PROVE IInv'
    <2>1. CASE RunNext(c)
      BY <2>1, IdleSteps, RunNextInv
    <2>2. CASE FuncFlushes(c)
      BY <2>2 DEF FuncFlushes
    <2>. QED BY <1>3, <2>1, <2>2, IdleSteps, ClearPendingInv, FuncReturnsInv, FuncDoneInv DEF Worker
  <1>4. ASSUME NEW t \in Task, FlushWorkqueue(t) \/ Flushing(t) PROVE IInv'
    <2>1. ASSUME NEW c \in Cpu, FlushCpu(t, c) PROVE IInv'
      BY <2>1, FlushLocal, FlushBarrierInv
    <2>. QED BY <1>4, <2>1, FlushLocal, CompletedInv DEF Flushing
  <1>5. ASSUME NEW t \in Task, Cancelling(t) PROVE IInv'
    <2>1. CASE CancelDelTimer(t)
      BY <2>1, CancelLocal, GrabBitInv
    <2>2. CASE GrabBit(t)
      BY <2>2, CancelLocal, GrabBitInv
    <2>3. CASE GrabLock(t)
      BY <2>3, CancelLocal, GrabLockInv
    <2>4. CASE GrabCompare(t)
      BY <2>4, GrabLockInv, GrabListInv
    <2>5. ASSUME NEW c \in Cpu, WaitOnCpuWork(t, c) PROVE IInv'
      BY <2>5, CancelLocal, CancelBarrierInv
    <2>. QED BY <1>5, <2>1, <2>2, <2>3, <2>4, <2>5, CancelLocal, CompletedInv, CancelReturnsInv
              DEF Cancelling
  <1>6. ASSUME NEW t \in Task, NEW w \in Work, CancelDelayedWork(t, w) PROVE IInv'
    BY <1>6, CancelReturnsInv
  <1>7. CASE NewCancel
    BY <1>7, CancelLocal DEF NewCancel
  <1>. QED BY <1>1, <1>2, <1>3, <1>4, <1>5, <1>6, <1>7 DEF Next

-------------------------------------------------------------------------------
(* The second read with one CPU or two                                      *)

\* A canceller keeps its place and its locals in the steps of others.
LEMMA OthersStep ==
    ASSUME IInv, Next, NEW u \in Task, pc[u] \in Cancel, ~Cancelling(u)
    PROVE  /\ pc'[u] = pc[u] /\ arg'[u] = arg[u] /\ cwq'[u] = cwq[u] /\ on'[u] = on[u]
           /\ ret'[u] = ret[u] /\ todo'[u] = todo[u]
  <1>. DEFINE Same == /\ pc'[u] = pc[u] /\ arg'[u] = arg[u] /\ cwq'[u] = cwq[u] /\ on'[u] = on[u]
                      /\ ret'[u] = ret[u] /\ todo'[u] = todo[u]
  <1>. SUFFICES Same
    OBVIOUS
  <1>. TypeOK
    BY DEF IInv
  <1>0. pc[u] \notin {"idle", "ins", "flush", "flushwait", "flushed"}
    BY DEF Cancel
  <1>1. CASE Queueing
    <2>1. ASSUME NEW t \in Task, NEW w \in Work, NEW c \in Cpu, QueueWork(t, w, c) \/ QueueDelayedWork(t, w, c)
          PROVE  Same
      BY <2>1, <1>0 DEF QueueWork, QueueDelayedWork, Goto, TypeOK, grabVars
    <2>2. ASSUME NEW c \in Cpu, NEW w \in Work, FuncRequeues(c, w) \/ FuncRearms(c, w)
          PROVE  Same
      BY <2>2 DEF FuncRequeues, FuncRearms, taskVars, grabVars
    <2>. QED BY <1>1, <2>1, <2>2 DEF Queueing
  <1>2. ASSUME NEW w \in Work, Inserting(w) \/ \E c \in Cpu : TimerFires(w, c)
        PROVE  Same
    <2>1. CASE SetData(w) \/ \E c \in Cpu : TimerFires(w, c)
      BY <2>1 DEF SetData, TimerFires, taskVars, grabVars
    <2>2. CASE AddTimer(w) \/ ListAdd(w)
      <3>1. ins[w] # Null /\ InsertReturns(w)
        BY <2>2 DEF AddTimer, ListAdd, InsStep
      <3>2. pc'[u] = pc[u]
        BY <3>1, <1>0, InsertEnds
      <3>. QED BY <2>2, <3>2 DEF AddTimer, ListAdd, grabVars
    <2>. QED BY <1>2, <2>1, <2>2 DEF Inserting
  <1>3. ASSUME NEW c \in Cpu, Worker(c) \/ FuncFlushes(c)
        PROVE  Same
    BY <1>3 DEF Worker, WorkerPrepare, WorkerTest, WorkerScheduled, RunNext, ClearPending, FuncReturns,
                FuncDone, FuncFlushes, taskVars, grabVars
  <1>4. ASSUME NEW t \in Task, FlushWorkqueue(t) \/ Flushing(t)
        PROVE  Same
    <2>1. CASE FlushWorkqueue(t)
      BY <2>1, <1>0 DEF FlushWorkqueue, Goto, TypeOK, grabVars
    <2>2. ASSUME NEW c \in Cpu, FlushCpu(t, c) PROVE Same
      BY <2>2, <1>0 DEF FlushCpu, Goto, TypeOK, grabVars
    <2>3. CASE FlushWait(t)
      BY <2>3, <1>0 DEF FlushWait, Goto, TypeOK, grabVars
    <2>4. CASE FlushReturns(t)
      BY <2>4, <1>0 DEF FlushReturns, Goto, TypeOK, grabVars
    <2>. QED BY <1>4, <2>1, <2>2, <2>3, <2>4 DEF Flushing
  <1>5. ASSUME NEW t \in Task, Cancelling(t)
        PROVE  Same
    <2>0. t # u
      BY <1>5
    <2>1. CASE CancelDelTimer(t)
      BY <2>0, <2>1 DEF CancelDelTimer, Grabbed, Goto, TypeOK, grabVars
    <2>2. CASE GrabBit(t)
      BY <2>0, <2>2 DEF GrabBit, Grabbed, Goto, TypeOK, grabVars
    <2>3. CASE GrabReadCwq(t)
      BY <2>0, <2>3 DEF GrabReadCwq, Grabbed, Goto, TypeOK
    <2>4. CASE GrabLock(t)
      BY <2>0, <2>4 DEF GrabLock, Grabbed, Goto, TypeOK
    <2>5. CASE GrabCompare(t)
      BY <2>0, <2>5 DEF GrabCompare, Grabbed, Goto, TypeOK
    <2>6. CASE WaitOnWork(t)
      BY <2>0, <2>6 DEF WaitOnWork, Goto, TypeOK, grabVars
    <2>7. ASSUME NEW c \in Cpu, WaitOnCpuWork(t, c) PROVE Same
      BY <2>0, <2>7 DEF WaitOnCpuWork, Goto, TypeOK, grabVars
    <2>8. CASE CancelBarrier(t)
      BY <2>0, <2>8 DEF CancelBarrier, Goto, TypeOK, grabVars
    <2>9. CASE CancelLoop(t)
      BY <2>0, <2>9 DEF CancelLoop, Goto, TypeOK
    <2>10. CASE CancelReturns(t)
      BY <2>0, <2>10 DEF CancelReturns, Goto, TypeOK
    <2>. QED BY <1>5, <2>1, <2>2, <2>3, <2>4, <2>5, <2>6, <2>7, <2>8, <2>9, <2>10 DEF Cancelling
  <1>6. ASSUME NEW t \in Task, NEW w \in Work, CancelDelayedWork(t, w)
        PROVE  Same
    BY <1>6 DEF CancelDelayedWork, taskVars, grabVars
  <1>7. CASE NewCancel
    BY <1>7, <1>0 DEF NewCancel, CancelSync, Goto, TypeOK, grabVars
  <1>. HIDE DEF Same
  <1>. QED BY <1>1, <1>2, <1>3, <1>4, <1>5, <1>6, <1>7 DEF Next

\* Only an insertion under way changes work->data, with interrupts on.
LEMMA DataStep ==
    ASSUME IInv, Next, NEW w \in Work, wqdata'[w] # wqdata[w]
    PROVE  ins[w] # Null /\ wqdata'[w] = ins[w].cpu /\ CpuFree(ins[w].cpu)
  <1>. TypeOK
    BY DEF IInv
  <1>1. ASSUME NEW v \in Work, AddTimer(v) \/ SetData(v)
        PROVE  v = w /\ ins[w] # Null /\ wqdata'[w] = ins[w].cpu /\ CpuFree(ins[w].cpu)
    BY <1>1 DEF AddTimer, SetData, InsStep, TypeOK
  <1>2. ASSUME UNCHANGED wqdata PROVE FALSE
    BY <1>2
  <1>3. CASE Queueing
    BY <1>2, <1>3 DEF Queueing, QueueWork, QueueDelayedWork, FuncRequeues, FuncRearms
  <1>4. ASSUME NEW v \in Work, ListAdd(v) \/ \E c \in Cpu : TimerFires(v, c)
        PROVE  FALSE
    BY <1>2, <1>4 DEF ListAdd, TimerFires
  <1>5. ASSUME NEW c \in Cpu, Worker(c) \/ FuncFlushes(c)
        PROVE  FALSE
    BY <1>2, <1>5 DEF Worker, WorkerPrepare, WorkerTest, WorkerScheduled, RunNext, ClearPending, FuncReturns,
                FuncDone, FuncFlushes, workVars
  <1>6. ASSUME NEW t \in Task, FlushWorkqueue(t) \/ Flushing(t) \/ Cancelling(t)
        PROVE  FALSE
    BY <1>2, <1>6 DEF FlushWorkqueue, Flushing, FlushCpu, FlushWait, FlushReturns, Cancelling,
           CancelDelTimer, GrabBit, GrabReadCwq, GrabLock, GrabCompare, WaitOnWork, WaitOnCpuWork,
           CancelBarrier, CancelLoop, CancelReturns, workVars
  <1>7. ASSUME NEW t \in Task, NEW v \in Work, CancelDelayedWork(t, v)
        PROVE  FALSE
    BY <1>2, <1>7 DEF CancelDelayedWork
  <1>8. CASE NewCancel
    BY <1>2, <1>8 DEF NewCancel, CancelSync, workVars
  <1>. QED BY <1>1, <1>3, <1>4, <1>5, <1>6, <1>7, <1>8 DEF Next, Inserting

\* try_to_grab_pending is the only way to the second read.
LEMMA CompareFrom ==
    ASSUME IInv, Next, NEW t \in Task, pc'[t] = "ccmp", ~Cancelling(t)
    PROVE  pc[t] = "ccmp"
  <1>. SUFFICES ASSUME pc'[t] # pc[t] PROVE FALSE
    OBVIOUS
  <1>. TypeOK
    BY DEF IInv
  <1>1. CASE Queueing
    BY <1>1 DEF Queueing, QueueWork, QueueDelayedWork, FuncRequeues, FuncRearms, Goto, TypeOK, taskVars
  <1>2. ASSUME NEW w \in Work, Inserting(w) \/ \E c \in Cpu : TimerFires(w, c)
        PROVE  FALSE
    BY <1>2 DEF Inserting, AddTimer, SetData, ListAdd, InsertReturns, TimerFires, taskVars
  <1>3. ASSUME NEW c \in Cpu, Worker(c) \/ FuncFlushes(c)
        PROVE  FALSE
    BY <1>3 DEF Worker, WorkerPrepare, WorkerTest, WorkerScheduled, RunNext, ClearPending, FuncReturns,
                FuncDone, FuncFlushes, taskVars
  <1>4. ASSUME NEW u \in Task, FlushWorkqueue(u) \/ Flushing(u)
        PROVE  FALSE
    BY <1>4 DEF FlushWorkqueue, Flushing, FlushCpu, FlushWait, FlushReturns, Goto, TypeOK
  <1>5. ASSUME NEW u \in Task, Cancelling(u)
        PROVE  FALSE
    <2>1. u # t
      BY <1>5
    <2>. QED BY <1>5, <2>1 DEF Cancelling, CancelDelTimer, GrabBit, GrabReadCwq, GrabLock, GrabCompare,
           WaitOnWork, WaitOnCpuWork, CancelBarrier, CancelLoop, CancelReturns, Grabbed, Goto, TypeOK
  <1>6. ASSUME NEW u \in Task, NEW w \in Work, CancelDelayedWork(u, w)
        PROVE  FALSE
    BY <1>6 DEF CancelDelayedWork, taskVars
  <1>7. CASE NewCancel
    BY <1>7 DEF NewCancel, CancelSync, Goto, TypeOK
  <1>. QED BY <1>1, <1>2, <1>3, <1>4, <1>5, <1>6, <1>7 DEF Next

\* A work leaves a list by its worker, with the lock and interrupts on, or by a
\* canceller that holds the lock of that list.
LEMMA ListStep ==
    ASSUME IInv, Next, NEW c \in Cpu, NEW w \in Work,
           OnList(worklist[c], w), ~OnList(worklist'[c], w)
    PROVE  \/ lock[c] = Null /\ CpuFree(c)
           \/ \E u \in Task : GrabCompare(u) /\ arg[u] = w /\ cwq[u] = c /\ cwq[u] = wqdata[arg[u]]
  <1>. DEFINE Goal == \/ lock[c] = Null /\ CpuFree(c)
                      \/ \E u \in Task : GrabCompare(u) /\ arg[u] = w /\ cwq[u] = c /\ cwq[u] = wqdata[arg[u]]
  <1>. SUFFICES Goal
    OBVIOUS
  <1>. TypeOK /\ DataInv /\ BarrierInv
    BY DEF IInv
  <1>0. worklist[c] \in Seq(Item) /\ Distinct(worklist[c])
    BY DEF TypeOK, BarrierInv
  <1>1. ASSUME worklist'[c] = worklist[c] PROVE FALSE
    BY <1>1
  <1>2. ASSUME NEW x \in Item, Appended(worklist[c], worklist'[c], x) PROVE FALSE
    <2>1. PICK s, r : s = worklist[c] /\ r = worklist'[c]
      OBVIOUS
    <2>2. s \in Seq(Item) /\ Appended(s, r, x)
      BY <1>0, <1>2, <2>1
    <2>3. OnList(s, w) => OnList(r, w)
      BY <2>2, AppendList
    <2>. QED BY <2>1, <2>3
  <1>3. ASSUME NEW x \in Item, Prepended(worklist[c], worklist'[c], x) PROVE FALSE
    <2>1. PICK s, r : s = worklist[c] /\ r = worklist'[c]
      OBVIOUS
    <2>2. s \in Seq(Item) /\ Prepended(s, r, x)
      BY <1>0, <1>3, <2>1
    <2>3. OnList(s, w) => OnList(r, w)
      BY <2>2, PrependList
    <2>. QED BY <2>1, <2>3
  <1>4. CASE Queueing
    BY <1>1, <1>4 DEF Queueing, QueueWork, QueueDelayedWork, FuncRequeues, FuncRearms, cwqVars
  <1>5. ASSUME NEW v \in Work, Inserting(v) \/ \E d \in Cpu : TimerFires(v, d)
        PROVE  FALSE
    <2>1. CASE ListAdd(v)
      <3>1. worklist'[c] = worklist[c] \/ Appended(worklist[c], worklist'[c], v)
        BY <2>1 DEF ListAdd, TypeOK, Appended
      <3>. QED BY <1>1, <1>2, <3>1 DEF Item
    <2>2. CASE AddTimer(v) \/ SetData(v) \/ \E d \in Cpu : TimerFires(v, d)
      BY <1>1, <2>2 DEF AddTimer, SetData, TimerFires, cwqVars
    <2>. QED BY <1>5, <2>1, <2>2 DEF Inserting
  <1>6. ASSUME NEW d \in Cpu, Worker(d) \/ FuncFlushes(d)
        PROVE  Goal
    <2>1. CASE RunNext(d)
      <3>1. d # c => worklist'[c] = worklist[c]
        BY <2>1 DEF RunNext, TypeOK
      <3>. QED BY <2>1, <3>1, <1>1 DEF RunNext, At
    <2>2. CASE ~RunNext(d)
      BY <1>1, <1>6, <2>2 DEF Worker, WorkerPrepare, WorkerTest, WorkerScheduled, ClearPending, FuncReturns,
                FuncDone, FuncFlushes
    <2>. QED BY <2>1, <2>2
  <1>7. ASSUME NEW t \in Task, FlushWorkqueue(t) \/ Flushing(t)
        PROVE  FALSE
    <2>1. ASSUME NEW d \in Cpu, FlushCpu(t, d) PROVE FALSE
      <3>1. worklist'[c] = worklist[c] \/ Appended(worklist[c], worklist'[c], t)
        BY <2>1 DEF FlushCpu, InsertBarrier, TypeOK, Appended
      <3>. QED BY <1>1, <1>2, <3>1 DEF Item
    <2>2. CASE FlushWorkqueue(t) \/ FlushWait(t) \/ FlushReturns(t)
      BY <1>1, <2>2 DEF FlushWorkqueue, FlushWait, FlushReturns, cwqVars
    <2>. QED BY <1>7, <2>1, <2>2 DEF Flushing
  <1>8. ASSUME NEW t \in Task, Cancelling(t)
        PROVE  Goal
    <2>1. ASSUME NEW d \in Cpu, WaitOnCpuWork(t, d) PROVE FALSE
      <3>1. worklist'[c] = worklist[c] \/ Prepended(worklist[c], worklist'[c], t)
        BY <2>1 DEF WaitOnCpuWork, InsertBarrier, TypeOK, Prepended
      <3>. QED BY <1>1, <1>3, <3>1 DEF Item
    <2>2. CASE GrabCompare(t)
      <3>1. cwq[t] = wqdata[arg[t]] /\ worklist' = [d \in Cpu |-> ListDel(worklist[d], arg[t])]
        BY <1>1, <2>2 DEF GrabCompare
      <3>2. PICK s, r : s = worklist[c] /\ r = worklist'[c]
        OBVIOUS
      <3>3. s \in Seq(Item) /\ Distinct(s) /\ Unlinked(s, r, arg[t])
        BY <1>0, <3>1, <3>2 DEF Unlinked
      <3>4. OnList(r, w) <=> OnList(s, w) /\ w # arg[t]
        BY <3>3, ListDelList
      <3>5. arg[t] = w
        BY <3>2, <3>4
      <3>6. wqdata[w] = c
        BY DEF DataInv
      <3>. QED BY <2>2, <3>1, <3>5, <3>6
    <2>3. CASE \/ CancelDelTimer(t) \/ GrabBit(t) \/ GrabReadCwq(t) \/ GrabLock(t) \/ WaitOnWork(t)
               \/ CancelBarrier(t) \/ CancelLoop(t) \/ CancelReturns(t)
      BY <1>1, <2>3 DEF CancelDelTimer, GrabBit, GrabReadCwq, GrabLock, WaitOnWork, CancelBarrier,
                        CancelLoop, CancelReturns, cwqVars
    <2>. QED BY <1>8, <2>1, <2>2, <2>3 DEF Cancelling
  <1>9. ASSUME NEW t \in Task, NEW v \in Work, CancelDelayedWork(t, v)
        PROVE  FALSE
    BY <1>1, <1>9 DEF CancelDelayedWork, cwqVars
  <1>10. CASE NewCancel
    BY <1>1, <1>10 DEF NewCancel, CancelSync, cwqVars
  <1>. HIDE DEF Goal
  <1>. QED BY <1>4, <1>5, <1>6, <1>7, <1>8, <1>9, <1>10 DEF Next

\* A canceller that owns the bit waits for the lock of d while somebody has it.
LEMMA ClaimStep ==
    ASSUME IInv, Next, NEW u \in Task, NEW w \in Work, NEW d \in Cpu,
           lock[d] # Null, wqdata[w] # Null, CancelOwns(u, w),
           pc[u] = "cwait" \/ (pc[u] \in {"cwaitcpu", "cbarr"} /\ d \in todo[u])
    PROVE  /\ CancelOwns(u, w)'
           /\ pc'[u] = "cwait" \/ (pc'[u] \in {"cwaitcpu", "cbarr"} /\ d \in todo'[u])
  <1>. TypeOK
    BY DEF IInv
  <1>1. CASE ~Cancelling(u)
    <2>1. pc[u] \in Cancel
      BY DEF Cancel
    <2>2. pc'[u] = pc[u] /\ arg'[u] = arg[u] /\ ret'[u] = ret[u] /\ todo'[u] = todo[u]
      BY <1>1, <2>1, OthersStep
    <2>. QED BY <2>2 DEF CancelOwns
  <1>2. CASE Cancelling(u)
    <2>0. arg[u] = w
      BY DEF CancelOwns
    <2>1. WaitOnWork(u) \/ (\E c \in Cpu : WaitOnCpuWork(u, c)) \/ CancelBarrier(u)
      BY <1>2 DEF Cancelling, CancelDelTimer, GrabBit, GrabReadCwq, GrabLock, GrabCompare, CancelLoop,
                  CancelReturns
    <2>2. CASE WaitOnWork(u)
      <3>1. pc[u] = "cwait" /\ pc'[u] = "cwaitcpu" /\ todo'[u] = Cpu /\ arg' = arg /\ ret' = ret
        BY <2>0, <2>2 DEF WaitOnWork, Goto, TypeOK, grabVars
      <3>. QED BY <3>1 DEF CancelOwns
    <2>3. ASSUME NEW c \in Cpu, WaitOnCpuWork(u, c)
          PROVE  /\ CancelOwns(u, w)'
                 /\ pc'[u] = "cwait" \/ (pc'[u] \in {"cwaitcpu", "cbarr"} /\ d \in todo'[u])
      <3>1. /\ pc[u] = "cwaitcpu" /\ pc'[u] \in {"cwaitcpu", "cbarr"} /\ todo'[u] = todo[u] \ {c} /\ c # d
            /\ arg' = arg /\ ret' = ret
        BY <2>3 DEF WaitOnCpuWork, Goto, TypeOK, grabVars
      <3>. QED BY <3>1 DEF CancelOwns
    <2>4. CASE CancelBarrier(u)
      <3>1. pc[u] = "cbarr" /\ pc'[u] = "cwaitcpu" /\ todo' = todo /\ arg' = arg /\ ret' = ret
        BY <2>4 DEF CancelBarrier, Goto, TypeOK, grabVars
      <3>. QED BY <3>1 DEF CancelOwns
    <2>. QED BY <2>1, <2>2, <2>3, <2>4
  <1>. QED BY <1>1, <1>2

\* With the lock of one CPU and the interrupts of one CPU a canceller holds both.
LEMMA GrabStep ==
    ASSUME IInv, GrabInv, AtMostTwoCpus, Next
    PROVE  GrabInv'
  <1>. TypeOK /\ LockInv /\ DataInv /\ OwnerInv
    BY DEF IInv
  <1>. SUFFICES ASSUME NEW t \in Task, pc'[t] = "ccmp"
                PROVE  \/ OnList(worklist'[cwq'[t]], arg'[t])
                       \/ wqdata'[arg'[t]] \notin {cwq'[t], Null} /\ Settled(t)'
    BY DEF GrabInv
  <1>1. CASE pc[t] = "ccmp"
    <2>1. ~Cancelling(t)
      <3>1. ASSUME Cancelling(t) PROVE GrabCompare(t)
        BY <1>1, <3>1 DEF Cancelling, CancelDelTimer, GrabBit, GrabReadCwq, GrabLock, WaitOnWork,
                  WaitOnCpuWork, CancelBarrier, CancelLoop, CancelReturns
      <3>2. ~GrabCompare(t)
        BY DEF GrabCompare, Grabbed, Goto, TypeOK
      <3>. QED BY <3>1, <3>2
    <2>2. arg'[t] = arg[t] /\ cwq'[t] = cwq[t] /\ on'[t] = on[t]
      BY <1>1, <2>1, OthersStep DEF Cancel
    <2>3. PICK w \in Work, d \in Cpu, e \in Cpu : w = arg[t] /\ d = cwq[t] /\ e = on[t]
      BY <1>1 DEF LockInv, DataInv, Cancel
    <2>4. lock[d] = t /\ lock[d] # Null /\ ~CpuFree(e)
      BY <1>1, <2>3, NullAssumption DEF LockInv, CpuFree
    <2>5. CASE OnList(worklist[d], w)
      <3>1. ASSUME NEW u \in Task, GrabCompare(u), cwq[u] = d PROVE FALSE
        <4>1. pc[u] = "ccmp"
          BY <3>1 DEF GrabCompare
        <4>2. u = t
          BY <3>1, <4>1, <2>4 DEF LockInv
        <4>. QED BY <2>1, <3>1, <4>2 DEF Cancelling
      <3>2. OnList(worklist'[d], w)
        BY <2>4, <2>5, <3>1, ListStep
      <3>. QED BY <2>2, <2>3, <3>2
    <2>6. CASE ~OnList(worklist[d], w)
      <3>1. wqdata[w] \notin {d, Null} /\ Settled(t)
        BY <1>1, <2>3, <2>6 DEF GrabInv
      <3>2. CASE on[t] = cwq[t]
        <4>1. wqdata'[w] \notin {d, Null}
          <5>1. CASE wqdata'[w] = wqdata[w]
            BY <3>1, <5>1
          <5>2. CASE wqdata'[w] # wqdata[w]
            <6>1. ins[w] # Null /\ wqdata'[w] = ins[w].cpu /\ CpuFree(ins[w].cpu)
              BY <5>2, DataStep
            <6>2. ins[w].cpu \in Cpu
              BY <6>1 DEF TypeOK, Insertion
            <6>. QED BY <2>3, <2>4, <3>2, <6>1, <6>2, NullAssumption
          <5>. QED BY <5>1, <5>2
        <4>. QED BY <2>2, <2>3, <3>2, <4>1 DEF Settled
      <3>3. CASE OnList(worklist[e], w)
        <4>1. ins[w] = Null
          BY <3>3, SoleOwner DEF OwnedBy
        <4>2. wqdata'[w] = wqdata[w]
          BY <4>1, DataStep
        <4>3. CASE OnList(worklist'[e], w)
          BY <2>2, <2>3, <3>1, <4>2, <4>3 DEF Settled
        <4>4. CASE ~OnList(worklist'[e], w)
          <5>1. PICK u \in Task : GrabCompare(u) /\ arg[u] = w /\ cwq[u] = e /\ cwq[u] = wqdata[arg[u]]
            BY <2>4, <3>3, <4>4, ListStep
          <5>2. pc'[u] = "cwait" /\ ret'[u] = 1 /\ arg'[u] = w
            BY <5>1 DEF GrabCompare, Grabbed, Goto, TypeOK
          <5>3. CancelOwns(u, w)'
            BY <5>2 DEF CancelOwns
          <5>. QED BY <2>2, <2>3, <3>1, <4>2, <5>2, <5>3 DEF Settled
        <4>. QED BY <4>3, <4>4
      <3>4. ASSUME NEW u \in Task, CancelOwns(u, w),
                   pc[u] = "cwait" \/ (pc[u] \in {"cwaitcpu", "cbarr"} /\ d \in todo[u])
            PROVE  wqdata'[w] \notin {d, Null} /\ Settled(t)'
        <4>1. ins[w] = Null
          BY <3>4, SoleOwner DEF OwnedBy
        <4>2. wqdata'[w] = wqdata[w]
          BY <4>1, DataStep
        <4>3. /\ CancelOwns(u, w)'
              /\ pc'[u] = "cwait" \/ (pc'[u] \in {"cwaitcpu", "cbarr"} /\ d \in todo'[u])
          BY <2>4, <3>1, <3>4, ClaimStep
        <4>. QED BY <2>2, <2>3, <3>1, <4>2, <4>3 DEF Settled
      <3>. QED BY <2>2, <2>3, <3>1, <3>2, <3>3, <3>4 DEF Settled
    <2>. QED BY <2>5, <2>6
  <1>2. CASE pc[t] # "ccmp"
    <2>1. GrabLock(t) /\ Entry(arg[t]) # {}
      <3>1. CASE Cancelling(t)
        BY <1>2, <3>1 DEF Cancelling, CancelDelTimer, GrabBit, GrabReadCwq, GrabLock, GrabCompare, WaitOnWork,
                 WaitOnCpuWork, CancelBarrier, CancelLoop, CancelReturns, Grabbed, Goto, TypeOK
      <3>2. CASE ~Cancelling(t)
        BY <1>2, <3>2, CompareFrom
      <3>. QED BY <3>1, <3>2
    <2>2. UNCHANGED <<worklist, wqdata, arg, cwq>>
      BY <2>1 DEF GrabLock, workVars
    <2>3. on'[t] \in Cpu /\ cwq[t] \in Cpu /\ arg[t] \in Work
      BY <2>1 DEF GrabLock, LockInv, DataInv, Cancel, TypeOK
    <2>4. PICK c \in Cpu : OnList(worklist[c], arg[t])
      BY <2>1 DEF Entry
    <2>5. wqdata[arg[t]] = c /\ c # Null
      BY <2>3, <2>4, NullAssumption DEF DataInv
    <2>6. c = cwq[t] \/ on'[t] = cwq[t] \/ on'[t] = c
      BY <2>3 DEF AtMostTwoCpus
    <2>. QED BY <2>2, <2>4, <2>5, <2>6 DEF Settled
  <1>. QED BY <1>1, <1>2

LEMMA GrabExact ==
    ASSUME IInv, GrabInv
    PROVE  GrabIsExact
  <1>. SUFFICES ASSUME NEW t \in Task, pc[t] = "ccmp", cwq[t] = wqdata[arg[t]]
                PROVE  Entry(arg[t]) = {cwq[t]}
    BY DEF GrabIsExact
  <1>1. PICK w \in Work, d \in Cpu : w = arg[t] /\ d = cwq[t]
    BY DEF IInv, LockInv, DataInv, Cancel
  <1>2. OnList(worklist[d], w)
    BY <1>1 DEF GrabInv
  <1>3. \A c \in Cpu : OnList(worklist[c], w) => c = d
    BY <1>1, <1>2 DEF IInv, DataInv
  <1>. QED BY <1>1, <1>2, <1>3 DEF Entry

-------------------------------------------------------------------------------
(* What the invariant says                                                  *)

\* The owners of a bit: the one of the invariant, or nobody.
LEMMA OwnerSet ==
    ASSUME IInv, NEW w \in Work, NEW o \in OwnerId(w), OwnedBy(w, o)
    PROVE  Owners(w) = IF pending[w] THEN {o} ELSE {}
  <1>0. ASSUME NEW c \in Cpu
        PROVE  wpc[c] = "clear" => Last(fn[c]) = current[c]
    <2>1. wpc[c] = "clear" => current[c] # Null
      BY DEF IInv, FrameInv
    <2>. QED BY <2>1, Frames DEF IInv
  <1>1. ASSUME NEW x \in OwnerId(w) PROVE x \in Owners(w) <=> x = o /\ pending[w]
    <2>0. x \in Owners(w) <=>
            \/ x[1] = "timer" /\ timer[w] = "armed"
            \/ x[1] = "ins" /\ ins[w] # Null
            \/ x[1] = "list" /\ x[2] \in Entry(w)
            \/ x[1] = "clear" /\ wpc[x[2]] = "clear" /\ Last(fn[x[2]]) = w
            \/ x[1] = "cancel" /\ CancelOwns(x[2], w)
      BY <1>1 DEF Owners
    <2>1. CASE x = <<"none", w>>
      <3>1. x[1] = "none"
        BY <2>1
      <3>. QED BY <2>0, <2>1, <3>1 DEF OwnedBy
    <2>2. CASE x = <<"timer", w>>
      <3>1. x[1] = "timer"
        BY <2>2
      <3>2. x \in Owners(w) <=> timer[w] = "armed"
        BY <2>0, <3>1
      <3>3. x # <<"none", w>>
        BY <2>2
      <3>. QED BY <2>2, <3>2, <3>3 DEF OwnedBy
    <2>3. CASE x = <<"ins", w>>
      <3>1. x[1] = "ins"
        BY <2>3
      <3>2. x \in Owners(w) <=> ins[w] # Null
        BY <2>0, <3>1
      <3>3. x # <<"none", w>>
        BY <2>3
      <3>. QED BY <2>3, <3>2, <3>3 DEF OwnedBy
    <2>4. ASSUME NEW c \in Cpu, x = <<"list", c>> PROVE x \in Owners(w) <=> x = o /\ pending[w]
      <3>1. x[1] = "list" /\ x[2] = c
        BY <2>4
      <3>2. x \in Owners(w) <=> OnList(worklist[c], w)
        BY <2>0, <3>1 DEF Entry
      <3>3. x # <<"none", w>>
        BY <2>4
      <3>. QED BY <2>4, <3>2, <3>3 DEF OwnedBy
    <2>5. ASSUME NEW c \in Cpu, x = <<"clear", c>> PROVE x \in Owners(w) <=> x = o /\ pending[w]
      <3>1. x[1] = "clear" /\ x[2] = c
        BY <2>5
      <3>2. x \in Owners(w) <=> wpc[c] = "clear" /\ current[c] = w
        BY <2>0, <3>1, <1>0
      <3>3. x # <<"none", w>>
        BY <2>5
      <3>. QED BY <2>5, <3>2, <3>3 DEF OwnedBy
    <2>6. ASSUME NEW t \in Task, x = <<"cancel", t>> PROVE x \in Owners(w) <=> x = o /\ pending[w]
      <3>1. x[1] = "cancel" /\ x[2] = t
        BY <2>6
      <3>2. x \in Owners(w) <=> CancelOwns(t, w)
        BY <2>0, <3>1
      <3>3. x # <<"none", w>>
        BY <2>6
      <3>. QED BY <2>6, <3>2, <3>3 DEF OwnedBy
    <2>7. \/ x = <<"none", w>> \/ x = <<"timer", w>> \/ x = <<"ins", w>>
          \/ \E c \in Cpu : x = <<"list", c>> \/ x = <<"clear", c>>
          \/ \E t \in Task : x = <<"cancel", t>>
      BY <1>1 DEF OwnerId
    <2>. QED BY <2>1, <2>2, <2>3, <2>4, <2>5, <2>6, <2>7
  <1>2. Owners(w) \subseteq OwnerId(w)
    BY DEF Owners
  <1>. QED BY <1>1, <1>2

LEMMA InvOwner ==
    ASSUME IInv
    PROVE  OneOwner
  <1>. SUFFICES ASSUME NEW w \in Work
                PROVE  Cardinality(Owners(w)) = (IF pending[w] THEN 1 ELSE 0)
    BY DEF OneOwner, IInv
  <1>1. PICK o \in OwnerId(w) : OwnedBy(w, o)
    BY DEF IInv, OwnerInv
  <1>2. Owners(w) = IF pending[w] THEN {o} ELSE {}
    BY <1>1, OwnerSet
  <1>3. Cardinality({o}) = 1 /\ Cardinality({}) = 0
    BY FS_Singleton, FS_EmptySet
  <1>. QED BY <1>2, <1>3

LEMMA InvBugOns ==
    ASSUME IInv, GrabIsExact
    PROVE  BugOns
  <1>1. ASSUME NEW w \in Work, ins[w] # Null PROVE Entry(w) = {}
    <2>1. OwnedBy(w, <<"ins", w>>)
      BY <1>1, SoleOwner DEF IInv
    <2>2. \A c \in Cpu : ~OnList(worklist[c], w)
      BY <2>1 DEF OwnedBy
    <2>. QED BY <2>2 DEF Entry
  <1>2. ASSUME NEW c \in Cpu, wpc[c] = "clear", Last(fn[c]) \in Work
        PROVE  wqdata[Last(fn[c])] = c
    <2>1. current[c] # Null
      BY <1>2 DEF IInv, FrameInv
    <2>2. Last(fn[c]) = current[c]
      BY <2>1, Frames DEF IInv
    <2>. QED BY <1>2, <2>2 DEF IInv, DataInv
  <1>. QED BY <1>1, <1>2 DEF BugOns, GrabIsExact

\* A grab that succeeded leaves the work with nobody else.
LEMMA InvGrabbed ==
    ASSUME IInv, NEW t \in Task, CancelOwns(t, arg[t])
    PROVE  /\ arg[t] \in Work /\ pending[arg[t]] /\ timer[arg[t]] = "off"
           /\ ins[arg[t]] = Null /\ Entry(arg[t]) = {}
  <1>1. PICK w \in Work : w = arg[t]
    BY DEF IInv, DataInv, CancelOwns, Cancel
  <1>2. OwnedBy(w, <<"cancel", t>>)
    BY <1>1, SoleOwner DEF IInv
  <1>3. pending[w] /\ timer[w] # "armed" /\ ins[w] = Null /\ \A c \in Cpu : ~OnList(worklist[c], w)
    BY <1>2 DEF OwnedBy
  <1>4. timer[w] \in {"off", "armed", "firing"}
    BY DEF IInv, TypeOK
  <1>5. timer[w] = "off"
    BY <1>3, <1>4 DEF IInv, InsertInv
  <1>. QED BY <1>1, <1>3, <1>5 DEF Entry

LEMMA InvCancel ==
    ASSUME IInv
    PROVE  CancelIsSync
  <1>. SUFFICES ASSUME NEW t \in Task, pc[t] = "cclear"
                PROVE  /\ Entry(arg[t]) = {} /\ timer[arg[t]] = "off" /\ ins[arg[t]] = Null
                       /\ \A c \in Cpu : ~ \E i \in DOMAIN fn[c] : fn[c][i] = arg[t]
    BY DEF CancelIsSync
  <1>1. CancelOwns(t, arg[t])
    BY DEF IInv, DataInv, CancelOwns
  <1>2. ASSUME NEW c \in Cpu, NEW i \in DOMAIN fn[c], fn[c][i] = arg[t] PROVE FALSE
    <2>1. current[c] # arg[t]
      BY <1>1 DEF IInv, CancelInv
    <2>2. CASE current[c] = Null
      <3>1. fn[c] = <<>>
        BY <2>2, Frames DEF IInv
      <3>. QED BY <1>2, <3>1
    <2>3. CASE current[c] # Null
      <3>1. fn[c] = <<current[c]>>
        BY <2>3, Frames DEF IInv
      <3>. QED BY <1>2, <2>1, <3>1
    <2>. QED BY <2>2, <2>3
  <1>. QED BY <1>1, <1>2, InvGrabbed

LEMMA InvFlush ==
    ASSUME IInv
    PROVE  FlushIsComplete
  BY NothingOwed DEF IInv, FlushIsComplete

-------------------------------------------------------------------------------
(* Theorems                                                                 *)

\* For any number of CPUs, and work functions that do not flush their own
\* workqueue: as long as the second read of the cwq in try_to_grab_pending is
\* conclusive, the PENDING bit has one owner, cancel_work_sync leaves nothing
\* of the work behind, and flush_workqueue waits for all it found.
THEOREM SafeIfGrabIsExact ==
    ~SelfFlush => (Safety /\ []GrabIsExact => [](OneOwner /\ BugOns /\ CancelIsSync /\ FlushIsComplete))
  <1>. SUFFICES ASSUME ~SelfFlush
                PROVE  Safety /\ []GrabIsExact => [](OneOwner /\ BugOns /\ CancelIsSync /\ FlushIsComplete)
    OBVIOUS
  <1>1. IInv /\ GrabIsExact /\ [Next]_vars => IInv'
    BY NextInv, StutterInv
  <1>2. IInv /\ GrabIsExact => OneOwner /\ BugOns /\ CancelIsSync /\ FlushIsComplete
    BY InvOwner, InvBugOns, InvCancel, InvFlush
  <1>. QED BY <1>1, <1>2, InitInv, PTL DEF Safety

\* With one CPU or two, any number of works and of tasks: the inductive
\* invariant, and that the second read is conclusive.
THEOREM Invariance ==
    ~SelfFlush /\ AtMostTwoCpus => (Safety => [](IInv /\ GrabInv))
  <1>. SUFFICES ASSUME ~SelfFlush, AtMostTwoCpus
                PROVE  Safety => [](IInv /\ GrabInv)
    OBVIOUS
  <1>1. Init => IInv /\ GrabInv
    <2>1. Init => GrabInv
      BY DEF Init, GrabInv
    <2>. QED BY <2>1, InitInv
  <1>2. IInv /\ GrabInv /\ [Next]_vars => (IInv /\ GrabInv)'
    <2>. SUFFICES ASSUME IInv, GrabInv, [Next]_vars PROVE IInv' /\ GrabInv'
      OBVIOUS
    <2>1. CASE Next
      BY <2>1, NextInv, GrabExact, GrabStep
    <2>2. CASE UNCHANGED vars
      <3>1. GrabInv'
        BY <2>2 DEF GrabInv, Settled, CancelOwns, vars, workVars, cwqVars, taskVars, grabVars
      <3>. QED BY <2>2, <3>1, StutterInv
    <2>. QED BY <2>1, <2>2
  <1>. QED BY <1>1, <1>2, PTL DEF Safety

\* With one CPU or two, and work functions that do not flush their own
\* workqueue, the PENDING bit of every work has one owner while it is set (its
\* timer, a __queue_work, a list, the worker or a canceller) and none otherwise.
THEOREM OneOwnerHolds ==
    ~SelfFlush /\ AtMostTwoCpus => (Safety => []OneOwner)
  BY Invariance, InvOwner, PTL

\* Under the same conditions the BUG_ONs of insert_work and run_workqueue never
\* fire, and try_to_grab_pending unlinks a work under the lock of its own list.
THEOREM BugOnsHold ==
    ~SelfFlush /\ AtMostTwoCpus => (Safety => []BugOns)
  <1>1. IInv /\ GrabInv => BugOns
    BY InvBugOns, GrabExact
  <1>. QED BY <1>1, Invariance, PTL

\* Under the same conditions a cancelled work is on no list, has no timer and
\* runs on no CPU when __cancel_work_timer clears its bit.
THEOREM CancelIsSyncHolds ==
    ~SelfFlush /\ AtMostTwoCpus => (Safety => []CancelIsSync)
  BY Invariance, InvCancel, PTL

\* Under the same conditions all works that flush_cpu_workqueue found queued or
\* running have been handled when it returns.
THEOREM FlushIsCompleteHolds ==
    ~SelfFlush /\ AtMostTwoCpus => (Safety => []FlushIsComplete)
  BY Invariance, InvFlush, PTL

\* Under the same conditions a canceller owns the PENDING bit after a successful
\* try_to_grab_pending: nobody else can queue the work.  Three CPUs break this.
THEOREM GrabOwnsPendingHolds ==
    ~SelfFlush /\ AtMostTwoCpus => (Safety => []GrabOwnsPending)
  <1>1. IInv => GrabOwnsPending
    BY InvGrabbed DEF GrabOwnsPending
  <1>. QED BY <1>1, Invariance, PTL

===============================================================================
