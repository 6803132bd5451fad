----------------------------- MODULE SoftirqProofs -----------------------------
(***************************************************************************)
(* TLAPS proofs about Softirq, for any number of CPUs, tasklets and tasks. *)
(***************************************************************************)
EXTENDS Softirq, FiniteSetTheorems, SequenceTheorems, TLAPS

-------------------------------------------------------------------------------
(* The place of a tasklet in the lists of the CPUs, for a family Q of lists *)

QueueType == [Places -> Seq(Tasklet)]

Holds(Q, x) == \E p \in Places : \E k \in 1..Len(Q[p]) : Q[p][k] = x

Unique(Q, x) ==
    \A p, q \in Places : \A j \in 1..Len(Q[p]), k \in 1..Len(Q[q]) :
        Q[p][j] = x /\ Q[q][k] = x => p = q /\ j = k

\* From Q to R list p gets t as its head, loses its head t, or gets all of o.
Prepended(Q, R, p, t) ==
    R[p] = <<t>> \o Q[p] /\ \A q \in Places : q # p => R[q] = Q[q]
Beheaded(Q, R, p, t) ==
    /\ Q[p] # <<>> /\ t = Head(Q[p]) /\ R[p] = Tail(Q[p])
    /\ \A q \in Places : q # p => R[q] = Q[q]
Joined(Q, R, p, o) ==
    /\ R[p] = Q[p] \o Q[o] /\ R[o] = <<>>
    /\ \A q \in Places : q # p /\ q # o => R[q] = Q[q]

\* The elements of a sequence with one more in front, and without its head.
LEMMA PrependSeq ==
    ASSUME NEW S, NEW s \in Seq(S), NEW x \in S, NEW r, r = <<x>> \o s
    PROVE  /\ r \in Seq(S) /\ r # <<>> /\ Len(s) \in Nat /\ Len(r) = Len(s) + 1 /\ r[1] = x
           /\ \A k \in 1..Len(s) : r[k + 1] = s[k]
  <1>1. <<x>> \in Seq(S) /\ Len(<<x>>) = 1 /\ <<x>>[1] = x
    OBVIOUS
  <1>2. PICK n \in Nat : n = Len(s)
    OBVIOUS
  <1>3. /\ r \in Seq(S) /\ Len(r) = 1 + n
        /\ \A i \in 1 .. 1 + n : r[i] = IF i <= 1 THEN x ELSE s[i - 1]
    BY <1>1, <1>2, ConcatProperties
  <1>4. 1 \in 1 .. 1 + n /\ \A k \in 1..n : k + 1 \in 1 .. 1 + n /\ ~(k + 1 <= 1) /\ (k + 1) - 1 = k
    OBVIOUS
  <1>5. r # <<>>
    BY <1>3
  <1>. QED BY <1>2, <1>3, <1>4, <1>5

LEMMA TailSeq ==
    ASSUME NEW S, NEW s \in Seq(S), s # <<>>, NEW r, r = Tail(s)
    PROVE  /\ r \in Seq(S) /\ Len(s) \in Nat \ {0} /\ Len(r) = Len(s) - 1
           /\ Head(s) = s[1] /\ Head(s) \in S
           /\ \A k \in 1..Len(r) : r[k] = s[k + 1]
  OBVIOUS

\* One more element, in front of one list.
LEMMA PrependList ==
    ASSUME NEW Q \in QueueType, NEW R \in QueueType, NEW p \in Places, NEW t \in Tasklet,
           Prepended(Q, R, p, t), ~Holds(Q, t)
    PROVE  /\ \A x : Holds(R, x) <=> Holds(Q, x) \/ x = t
           /\ \A x : Unique(Q, x) => Unique(R, x)
  <1>. USE DEF QueueType, Prepended
  <1>1. PICK n \in Nat : n = Len(Q[p])
    OBVIOUS
  <1>2. Len(R[p]) = n + 1 /\ R[p][1] = t /\ \A k \in 1..n : R[p][k + 1] = Q[p][k]
    <2>1. Q[p] \in Seq(Tasklet)
      OBVIOUS
    <2>. QED BY <1>1, <2>1, PrependSeq
  <1>3. ASSUME NEW q \in Places, NEW k \in 1..Len(R[q])
        PROVE  \/ q = p /\ k = 1 /\ R[q][k] = t
               \/ q = p /\ k - 1 \in 1..Len(Q[q]) /\ R[q][k] = Q[q][k - 1] /\ (k - 1) + 1 = k
               \/ q # p /\ k \in 1..Len(Q[q]) /\ R[q][k] = Q[q][k]
    <2>1. CASE q # p
      BY <2>1
    <2>2. CASE q = p /\ k = 1
      BY <2>2, <1>2
    <2>3. CASE q = p /\ k # 1
      <3>1. k - 1 \in 1..n /\ (k - 1) + 1 = k
        BY <2>3, <1>1, <1>2
      <3>2. R[p][(k - 1) + 1] = Q[p][k - 1]
        BY <3>1, <1>2
      <3>. QED BY <2>3, <3>1, <3>2, <1>1
    <2>. QED BY <2>1, <2>2, <2>3
  <1>4. ASSUME NEW x, Holds(R, x) PROVE Holds(Q, x) \/ x = t
    <2>1. PICK q \in Places : \E k \in 1..Len(R[q]) : R[q][k] = x
      BY <1>4 DEF Holds
    <2>2. PICK k \in 1..Len(R[q]) : R[q][k] = x
      BY <2>1
    <2>. QED BY <2>2, <1>3 DEF Holds
  <1>5. ASSUME NEW x, Holds(Q, x) PROVE Holds(R, x)
    <2>1. PICK q \in Places : \E k \in 1..Len(Q[q]) : Q[q][k] = x
      BY <1>5 DEF Holds
    <2>2. PICK k \in 1..Len(Q[q]) : Q[q][k] = x
      BY <2>1
    <2>3. CASE q = p
      <3>1. k + 1 \in 1..Len(R[p]) /\ R[p][k + 1] = x
        BY <2>2, <2>3, <1>1, <1>2
      <3>. QED BY <3>1 DEF Holds
    <2>4. CASE q # p
      BY <2>2, <2>4 DEF Holds
    <2>. QED BY <2>3, <2>4
  <1>6. Holds(R, t)
    <2>1. 1 \in 1..Len(R[p])
      BY <1>2
    <2>. QED BY <2>1, <1>2 DEF Holds
  <1>7. ASSUME NEW x, Unique(Q, x) PROVE Unique(R, x)
    <2>. SUFFICES ASSUME NEW q \in Places, NEW r \in Places, NEW j \in 1..Len(R[q]), NEW k \in 1..Len(R[r]),
                         R[q][j] = x, R[r][k] = x
                  PROVE  q = r /\ j = k
      BY DEF Unique
    <2>1. CASE x = t
      <3>1. \A i \in Places : \A m \in 1..Len(Q[i]) : Q[i][m] # t
        BY DEF Holds
      <3>2. ASSUME NEW i \in Places, NEW m \in 1..Len(R[i]), R[i][m] = t PROVE i = p /\ m = 1
        <4>1. ~(m - 1 \in 1..Len(Q[i]) /\ R[i][m] = Q[i][m - 1])
          BY <3>1, <3>2
        <4>2. ~(m \in 1..Len(Q[i]) /\ R[i][m] = Q[i][m])
          BY <3>1, <3>2
        <4>. QED BY <4>1, <4>2, <1>3
      <3>3. (q = p /\ j = 1) /\ (r = p /\ k = 1)
        BY <2>1, <3>2
      <3>. QED BY <3>2, <3>3
    <2>2. CASE x # t
      <3>1. \/ q = p /\ j - 1 \in 1..Len(Q[q]) /\ Q[q][j - 1] = x
            \/ q # p /\ j \in 1..Len(Q[q]) /\ Q[q][j] = x
        BY <2>2, <1>3
      <3>2. \/ r = p /\ k - 1 \in 1..Len(Q[r]) /\ Q[r][k - 1] = x
            \/ r # p /\ k \in 1..Len(Q[r]) /\ Q[r][k] = x
        BY <2>2, <1>3
      <3>3. q = r
        BY <3>1, <3>2, <1>7 DEF Unique
      <3>4. CASE q = p
        <4>1. j - 1 = k - 1
          BY <3>1, <3>2, <3>3, <3>4, <1>7 DEF Unique
        <4>. QED BY <4>1, <3>3
      <3>5. CASE q # p
        BY <3>1, <3>2, <3>3, <3>5, <1>7 DEF Unique
      <3>. QED BY <3>4, <3>5
    <2>. QED BY <2>1, <2>2
  <1>. QED BY <1>4, <1>5, <1>6, <1>7

\* One list loses its head.
LEMMA BeheadList ==
    ASSUME NEW Q \in QueueType, NEW R \in QueueType, NEW p \in Places, NEW t \in Tasklet,
           Beheaded(Q, R, p, t), Unique(Q, t)
    PROVE  /\ \A x : Holds(R, x) <=> Holds(Q, x) /\ x # t
           /\ \A x : Unique(Q, x) => Unique(R, x)
           /\ Holds(Q, t)
  <1>. USE DEF QueueType, Beheaded
  <1>1. PICK n \in Nat : n = Len(Q[p]) /\ n # 0
    <2>1. Q[p] \in Seq(Tasklet)
      OBVIOUS
    <2>. QED BY <2>1
  <1>2. Len(R[p]) = n - 1 /\ Q[p][1] = t /\ \A k \in 1..(n - 1) : R[p][k] = Q[p][k + 1]
    <2>1. Q[p] \in Seq(Tasklet)
      OBVIOUS
    <2>. QED BY <1>1, <2>1, TailSeq
  <1>3. ASSUME NEW q \in Places, NEW k \in 1..Len(R[q])
        PROVE  \/ q = p /\ k + 1 \in 1..Len(Q[q]) /\ R[q][k] = Q[q][k + 1] /\ k + 1 # 1
               \/ q # p /\ k \in 1..Len(Q[q]) /\ R[q][k] = Q[q][k]
    <2>1. CASE q # p
      BY <2>1
    <2>2. CASE q = p
      <3>1. k \in 1..(n - 1) /\ k + 1 \in 1..n /\ k + 1 # 1
        BY <2>2, <1>1, <1>2
      <3>. QED BY <2>2, <3>1, <1>1, <1>2
    <2>. QED BY <2>1, <2>2
  <1>4. 1 \in 1..Len(Q[p]) /\ Q[p][1] = t
    BY <1>1, <1>2
  <1>5. ASSUME NEW x, Holds(R, x) PROVE Holds(Q, x) /\ x # t
    <2>1. PICK q \in Places : \E k \in 1..Len(R[q]) : R[q][k] = x
      BY <1>5 DEF Holds
    <2>2. PICK k \in 1..Len(R[q]) : R[q][k] = x
      BY <2>1
    <2>3. CASE q = p
      <3>1. k + 1 \in 1..Len(Q[p]) /\ Q[p][k + 1] = x /\ k + 1 # 1
        BY <2>2, <2>3, <1>3
      <3>2. x # t
        BY <3>1, <1>4 DEF Unique
      <3>. QED BY <3>1, <3>2 DEF Holds
    <2>4. CASE q # p
      <3>1. k \in 1..Len(Q[q]) /\ Q[q][k] = x
        BY <2>2, <2>4, <1>3
      <3>2. x # t
        BY <3>1, <2>4, <1>4 DEF Unique
      <3>. QED BY <3>1, <3>2 DEF Holds
    <2>. QED BY <2>3, <2>4
  <1>6. ASSUME NEW x, Holds(Q, x), x # t PROVE Holds(R, x)
    <2>1. PICK q \in Places : \E k \in 1..Len(Q[q]) : Q[q][k] = x
      BY <1>6 DEF Holds
    <2>2. PICK k \in 1..Len(Q[q]) : Q[q][k] = x
      BY <2>1
    <2>3. CASE q = p
      <3>1. k # 1
        BY <2>2, <2>3, <1>4, <1>6
      <3>2. k - 1 \in 1..(n - 1) /\ (k - 1) + 1 = k
        BY <2>3, <3>1, <1>1
      <3>3. k - 1 \in 1..Len(R[p]) /\ R[p][k - 1] = x
        BY <2>2, <2>3, <3>2, <1>2
      <3>. QED BY <3>3 DEF Holds
    <2>4. CASE q # p
      BY <2>2, <2>4 DEF Holds
    <2>. QED BY <2>3, <2>4
  <1>7. ASSUME NEW x, Unique(Q, x) PROVE Unique(R, x)
    <2>. SUFFICES ASSUME NEW q \in Places, NEW r \in Places, NEW j \in 1..Len(R[q]), NEW k \in 1..Len(R[r]),
                         R[q][j] = x, R[r][k] = x
                  PROVE  q = r /\ j = k
      BY DEF Unique
    <2>1. \/ q = p /\ j + 1 \in 1..Len(Q[q]) /\ Q[q][j + 1] = x
          \/ q # p /\ j \in 1..Len(Q[q]) /\ Q[q][j] = x
      BY <1>3
    <2>2. \/ r = p /\ k + 1 \in 1..Len(Q[r]) /\ Q[r][k + 1] = x
          \/ r # p /\ k \in 1..Len(Q[r]) /\ Q[r][k] = x
      BY <1>3
    <2>3. q = r
      BY <2>1, <2>2, <1>7 DEF Unique
    <2>4. CASE q = p
      <3>1. j + 1 = k + 1
        BY <2>1, <2>2, <2>3, <2>4, <1>7 DEF Unique
      <3>. QED BY <3>1, <2>3
    <2>5. CASE q # p
      BY <2>1, <2>2, <2>3, <2>5, <1>7 DEF Unique
    <2>. QED BY <2>4, <2>5
  <1>8. Holds(Q, t)
    BY <1>4 DEF Holds
  <1>. QED BY <1>5, <1>6, <1>7, <1>8

\* One list is appended to another one and left empty.
LEMMA JoinLists ==
    ASSUME NEW Q \in QueueType, NEW R \in QueueType, NEW p \in Places, NEW o \in Places, p # o,
           Joined(Q, R, p, o)
    PROVE  /\ \A x : Holds(R, x) <=> Holds(Q, x)
           /\ \A x : Unique(Q, x) => Unique(R, x)
  <1>. USE DEF QueueType, Joined
  <1>1. PICK n \in Nat, m \in Nat : n = Len(Q[p]) /\ m = Len(Q[o])
    OBVIOUS
  <1>2. /\ Len(R[p]) = n + m /\ Len(R[o]) = 0
        /\ \A i \in 1..(n + m) : R[p][i] = IF i <= n THEN Q[p][i] ELSE Q[o][i - n]
    <2>1. Q[p] \in Seq(Tasklet) /\ Q[o] \in Seq(Tasklet)
      OBVIOUS
    <2>. QED BY <1>1, <2>1, ConcatProperties
  <1>3. ASSUME NEW q \in Places, NEW k \in 1..Len(R[q])
        PROVE  \/ q = p /\ k \in 1..Len(Q[p]) /\ R[q][k] = Q[p][k] /\ k <= n
               \/ q = p /\ k - n \in 1..Len(Q[o]) /\ R[q][k] = Q[o][k - n]
               \/ q # p /\ q # o /\ k \in 1..Len(Q[q]) /\ R[q][k] = Q[q][k]
    <2>1. CASE q # p
      <3>1. q # o
        BY <1>2
      <3>. QED BY <2>1, <3>1
    <2>2. CASE q = p
      BY <2>2, <1>1, <1>2
    <2>. QED BY <2>1, <2>2
  <1>4. ASSUME NEW x, Holds(R, x) PROVE Holds(Q, x)
    <2>1. PICK q \in Places : \E k \in 1..Len(R[q]) : R[q][k] = x
      BY <1>4 DEF Holds
    <2>2. PICK k \in 1..Len(R[q]) : R[q][k] = x
      BY <2>1
    <2>. QED BY <2>2, <1>3 DEF Holds
  <1>5. ASSUME NEW x, Holds(Q, x) PROVE Holds(R, x)
    <2>1. PICK q \in Places : \E k \in 1..Len(Q[q]) : Q[q][k] = x
      BY <1>5 DEF Holds
    <2>2. PICK k \in 1..Len(Q[q]) : Q[q][k] = x
      BY <2>1
    <2>3. CASE q = p
      <3>1. k \in 1..Len(R[p]) /\ R[p][k] = x
        BY <2>2, <2>3, <1>1, <1>2
      <3>. QED BY <3>1 DEF Holds
    <2>4. CASE q = o
      <3>1. n + k \in 1..(n + m) /\ ~(n + k <= n) /\ (n + k) - n = k
        BY <2>4, <1>1
      <3>2. n + k \in 1..Len(R[p]) /\ R[p][n + k] = x
        BY <2>2, <2>4, <3>1, <1>2
      <3>. QED BY <3>2 DEF Holds
    <2>5. CASE q # p /\ q # o
      BY <2>2, <2>5 DEF Holds
    <2>. QED BY <2>3, <2>4, <2>5
  <1>6. ASSUME NEW x, Unique(Q, x) PROVE Unique(R, x)
    <2>. SUFFICES ASSUME NEW q \in Places, NEW r \in Places, NEW j \in 1..Len(R[q]), NEW k \in 1..Len(R[r]),
                         R[q][j] = x, R[r][k] = x
                  PROVE  q = r /\ j = k
      BY DEF Unique
    <2>1. \/ q = p /\ j \in 1..Len(Q[p]) /\ Q[p][j] = x
          \/ q = p /\ j - n \in 1..Len(Q[o]) /\ Q[o][j - n] = x
          \/ q # p /\ q # o /\ j \in 1..Len(Q[q]) /\ Q[q][j] = x
      BY <1>3
    <2>2. \/ r = p /\ k \in 1..Len(Q[p]) /\ Q[p][k] = x
          \/ r = p /\ k - n \in 1..Len(Q[o]) /\ Q[o][k - n] = x
          \/ r # p /\ r # o /\ k \in 1..Len(Q[r]) /\ Q[r][k] = x
      BY <1>3
    <2>3. q = r
      BY <2>1, <2>2, <1>6 DEF Unique
    <2>4. CASE q = p /\ j \in 1..Len(Q[p]) /\ Q[p][j] = x
      BY <2>4, <2>2, <2>3, <1>6 DEF Unique
    <2>5. CASE q = p /\ j - n \in 1..Len(Q[o]) /\ Q[o][j - n] = x
      <3>1. k - n \in 1..Len(Q[o]) /\ Q[o][k - n] = x
        BY <2>5, <2>2, <2>3, <1>6 DEF Unique
      <3>2. j - n = k - n
        BY <2>5, <3>1, <1>6 DEF Unique
      <3>. QED BY <3>2, <2>3
    <2>6. CASE q # p /\ q # o /\ j \in 1..Len(Q[q]) /\ Q[q][j] = x
      BY <2>6, <2>2, <2>3, <1>6 DEF Unique
    <2>. QED BY <2>1, <2>4, <2>5, <2>6
  <1>. QED BY <1>4, <1>5, <1>6
-------------------------------------------------------------------------------
(* The lists of the CPUs, for the vectors v and the frames s                *)

FrameType == [pc : {"none", "next", "list", "count", "clear", "func", "requeue"},
              todo : SUBSET Nr, nr : Nr \cup {Null}, list : Seq(Tasklet),
              restart : 0..MAX_SOFTIRQ_RESTART]
VecType == [Cpu -> [Nr -> Seq(Tasklet)]]

\* What FrameInv says of a frame by itself
FrameOk(f) ==
    /\ f.pc = "none" => f.todo = {}
    /\ f.pc \in {"none", "next"} => f.list = <<>>
    /\ f.pc \notin {"none", "next"} => f.nr \in Nr
    /\ f.pc \notin {"none", "next", "list"} => f.list # <<>>

QueuesOf(v, s) == [p \in Places |-> IF p[2] = "run" THEN Rest(s[p[1]]) ELSE v[p[1]][p[2]]]

\* Every place is a list of a CPU.
LEMMA PlaceCases ==
    /\ \A p \in Places : \E c \in Cpu : p = <<c, "run">> \/ \E n \in Nr : p = <<c, n>>
    /\ \A c \in Cpu : <<c, "run">> \in Places /\ \A n \in Nr : <<c, n>> \in Places /\ n # "run"
  BY DEF Places, Nr

LEMMA QueuesAt ==
    ASSUME NEW v, NEW s, NEW c \in Cpu
    PROVE  /\ QueuesOf(v, s)[<<c, "run">>] = Rest(s[c])
           /\ \A n \in Nr : QueuesOf(v, s)[<<c, n>>] = v[c][n]
  <1>1. QueuesOf(v, s)[<<c, "run">>] = Rest(s[c])
    BY PlaceCases DEF QueuesOf
  <1>2. ASSUME NEW n \in Nr PROVE QueuesOf(v, s)[<<c, n>>] = v[c][n]
    BY PlaceCases DEF QueuesOf
  <1>. QED BY <1>1, <1>2

LEMMA RestType ==
    ASSUME NEW f \in FrameType, FrameOk(f)
    PROVE  Rest(f) \in Seq(Tasklet)
  <1>1. f.list \in Seq(Tasklet) /\ (f.pc = "func" => f.list # <<>>)
    BY DEF FrameType, FrameOk
  <1>2. f.list # <<>> => Tail(f.list) \in Seq(Tasklet)
    BY <1>1, TailSeq
  <1>. QED BY <1>1, <1>2 DEF Rest

LEMMA QueuesType ==
    ASSUME NEW v \in VecType, NEW s \in [Cpu -> FrameType], \A c \in Cpu : FrameOk(s[c])
    PROVE  QueuesOf(v, s) \in QueueType
  <1>1. ASSUME NEW p \in Places
        PROVE  (IF p[2] = "run" THEN Rest(s[p[1]]) ELSE v[p[1]][p[2]]) \in Seq(Tasklet)
    <2>1. PICK c \in Cpu : p = <<c, "run">> \/ \E n \in Nr : p = <<c, n>>
      BY PlaceCases
    <2>2. CASE p = <<c, "run">>
      <3>1. Rest(s[c]) \in Seq(Tasklet)
        BY RestType
      <3>. QED BY <2>2, <3>1
    <2>3. CASE \E n \in Nr : p = <<c, n>>
      <3>1. PICK n \in Nr : p = <<c, n>>
        BY <2>3
      <3>2. v[c][n] \in Seq(Tasklet) /\ n # "run"
        BY PlaceCases DEF VecType
      <3>. QED BY <3>1, <3>2
    <2>. QED BY <2>1, <2>2, <2>3
  <1>. QED BY <1>1 DEF QueuesOf, QueueType

\* The queues of the two states of a step, which are the same if the vectors
\* are and what is left of the frames is.
LEMMA QueuesStates ==
    Queues = QueuesOf(vec, soft) /\ Queues' = QueuesOf(vec', soft')
  BY DEF Queues, QueuesOf

LEMMA QueuesPlaces ==
    /\ \A d \in Cpu : Queues[<<d, "run">>] = Rest(soft[d]) /\ Queues'[<<d, "run">>] = Rest(soft'[d])
    /\ \A d \in Cpu : \A n \in Nr : Queues[<<d, n>>] = vec[d][n] /\ Queues'[<<d, n>>] = vec'[d][n]
  <1>1. ASSUME NEW d \in Cpu
        PROVE  /\ Queues[<<d, "run">>] = Rest(soft[d])
               /\ \A n \in Nr : Queues[<<d, n>>] = vec[d][n]
    BY QueuesStates, QueuesAt
  <1>2. ASSUME NEW d \in Cpu
        PROVE  /\ Queues'[<<d, "run">>] = Rest(soft'[d])
               /\ \A n \in Nr : Queues'[<<d, n>>] = vec'[d][n]
    BY QueuesStates, QueuesAt
  <1>. QED BY <1>1, <1>2

\* A list outside E is kept when the vector or the frame it is in is.
LEMMA QueuesKept ==
    ASSUME NEW E,
           \A d \in Cpu : <<d, "run">> \notin E => Rest(soft'[d]) = Rest(soft[d]),
           \A d \in Cpu : \A n \in Nr : <<d, n>> \notin E => vec'[d][n] = vec[d][n]
    PROVE  \A q \in Places : q \notin E => Queues'[q] = Queues[q]
  <1>. SUFFICES ASSUME NEW q \in Places, q \notin E PROVE Queues'[q] = Queues[q]
    OBVIOUS
  <1>1. PICK d \in Cpu : q = <<d, "run">> \/ \E n \in Nr : q = <<d, n>>
    BY PlaceCases
  <1>2. CASE q = <<d, "run">>
    BY <1>2, QueuesPlaces
  <1>3. CASE \E n \in Nr : q = <<d, n>>
    <2>1. PICK n \in Nr : q = <<d, n>>
      BY <1>3
    <2>2. vec'[d][n] = vec[d][n]
      BY <2>1
    <2>3. Queues[<<d, n>>] = vec[d][n] /\ Queues'[<<d, n>>] = vec'[d][n]
      BY QueuesPlaces
    <2>. QED BY <2>1, <2>2, <2>3
  <1>. QED BY <1>1, <1>2, <1>3

LEMMA QueuesSame ==
    ASSUME \A c \in Cpu : vec'[c] = vec[c] /\ Rest(soft'[c]) = Rest(soft[c])
    PROVE  Queues' = Queues
  <1>1. ASSUME NEW p \in Places
        PROVE  (IF p[2] = "run" THEN Rest(soft'[p[1]]) ELSE vec'[p[1]][p[2]])
                 = (IF p[2] = "run" THEN Rest(soft[p[1]]) ELSE vec[p[1]][p[2]])
    <2>1. p[1] \in Cpu
      BY DEF Places
    <2>. QED BY <2>1
  <1>. QED BY <1>1, QueuesStates DEF QueuesOf

-------------------------------------------------------------------------------
(* The parts of the invariant                                               *)

\* The types of the variables that a step of __do_softirq changes
LEMMA Types ==
    ASSUME IInv
    PROVE  /\ soft \in [Cpu -> FrameType] /\ vec \in VecType
           /\ \A c \in Cpu : FrameOk(soft[c])
           /\ Queues \in QueueType
  <1>1. soft \in [Cpu -> FrameType] /\ vec \in VecType
    BY DEF IInv, TypeOK, FrameType, VecType
  <1>2. \A c \in Cpu : FrameOk(soft[c])
    BY DEF IInv, FrameInv, FrameOk
  <1>. QED BY <1>1, <1>2, QueuesType, QueuesStates

\* ClaimInv in terms of the queues.
LEMMA ClaimParts ==
    ClaimInv <=>
        \A t \in Tasklet :
            /\ Unique(Queues, t)
            /\ \A u, v \in Task : HoldsClaim(u, t) /\ HoldsClaim(v, t) => u = v
            /\ Holds(Queues, t) => ~\E u \in Task : HoldsClaim(u, t)
            /\ sched[t] <=> Holds(Queues, t) \/ \E u \in Task : HoldsClaim(u, t)
  BY DEF ClaimInv, InQueue, Unique, Holds

LEMMA ClaimPartsPrime ==
    ClaimInv' <=>
        \A t \in Tasklet :
            /\ Unique(Queues', t)
            /\ \A u, v \in Task : HoldsClaim(u, t)' /\ HoldsClaim(v, t)' => u = v
            /\ Holds(Queues', t) => ~\E u \in Task : HoldsClaim(u, t)'
            /\ sched'[t] <=> Holds(Queues', t) \/ \E u \in Task : HoldsClaim(u, t)'
  BY DEF ClaimInv, InQueue, Unique, Holds

\* A step that moves claims from list to list at most.
LEMMA ClaimsMoved ==
    ASSUME ClaimInv, UNCHANGED sched,
           \A u \in Task, t \in Tasklet : HoldsClaim(u, t)' <=> HoldsClaim(u, t),
           \A t \in Tasklet : Holds(Queues', t) <=> Holds(Queues, t),
           \A t \in Tasklet : Unique(Queues, t) => Unique(Queues', t)
    PROVE  ClaimInv'
  BY ClaimParts, ClaimPartsPrime

LEMMA SameClaims ==
    ASSUME ClaimInv, UNCHANGED <<sched, Queues>>,
           \A u \in Task, t \in Tasklet : HoldsClaim(u, t)' <=> HoldsClaim(u, t)
    PROVE  ClaimInv'
  BY ClaimsMoved

\* Tasklet t is scheduled from an interrupt or a softirq and is in a list then.
LEMMA ClaimsPrepended ==
    ASSUME IInv, Queues' \in QueueType, NEW p \in Places, NEW t \in Tasklet,
           Prepended(Queues, Queues', p, t),
           ~sched[t], sched' = [sched EXCEPT ![t] = TRUE], UNCHANGED op
    PROVE  ClaimInv'
  <1>1. \A u \in Task, x \in Tasklet : HoldsClaim(u, x)' <=> HoldsClaim(u, x)
    BY DEF HoldsClaim
  <1>2. ~Holds(Queues, t) /\ ~\E u \in Task : HoldsClaim(u, t)
    BY ClaimParts DEF IInv
  <1>3. /\ \A x : Holds(Queues', x) <=> Holds(Queues, x) \/ x = t
        /\ \A x : Unique(Queues, x) => Unique(Queues', x)
    BY <1>2, Types, PrependList
  <1>4. sched'[t] /\ \A x \in Tasklet : x # t => sched'[x] = sched[x]
    BY DEF IInv, TypeOK
  <1>5. ASSUME NEW x \in Tasklet
        PROVE  /\ Unique(Queues', x)
               /\ \A u, v \in Task : HoldsClaim(u, x)' /\ HoldsClaim(v, x)' => u = v
               /\ Holds(Queues', x) => ~\E u \in Task : HoldsClaim(u, x)'
               /\ sched'[x] <=> Holds(Queues', x) \/ \E u \in Task : HoldsClaim(u, x)'
    <2>1. CASE x = t
      BY <2>1, <1>1, <1>2, <1>3, <1>4, ClaimParts DEF IInv
    <2>2. CASE x # t
      BY <2>2, <1>1, <1>3, <1>4, ClaimParts DEF IInv
    <2>. QED BY <2>1, <2>2
  <1>. QED BY <1>5, ClaimPartsPrime
\* The frame of CPU c becomes f, and tasks at most turn bottom halves on.
LEMMA FrameStep ==
    ASSUME IInv, NEW c \in Cpu, NEW f \in FrameType, FrameOk(f), soft' = [soft EXCEPT ![c] = f],
           \A u \in Task : op'[u].cpu \in {op[u].cpu, Null},
           f.pc # "none" => c \in online /\ ~BhOff(c)', UNCHANGED <<online, hot>>
    PROVE  /\ FrameInv' /\ soft' \in [Cpu -> FrameType] /\ \A d \in Cpu : FrameOk(soft'[d])
           /\ soft'[c] = f /\ \A d \in Cpu : d # c => soft'[d] = soft[d]
  <1>1. /\ soft' \in [Cpu -> FrameType]
        /\ soft'[c] = f /\ \A d \in Cpu : d # c => soft'[d] = soft[d]
    BY Types
  <1>2. \A d \in Cpu : FrameOk(soft'[d])
    BY <1>1, Types
  <1>3. \A d \in Cpu : BhOff(d)' => BhOff(d)
    BY SoftirqAssumption DEF BhOff
  <1>4. ASSUME NEW d \in Cpu
        PROVE  /\ soft'[d].pc # "none" => d \in online' /\ ~BhOff(d)'
               /\ BhOff(d)' => d \in online'
    <2>1. CASE d = c
      BY <2>1, <1>1, <1>3 DEF IInv, FrameInv
    <2>2. CASE d # c
      BY <2>2, <1>1, <1>3 DEF IInv, FrameInv
    <2>. QED BY <2>1, <2>2
  <1>5. \A u, v \in Task : op'[u].cpu = op'[v].cpu /\ op'[u].cpu # Null => u = v
    BY DEF IInv, FrameInv
  <1>6. hot'.pc # "up" => hot'.cpu \in Cpu \ online'
    BY DEF IInv, FrameInv
  <1>7. FrameInv'
    BY <1>2, <1>4, <1>5, <1>6 DEF FrameInv, FrameOk
  <1>. QED BY <1>1, <1>2, <1>7

\* No RUN bit is touched.
LEMMA SameLocks ==
    ASSUME LockInv, UNCHANGED run,
           \A d \in Cpu, t \in Tasklet : Locks(d, t)' <=> Locks(d, t)
    PROVE  LockInv'
  BY DEF LockInv

\* No frame gets past the tests, and no disable or kill goes on.
LEMMA SameDisables ==
    ASSUME DisableInv, UNCHANGED count,
           \A u \in Task : op'[u].t = op[u].t /\ op'[u].pc = op[u].pc,
           \A d \in Cpu : soft'[d].pc \in {"clear", "func"} =>
               soft[d].pc \in {soft'[d].pc, "func"} /\ Cur(d)' = Cur(d)
    PROVE  DisableInv'
  <1>1. \A t : Disabler(t)' = Disabler(t)
    BY DEF Disabler
  <1>2. ASSUME NEW t \in Tasklet, NEW u \in Task, NEW d \in Cpu, op'[u].t = t
        PROVE  /\ op'[u].pc = "disabled" => ~(soft'[d].pc \in {"clear", "func"} /\ Cur(d)' = t)
               /\ op'[u].pc = "kclear" => ~Runs(d, t)'
    BY <1>2 DEF DisableInv, Runs
  <1>. QED BY <1>1, <1>2 DEF DisableInv

\* A frame outside the body of the loop over a list changes, its list does not.
LEMMA IdleFrame ==
    ASSUME IInv, NEW c \in Cpu, NEW f \in FrameType, soft' = [soft EXCEPT ![c] = f],
           soft[c].pc \in {"none", "next", "list"}, f.pc \in {"none", "next", "list"},
           f.list = soft[c].list,
           UNCHANGED <<sched, run, count, vec>>,
           \A u \in Task : op'[u].t = op[u].t /\ op'[u].pc = op[u].pc
    PROVE  ClaimInv' /\ LockInv' /\ DisableInv'
  <1>1. soft'[c] = f /\ \A d \in Cpu : d # c => soft'[d] = soft[d]
    BY Types
  <1>2. \A d \in Cpu, t \in Tasklet : Locks(d, t)' <=> Locks(d, t)
    BY <1>1 DEF Locks, Cur
  <1>3. \A d \in Cpu : soft'[d].pc \in {"clear", "func"} => soft[d].pc = soft'[d].pc /\ Cur(d)' = Cur(d)
    BY <1>1 DEF Cur
  <1>4. Queues' = Queues
    <2>1. \A d \in Cpu : vec'[d] = vec[d] /\ Rest(soft'[d]) = Rest(soft[d])
      BY <1>1 DEF Rest
    <2>. QED BY <2>1, QueuesSame
  <1>5. ClaimInv'
    BY <1>4, SameClaims DEF IInv, HoldsClaim
  <1>6. LockInv'
    BY <1>2, SameLocks DEF IInv
  <1>7. DisableInv'
    BY <1>3, SameDisables DEF IInv
  <1>. QED BY <1>5, <1>6, <1>7

-------------------------------------------------------------------------------
(* __do_softirq, one lemma for each action                                  *)

LEMMA ListEndInv ==
    ASSUME IInv, NEW c \in Cpu, ListEnd(c)
    PROVE  IInv'
  <1>1. /\ UNCHANGED <<sched, run, count, vec, pending, kpc, kstate, op, left, online, hot>>
        /\ soft[c].pc = "list" /\ soft[c].list = <<>>
    BY DEF ListEnd, taskletVars, ksdVars, taskVars, hotVars
  <1>2. PICK f : f = [soft[c] EXCEPT !.pc = "next", !.nr = Null]
    OBVIOUS
  <1>3. soft' = [soft EXCEPT ![c] = f]
    BY <1>2, Types DEF ListEnd, FrameType
  <1>4. /\ f \in FrameType /\ f.pc = "next" /\ f.list = <<>> /\ f.todo = soft[c].todo
    BY <1>1, <1>2, Types DEF FrameType
  <1>5. FrameOk(f) /\ c \in online /\ ~BhOff(c)'
    BY <1>1, <1>4 DEF FrameOk, IInv, FrameInv, BhOff
  <1>6. /\ FrameInv' /\ soft' \in [Cpu -> FrameType]
        /\ soft'[c] = f /\ \A d \in Cpu : d # c => soft'[d] = soft[d]
    BY <1>1, <1>3, <1>4, <1>5, FrameStep
  <1>7. ClaimInv' /\ LockInv' /\ DisableInv'
    BY <1>1, <1>3, <1>4, IdleFrame
  <1>8. TypeOK'
    BY <1>1, <1>6 DEF IInv, TypeOK, FrameType
  <1>9. NothingStranded'
    <2>1. \A d \in Cpu : soft'[d].todo = soft[d].todo /\ (soft'[d].pc = "none" <=> soft[d].pc = "none")
      BY <1>1, <1>4, <1>6
    <2>2. \A d \in Cpu : InInterrupt(d)' <=> InInterrupt(d)
      BY <1>1, <2>1 DEF InInterrupt, BhOff
    <2>. QED BY <1>1, <2>1, <2>2 DEF IInv, NothingStranded
  <1>. QED BY <1>6, <1>7, <1>8, <1>9 DEF IInv

\* A frame that goes on: what stays as it is.
LEMMA BodyFrame ==
    ASSUME IInv, NEW c \in Cpu, NEW f \in FrameType, FrameOk(f), soft' = [soft EXCEPT ![c] = f],
           f.pc # "none", soft[c].pc # "none", f.todo = soft[c].todo,
           UNCHANGED <<op, online, hot>>
    PROVE  /\ FrameInv' /\ soft' \in [Cpu -> FrameType] /\ \A d \in Cpu : FrameOk(soft'[d])
           /\ soft'[c] = f /\ \A d \in Cpu : d # c => soft'[d] = soft[d]
           /\ \A d \in Cpu : soft'[d].todo = soft[d].todo
           /\ \A d \in Cpu : InInterrupt(d)' <=> InInterrupt(d)
  <1>1. c \in online /\ ~BhOff(c) /\ ~BhOff(c)'
    BY DEF IInv, FrameInv, BhOff
  <1>2. /\ FrameInv' /\ soft' \in [Cpu -> FrameType] /\ \A d \in Cpu : FrameOk(soft'[d])
        /\ soft'[c] = f /\ \A d \in Cpu : d # c => soft'[d] = soft[d]
    BY <1>1, FrameStep
  <1>3. \A d \in Cpu : InInterrupt(d)' <=> InInterrupt(d)
    BY <1>2 DEF InInterrupt, BhOff
  <1>. QED BY <1>2, <1>3

\* The list of a frame that is in the body of the loop, and its head
LEMMA BodyList ==
    ASSUME IInv, NEW c \in Cpu, soft[c].list # <<>>
    PROVE  /\ soft[c].list \in Seq(Tasklet) /\ Cur(c) \in Tasklet
           /\ Tail(soft[c].list) \in Seq(Tasklet)
  <1>1. soft[c].list \in Seq(Tasklet)
    BY Types DEF FrameType
  <1>. QED BY <1>1, TailSeq DEF Cur

\* CPU c sets the RUN bit of tasklet x, or clears the one it has set.
LEMMA LockTaken ==
    ASSUME IInv, NEW c \in Cpu, NEW x \in Tasklet, ~run[x], run' = [run EXCEPT ![x] = TRUE],
           \A d \in Cpu, t \in Tasklet : Locks(d, t)' <=> Locks(d, t) \/ (d = c /\ t = x)
    PROVE  LockInv'
  <1>1. run'[x] /\ \A t \in Tasklet : t # x => run'[t] = run[t]
    BY DEF IInv, TypeOK
  <1>2. \A d \in Cpu : ~Locks(d, x)
    BY DEF IInv, LockInv
  <1>3. ASSUME NEW t \in Tasklet
        PROVE  /\ run'[t] <=> \E d \in Cpu : Locks(d, t)'
               /\ \A d, e \in Cpu : Locks(d, t)' /\ Locks(e, t)' => d = e
    <2>1. CASE t = x
      BY <1>1, <1>2, <2>1
    <2>2. CASE t # x
      BY <1>1, <2>2 DEF IInv, LockInv
    <2>. QED BY <2>1, <2>2
  <1>. QED BY <1>3 DEF LockInv

LEMMA LockDropped ==
    ASSUME IInv, NEW c \in Cpu, NEW x \in Tasklet, Locks(c, x), run' = [run EXCEPT ![x] = FALSE],
           \A d \in Cpu, t \in Tasklet : Locks(d, t)' <=> Locks(d, t) /\ d # c
    PROVE  LockInv'
  <1>1. ~run'[x] /\ \A t \in Tasklet : t # x => run'[t] = run[t]
    BY DEF IInv, TypeOK
  <1>2. \A d \in Cpu : Locks(d, x) => d = c
    BY DEF IInv, LockInv
  <1>3. \A t \in Tasklet : t # x => ~Locks(c, t)
    BY DEF Locks
  <1>4. ASSUME NEW t \in Tasklet
        PROVE  /\ run'[t] <=> \E d \in Cpu : Locks(d, t)'
               /\ \A d, e \in Cpu : Locks(d, t)' /\ Locks(e, t)' => d = e
    <2>1. CASE t = x
      BY <1>1, <1>2, <2>1
    <2>2. CASE t # x
      BY <1>1, <1>3, <2>2 DEF IInv, LockInv
    <2>. QED BY <2>1, <2>2
  <1>. QED BY <1>4 DEF LockInv

LEMMA TaskletTrylockInv ==
    ASSUME IInv, NEW c \in Cpu, TaskletTrylock(c)
    PROVE  IInv'
  <1>1. /\ UNCHANGED <<sched, count, vec, pending, kpc, kstate, op, left, online, hot>>
        /\ soft[c].pc = "list" /\ soft[c].list # <<>>
        /\ run' = [run EXCEPT ![Cur(c)] = TRUE]
    BY DEF TaskletTrylock, ksdVars, taskVars, hotVars
  <1>2. PICK x \in Tasklet : x = Cur(c)
    BY <1>1, BodyList
  <1>3. PICK pc \in {"requeue", "count"} : pc = IF run[x] THEN "requeue" ELSE "count"
    OBVIOUS
  <1>4. PICK f : f = [soft[c] EXCEPT !.pc = pc]
    OBVIOUS
  <1>5. soft' = [soft EXCEPT ![c] = f]
    BY <1>2, <1>3, <1>4, Types DEF TaskletTrylock, FrameType
  <1>6. f \in FrameType /\ f.pc = pc /\ f.list = soft[c].list /\ f.todo = soft[c].todo /\ f.nr = soft[c].nr
    BY <1>4, Types DEF FrameType
  <1>7. FrameOk(f)
    BY <1>1, <1>3, <1>6, Types DEF FrameOk
  <1>8. /\ FrameInv' /\ soft' \in [Cpu -> FrameType]
        /\ soft'[c] = f /\ \A d \in Cpu : d # c => soft'[d] = soft[d]
        /\ \A d \in Cpu : soft'[d].todo = soft[d].todo
        /\ \A d \in Cpu : InInterrupt(d)' <=> InInterrupt(d)
    BY <1>1, <1>3, <1>5, <1>6, <1>7, BodyFrame
  <1>9. ClaimInv'
    <2>1. \A d \in Cpu : vec'[d] = vec[d] /\ Rest(soft'[d]) = Rest(soft[d])
      BY <1>1, <1>3, <1>6, <1>8 DEF Rest
    <2>2. \A u \in Task, t \in Tasklet : HoldsClaim(u, t)' <=> HoldsClaim(u, t)
      BY <1>1 DEF HoldsClaim
    <2>. QED BY <1>1, <2>1, <2>2, QueuesSame, SameClaims DEF IInv
  <1>10. \A d \in Cpu : Cur(d)' = Cur(d)
    BY <1>6, <1>8 DEF Cur
  <1>11. LockInv'
    <2>1. CASE run[x]
      <3>1. UNCHANGED run
        BY <1>1, <1>2, <2>1 DEF IInv, TypeOK
      <3>2. \A d \in Cpu, t \in Tasklet : Locks(d, t)' <=> Locks(d, t)
        BY <1>1, <1>3, <1>6, <1>8, <1>10, <2>1 DEF Locks
      <3>. QED BY <3>1, <3>2, SameLocks DEF IInv
    <2>2. CASE ~run[x]
      <3>1. \A d \in Cpu, t \in Tasklet : Locks(d, t)' <=> Locks(d, t) \/ (d = c /\ t = x)
        BY <1>1, <1>2, <1>3, <1>6, <1>8, <1>10, <2>2 DEF Locks
      <3>. QED BY <1>1, <1>2, <2>2, <3>1, LockTaken
    <2>. QED BY <2>1, <2>2
  <1>12. DisableInv'
    <2>1. \A d \in Cpu : soft'[d].pc \in {"clear", "func"} => soft[d].pc = soft'[d].pc
      BY <1>3, <1>6, <1>8
    <2>. QED BY <1>1, <1>10, <2>1, SameDisables DEF IInv
  <1>13. TypeOK'
    BY <1>1, <1>2, <1>8 DEF IInv, TypeOK, FrameType
  <1>14. NothingStranded'
    BY <1>1, <1>8 DEF IInv, NothingStranded
  <1>. QED BY <1>8, <1>9, <1>11, <1>12, <1>13, <1>14 DEF IInv

LEMMA ReadCountInv ==
    ASSUME IInv, NEW c \in Cpu, ReadCount(c)
    PROVE  IInv'
  <1>1. /\ UNCHANGED <<sched, count, vec, pending, kpc, kstate, op, left, online, hot>>
        /\ soft[c].pc = "count" /\ soft[c].list # <<>>
        /\ run' = [run EXCEPT ![Cur(c)] = count[Cur(c)] = 0]
    BY DEF ReadCount, ksdVars, taskVars, hotVars, IInv, FrameInv
  <1>2. PICK x \in Tasklet : x = Cur(c)
    BY <1>1, BodyList
  <1>3. PICK pc \in {"requeue", "clear"} : pc = IF count[x] = 0 THEN "clear" ELSE "requeue"
    OBVIOUS
  <1>4. PICK f : f = [soft[c] EXCEPT !.pc = pc]
    OBVIOUS
  <1>5. soft' = [soft EXCEPT ![c] = f]
    BY <1>2, <1>3, <1>4, Types DEF ReadCount, FrameType
  <1>6. f \in FrameType /\ f.pc = pc /\ f.list = soft[c].list /\ f.todo = soft[c].todo /\ f.nr = soft[c].nr
    BY <1>4, Types DEF FrameType
  <1>7. FrameOk(f)
    BY <1>1, <1>3, <1>6, Types DEF FrameOk
  <1>8. /\ FrameInv' /\ soft' \in [Cpu -> FrameType]
        /\ soft'[c] = f /\ \A d \in Cpu : d # c => soft'[d] = soft[d]
        /\ \A d \in Cpu : soft'[d].todo = soft[d].todo
        /\ \A d \in Cpu : InInterrupt(d)' <=> InInterrupt(d)
    BY <1>1, <1>3, <1>5, <1>6, <1>7, BodyFrame
  <1>9. ClaimInv'
    <2>1. \A d \in Cpu : vec'[d] = vec[d] /\ Rest(soft'[d]) = Rest(soft[d])
      BY <1>1, <1>3, <1>6, <1>8 DEF Rest
    <2>2. \A u \in Task, t \in Tasklet : HoldsClaim(u, t)' <=> HoldsClaim(u, t)
      BY <1>1 DEF HoldsClaim
    <2>. QED BY <1>1, <2>1, <2>2, QueuesSame, SameClaims DEF IInv
  <1>10. \A d \in Cpu : Cur(d)' = Cur(d)
    BY <1>6, <1>8 DEF Cur
  <1>11. Locks(c, x)
    BY <1>1, <1>2 DEF Locks
  <1>12. LockInv' /\ run' \in [Tasklet -> BOOLEAN]
    <2>1. CASE count[x] = 0
      <3>1. run[x]
        BY <1>11 DEF IInv, LockInv
      <3>2. run' = [run EXCEPT ![x] = TRUE]
        BY <1>1, <1>2, <2>1
      <3>3. UNCHANGED run
        BY <3>1, <3>2 DEF IInv, TypeOK
      <3>4. \A d \in Cpu, t \in Tasklet : Locks(d, t)' <=> Locks(d, t)
        BY <1>1, <1>3, <1>6, <1>8, <1>10, <2>1 DEF Locks
      <3>. QED BY <3>3, <3>4, SameLocks DEF IInv, TypeOK
    <2>2. CASE count[x] # 0
      <3>1. run' = [run EXCEPT ![x] = FALSE]
        BY <1>1, <1>2, <2>2
      <3>2. \A d \in Cpu, t \in Tasklet : Locks(d, t)' <=> Locks(d, t) /\ d # c
        BY <1>1, <1>3, <1>6, <1>8, <1>10, <2>2 DEF Locks
      <3>. QED BY <1>11, <3>1, <3>2, LockDropped DEF IInv, TypeOK
    <2>. QED BY <2>1, <2>2
  <1>13. DisableInv'
    <2>1. CASE count[x] # 0
      <3>1. \A d \in Cpu : soft'[d].pc \in {"clear", "func"} => soft[d].pc = soft'[d].pc
        BY <1>3, <1>6, <1>8, <2>1
      <3>. QED BY <1>1, <1>10, <3>1, SameDisables DEF IInv
    <2>2. CASE count[x] = 0
      <3>1. Cardinality(Disabler(x)) = 0
        BY <2>2 DEF IInv, DisableInv
      <3>2. IsFiniteSet(Disabler(x))
        <4>1. Disabler(x) \subseteq Task
          BY DEF Disabler
        <4>. QED BY <4>1, SoftirqAssumption, FS_Subset
      <3>3. Disabler(x) = {}
        BY <3>1, <3>2, FS_EmptySet
      <3>4. \A u \in Task : ~(op[u].t = x /\ op[u].pc = "disabled")
        BY <3>3 DEF Disabler
      <3>5. \A t : Disabler(t)' = Disabler(t)
        BY <1>1 DEF Disabler
      <3>6. ASSUME NEW t \in Tasklet, NEW u \in Task, NEW d \in Cpu, op'[u].t = t
            PROVE  /\ op'[u].pc = "disabled" => ~(soft'[d].pc \in {"clear", "func"} /\ Cur(d)' = t)
                   /\ op'[u].pc = "kclear" => ~Runs(d, t)'
        <4>1. CASE d = c
          BY <4>1, <1>1, <1>2, <1>3, <1>6, <1>8, <1>10, <3>4, <3>6 DEF Runs
        <4>2. CASE d # c
          BY <4>2, <1>1, <1>8, <1>10, <3>6 DEF Runs, IInv, DisableInv
        <4>. QED BY <4>1, <4>2
      <3>. QED BY <1>1, <3>5, <3>6 DEF IInv, DisableInv
    <2>. QED BY <2>1, <2>2
  <1>14. TypeOK'
    BY <1>1, <1>8, <1>12 DEF IInv, TypeOK, FrameType
  <1>15. NothingStranded'
    BY <1>1, <1>8 DEF IInv, NothingStranded
  <1>. QED BY <1>8, <1>9, <1>12, <1>13, <1>14, <1>15 DEF IInv

LEMMA FuncReturnsInv ==
    ASSUME IInv, NEW c \in Cpu, FuncReturns(c)
    PROVE  IInv'
  <1>1. /\ UNCHANGED <<sched, count, vec, pending, kpc, kstate, op, left, online, hot>>
        /\ soft[c].pc = "func" /\ soft[c].list # <<>>
        /\ run' = [run EXCEPT ![Cur(c)] = FALSE]
    BY DEF FuncReturns, ksdVars, taskVars, hotVars, IInv, FrameInv
  <1>2. PICK x \in Tasklet : x = Cur(c)
    BY <1>1, BodyList
  <1>3. PICK l \in Seq(Tasklet) : l = Tail(soft[c].list)
    BY <1>1, BodyList
  <1>4. PICK f : f = [soft[c] EXCEPT !.pc = "list", !.list = l]
    OBVIOUS
  <1>5. soft' = [soft EXCEPT ![c] = f]
    BY <1>3, <1>4, Types DEF FuncReturns, FrameType
  <1>6. f \in FrameType /\ f.pc = "list" /\ f.list = l /\ f.todo = soft[c].todo /\ f.nr = soft[c].nr
    BY <1>4, Types DEF FrameType
  <1>7. FrameOk(f)
    BY <1>1, <1>6, Types DEF FrameOk
  <1>8. /\ FrameInv' /\ soft' \in [Cpu -> FrameType]
        /\ soft'[c] = f /\ \A d \in Cpu : d # c => soft'[d] = soft[d]
        /\ \A d \in Cpu : soft'[d].todo = soft[d].todo
        /\ \A d \in Cpu : InInterrupt(d)' <=> InInterrupt(d)
    BY <1>1, <1>5, <1>6, <1>7, BodyFrame
  <1>9. ClaimInv'
    <2>1. \A d \in Cpu : vec'[d] = vec[d] /\ Rest(soft'[d]) = Rest(soft[d])
      BY <1>1, <1>3, <1>6, <1>8 DEF Rest
    <2>2. \A u \in Task, t \in Tasklet : HoldsClaim(u, t)' <=> HoldsClaim(u, t)
      BY <1>1 DEF HoldsClaim
    <2>. QED BY <1>1, <2>1, <2>2, QueuesSame, SameClaims DEF IInv
  <1>10. LockInv'
    <2>1. Locks(c, x)
      BY <1>1, <1>2 DEF Locks
    <2>2. \A d \in Cpu, t \in Tasklet : Locks(d, t)' <=> Locks(d, t) /\ d # c
      BY <1>6, <1>8 DEF Locks, Cur
    <2>. QED BY <1>1, <1>2, <2>1, <2>2, LockDropped
  <1>11. DisableInv'
    <2>1. \A d \in Cpu : soft'[d].pc \in {"clear", "func"} => soft[d].pc = soft'[d].pc /\ Cur(d)' = Cur(d)
      BY <1>6, <1>8 DEF Cur
    <2>. QED BY <1>1, <2>1, SameDisables DEF IInv
  <1>12. TypeOK'
    BY <1>1, <1>2, <1>8 DEF IInv, TypeOK, FrameType
  <1>13. NothingStranded'
    BY <1>1, <1>8 DEF IInv, NothingStranded
  <1>. QED BY <1>8, <1>9, <1>10, <1>11, <1>12, <1>13 DEF IInv

LEMMA ClearSchedInv ==
    ASSUME IInv, NEW c \in Cpu, ClearSched(c)
    PROVE  IInv'
  <1>1. /\ UNCHANGED <<run, count, vec, pending, kpc, kstate, op, left, online, hot>>
        /\ soft[c].pc = "clear" /\ soft[c].list # <<>>
        /\ sched' = [sched EXCEPT ![Cur(c)] = FALSE]
    BY DEF ClearSched, ksdVars, taskVars, hotVars, IInv, FrameInv
  <1>2. PICK x \in Tasklet : x = Cur(c)
    BY <1>1, BodyList
  <1>3. PICK f : f = [soft[c] EXCEPT !.pc = "func"]
    OBVIOUS
  <1>4. soft' = [soft EXCEPT ![c] = f]
    BY <1>3, Types DEF ClearSched, FrameType
  <1>5. f \in FrameType /\ f.pc = "func" /\ f.list = soft[c].list /\ f.todo = soft[c].todo /\ f.nr = soft[c].nr
    BY <1>3, Types DEF FrameType
  <1>6. FrameOk(f)
    BY <1>1, <1>5, Types DEF FrameOk
  <1>7. /\ FrameInv' /\ soft' \in [Cpu -> FrameType] /\ \A d \in Cpu : FrameOk(soft'[d])
        /\ soft'[c] = f /\ \A d \in Cpu : d # c => soft'[d] = soft[d]
        /\ \A d \in Cpu : soft'[d].todo = soft[d].todo
        /\ \A d \in Cpu : InInterrupt(d)' <=> InInterrupt(d)
    BY <1>1, <1>4, <1>5, <1>6, BodyFrame
  <1>8. Queues' \in QueueType
    BY <1>1, <1>7, Types, QueuesType, QueuesStates
  <1>9. PICK p \in Places : p = <<c, "run">>
    BY PlaceCases
  <1>10. Beheaded(Queues, Queues', p, x)
    <2>1. Queues[p] = soft[c].list /\ Queues'[p] = Tail(soft[c].list)
      BY <1>1, <1>5, <1>7, <1>9, QueuesPlaces DEF Rest
    <2>2. \A q \in Places : q \notin {p} => Queues'[q] = Queues[q]
      <3>1. \A d \in Cpu : <<d, "run">> \notin {p} => Rest(soft'[d]) = Rest(soft[d])
        BY <1>7, <1>9
      <3>. QED BY <1>1, <3>1, QueuesKept
    <2>. QED BY <1>1, <1>2, <2>1, <2>2 DEF Beheaded, Cur
  <1>11. /\ \A y : Holds(Queues', y) <=> Holds(Queues, y) /\ y # x
         /\ \A y : Unique(Queues, y) => Unique(Queues', y)
         /\ Holds(Queues, x)
    <2>1. Unique(Queues, x)
      BY ClaimParts DEF IInv
    <2>. QED BY <2>1, <1>8, <1>10, Types, BeheadList
  <1>12. ~\E u \in Task : HoldsClaim(u, x)
    BY <1>11, ClaimParts DEF IInv
  <1>13. ClaimInv'
    <2>1. \A u \in Task, t \in Tasklet : HoldsClaim(u, t)' <=> HoldsClaim(u, t)
      BY <1>1 DEF HoldsClaim
    <2>2. ~sched'[x] /\ \A t \in Tasklet : t # x => sched'[t] = sched[t]
      BY <1>1, <1>2 DEF IInv, TypeOK
    <2>3. ASSUME NEW t \in Tasklet
          PROVE  /\ Unique(Queues', t)
                 /\ \A u, v \in Task : HoldsClaim(u, t)' /\ HoldsClaim(v, t)' => u = v
                 /\ Holds(Queues', t) => ~\E u \in Task : HoldsClaim(u, t)'
                 /\ sched'[t] <=> Holds(Queues', t) \/ \E u \in Task : HoldsClaim(u, t)'
      <3>1. CASE t = x
        BY <3>1, <1>11, <1>12, <2>1, <2>2, ClaimParts DEF IInv
      <3>2. CASE t # x
        BY <3>2, <1>11, <2>1, <2>2, ClaimParts DEF IInv
      <3>. QED BY <3>1, <3>2
    <2>. QED BY <2>3, ClaimPartsPrime
  <1>14. \A d \in Cpu : Cur(d)' = Cur(d)
    BY <1>5, <1>7 DEF Cur
  <1>15. LockInv'
    <2>1. \A d \in Cpu, t \in Tasklet : Locks(d, t)' <=> Locks(d, t)
      BY <1>1, <1>5, <1>7, <1>14 DEF Locks
    <2>. QED BY <1>1, <2>1, SameLocks DEF IInv
  <1>16. DisableInv'
    <2>1. \A t : Disabler(t)' = Disabler(t)
      BY <1>1 DEF Disabler
    <2>2. ASSUME NEW t \in Tasklet, NEW u \in Task, NEW d \in Cpu, op'[u].t = t
          PROVE  /\ op'[u].pc = "disabled" => ~(soft'[d].pc \in {"clear", "func"} /\ Cur(d)' = t)
                 /\ op'[u].pc = "kclear" => ~Runs(d, t)'
      <3>1. op[u].t = t /\ op'[u].pc = op[u].pc
        BY <1>1, <2>2
      <3>2. CASE d = c
        <4>1. op[u].pc = "disabled" => Cur(c) # t
          BY <1>1, <3>1 DEF IInv, DisableInv
        <4>2. op[u].pc = "kclear" => Cur(c) # t
          BY <1>2, <1>12, <3>1 DEF HoldsClaim
        <4>. QED BY <3>1, <3>2, <4>1, <4>2, <1>14 DEF Runs
      <3>3. CASE d # c
        BY <3>1, <3>3, <1>7, <1>14 DEF Runs, IInv, DisableInv
      <3>. QED BY <3>2, <3>3
    <2>. QED BY <1>1, <2>1, <2>2 DEF IInv, DisableInv
  <1>17. TypeOK'
    BY <1>1, <1>2, <1>7 DEF IInv, TypeOK, FrameType
  <1>18. NothingStranded'
    BY <1>1, <1>7 DEF IInv, NothingStranded
  <1>. QED BY <1>7, <1>13, <1>15, <1>16, <1>17, <1>18 DEF IInv

LEMMA TakeListInv ==
    ASSUME IInv, NEW c \in Cpu, TakeList(c)
    PROVE  IInv'
  <1>1. PICK n \in Nr : n = FirstOf(soft[c].todo)
    BY DEF FirstOf, Nr
  <1>2. /\ UNCHANGED <<sched, run, count, pending, kpc, kstate, op, left, online, hot>>
        /\ soft[c].pc = "next" /\ soft[c].list = <<>>
        /\ vec' = [vec EXCEPT ![c][n] = <<>>]
    BY <1>1 DEF TakeList, taskletVars, ksdVars, taskVars, hotVars, IInv, FrameInv
  <1>3. /\ vec' \in VecType /\ vec'[c][n] = <<>> /\ vec[c][n] \in Seq(Tasklet)
        /\ \A d \in Cpu, m \in Nr : ~(d = c /\ m = n) => vec'[d][m] = vec[d][m]
    <2>1. <<>> \in Seq(Tasklet)
      OBVIOUS
    <2>. QED BY <1>2, <2>1, Types DEF VecType
  <1>4. PICK f : f = [soft[c] EXCEPT !.pc = "list", !.todo = @ \ {n}, !.nr = n, !.list = vec[c][n]]
    OBVIOUS
  <1>5. soft' = [soft EXCEPT ![c] = f]
    BY <1>1, <1>4, Types DEF TakeList, FrameType
  <1>6. /\ f \in FrameType /\ f.pc = "list" /\ f.list = vec[c][n] /\ f.nr = n
        /\ f.todo = soft[c].todo \ {n}
    BY <1>3, <1>4, Types DEF FrameType
  <1>7. FrameOk(f)
    BY <1>6 DEF FrameOk
  <1>8. c \in online /\ ~BhOff(c)'
    BY <1>2 DEF IInv, FrameInv, BhOff
  <1>9. /\ FrameInv' /\ soft' \in [Cpu -> FrameType] /\ \A d \in Cpu : FrameOk(soft'[d])
        /\ soft'[c] = f /\ \A d \in Cpu : d # c => soft'[d] = soft[d]
    BY <1>2, <1>5, <1>6, <1>7, <1>8, FrameStep
  <1>10. Queues' \in QueueType
    BY <1>3, <1>9, QueuesType, QueuesStates
  <1>11. PICK p \in Places, o \in Places : p = <<c, "run">> /\ o = <<c, n>>
    BY PlaceCases
  <1>12. p # o
    BY <1>11, PlaceCases
  <1>13. Joined(Queues, Queues', p, o)
    <2>1. Queues[p] = <<>> /\ Queues'[p] = vec[c][n] /\ Queues[o] = vec[c][n] /\ Queues'[o] = <<>>
      <3>1. Queues[p] = Rest(soft[c]) /\ Queues'[p] = Rest(soft'[c])
        BY <1>11, QueuesPlaces
      <3>2. Queues[o] = vec[c][n] /\ Queues'[o] = vec'[c][n]
        BY <1>11, QueuesPlaces
      <3>. QED BY <3>1, <3>2, <1>2, <1>3, <1>6, <1>9 DEF Rest
    <2>2. <<>> \o vec[c][n] = vec[c][n]
      BY <1>3, ConcatEmptySeq
    <2>3. \A q \in Places : q \notin {p, o} => Queues'[q] = Queues[q]
      <3>1. \A d \in Cpu : <<d, "run">> \notin {p, o} => Rest(soft'[d]) = Rest(soft[d])
        BY <1>9, <1>11
      <3>2. \A d \in Cpu : \A m \in Nr : <<d, m>> \notin {p, o} => vec'[d][m] = vec[d][m]
        BY <1>3, <1>11
      <3>. QED BY <3>1, <3>2, QueuesKept
    <2>. QED BY <2>1, <2>2, <2>3 DEF Joined
  <1>14. ClaimInv'
    <2>1. /\ \A x : Holds(Queues', x) <=> Holds(Queues, x)
          /\ \A x : Unique(Queues, x) => Unique(Queues', x)
      BY <1>10, <1>12, <1>13, Types, JoinLists
    <2>2. \A u \in Task, t \in Tasklet : HoldsClaim(u, t)' <=> HoldsClaim(u, t)
      BY <1>2 DEF HoldsClaim
    <2>. QED BY <1>2, <2>1, <2>2, ClaimsMoved DEF IInv
  <1>15. LockInv'
    <2>1. \A d \in Cpu, t \in Tasklet : Locks(d, t)' <=> Locks(d, t)
      BY <1>2, <1>6, <1>9 DEF Locks, Cur
    <2>. QED BY <1>2, <2>1, SameLocks DEF IInv
  <1>16. DisableInv'
    <2>1. \A d \in Cpu : soft'[d].pc \in {"clear", "func"} => soft[d].pc = soft'[d].pc /\ Cur(d)' = Cur(d)
      BY <1>6, <1>9 DEF Cur
    <2>. QED BY <1>2, <2>1, SameDisables DEF IInv
  <1>17. TypeOK'
    BY <1>2, <1>3, <1>9 DEF IInv, TypeOK, FrameType, VecType
  <1>18. NothingStranded'
    <2>1. \A d \in Cpu : InInterrupt(d)' <=> InInterrupt(d)
      BY <1>2, <1>6, <1>9 DEF InInterrupt, BhOff
    <2>2. ASSUME NEW d \in Cpu, NEW m \in Nr, vec'[d][m] # <<>>
          PROVE  \/ d \in online' /\ m \in pending'[d] \cup soft'[d].todo
                 \/ d = hot'.cpu /\ hot'.pc \in {"dead", "stop"}
      <3>1. ~(d = c /\ m = n) /\ vec[d][m] # <<>>
        BY <1>3, <2>2
      <3>2. m \in soft[d].todo => m \in soft'[d].todo
        BY <3>1, <1>6, <1>9
      <3>. QED BY <3>1, <3>2, <1>2 DEF IInv, NothingStranded
    <2>. QED BY <1>2, <2>1, <2>2 DEF IInv, NothingStranded
  <1>. QED BY <1>9, <1>14, <1>15, <1>16, <1>17, <1>18 DEF IInv

\* From the vectors v to w, list n of CPU c gets t as its head.
Pushed(v, w, c, n, t) ==
    /\ w \in VecType /\ w[c][n] = <<t>> \o v[c][n]
    /\ \A d \in Cpu : \A m \in Nr : <<d, m>> # <<c, n>> => w[d][m] = v[d][m]

LEMMA VecPushed ==
    ASSUME IInv, NEW c \in Cpu, NEW n \in Nr, NEW t \in Tasklet,
           vec' = [vec EXCEPT ![c][n] = <<t>> \o @]
    PROVE  Pushed(vec, vec', c, n, t)
  <1>1. vec \in VecType /\ vec[c][n] \in Seq(Tasklet)
    BY Types DEF VecType
  <1>2. PICK l \in Seq(Tasklet) : l = <<t>> \o vec[c][n]
    BY <1>1, PrependSeq
  <1>3. vec' = [vec EXCEPT ![c][n] = l]
    BY <1>1, <1>2 DEF VecType
  <1>. QED BY <1>1, <1>2, <1>3 DEF Pushed, VecType

LEMMA QueuesPushed ==
    ASSUME IInv, NEW c \in Cpu, NEW n \in Nr, NEW t \in Tasklet, Pushed(vec, vec', c, n, t),
           soft' \in [Cpu -> FrameType], \A d \in Cpu : FrameOk(soft'[d]),
           \A d \in Cpu : Rest(soft'[d]) = Rest(soft[d])
    PROVE  Queues' \in QueueType /\ <<c, n>> \in Places /\ Prepended(Queues, Queues', <<c, n>>, t)
  <1>1. Queues' \in QueueType
    BY QueuesType, QueuesStates DEF Pushed
  <1>2. PICK p \in Places : p = <<c, n>>
    BY PlaceCases
  <1>3. Queues'[p] = <<t>> \o Queues[p]
    BY <1>2, QueuesPlaces DEF Pushed
  <1>4. \A q \in Places : q \notin {p} => Queues'[q] = Queues[q]
    <2>1. \A d \in Cpu : \A m \in Nr : <<d, m>> \notin {p} => vec'[d][m] = vec[d][m]
      BY <1>2 DEF Pushed
    <2>. QED BY <2>1, QueuesKept
  <1>. QED BY <1>1, <1>2, <1>3, <1>4 DEF Prepended

\* A list that gets one more tasklet is in the mask, or is about to be taken.
LEMMA PushStranded ==
    ASSUME IInv, NEW c \in Cpu, NEW n \in Nr, NEW t \in Tasklet, Pushed(vec, vec', c, n, t),
           c \in online, n \in pending'[c] \cup soft'[c].todo,
           \A d \in Cpu : pending[d] \cup soft[d].todo \subseteq pending'[d] \cup soft'[d].todo,
           UNCHANGED <<online, hot>>
    PROVE  \A d \in Cpu : \A m \in Nr : vec'[d][m] # <<>> =>
               \/ d \in online' /\ m \in pending'[d] \cup soft'[d].todo
               \/ d = hot'.cpu /\ hot'.pc \in {"dead", "stop"}
  <1>. SUFFICES ASSUME NEW d \in Cpu, NEW m \in Nr, vec'[d][m] # <<>>
                PROVE  \/ d \in online' /\ m \in pending'[d] \cup soft'[d].todo
                       \/ d = hot'.cpu /\ hot'.pc \in {"dead", "stop"}
    OBVIOUS
  <1>1. CASE d = c /\ m = n
    BY <1>1
  <1>2. CASE ~(d = c /\ m = n)
    <2>1. vec[d][m] # <<>>
      BY <1>2 DEF Pushed
    <2>2. \/ d \in online /\ m \in pending[d] \cup soft[d].todo
          \/ d = hot.cpu /\ hot.pc \in {"dead", "stop"}
      BY <2>1 DEF IInv, NothingStranded
    <2>. QED BY <2>2
  <1>. QED BY <1>1, <1>2

LEMMA FuncSchedulesInv ==
    ASSUME IInv, NEW c \in Cpu, NEW t \in Tasklet, FuncSchedules(c, t)
    PROVE  IInv'
  <1>1. PICK n \in Nr : n = VecOf(t)
    BY DEF VecOf, Nr
  <1>2. /\ UNCHANGED <<run, count, soft, kpc, kstate, op, left, online, hot>>
        /\ soft[c].pc = "func" /\ ~sched[t] /\ sched' = [sched EXCEPT ![t] = TRUE]
        /\ vec' = [vec EXCEPT ![c][n] = <<t>> \o @]
        /\ pending' = [pending EXCEPT ![c] = @ \cup {n}]
    BY <1>1 DEF FuncSchedules, ksdVars, taskVars, hotVars
  <1>3. Pushed(vec, vec', c, n, t)
    BY <1>2, VecPushed
  <1>4. Queues' \in QueueType /\ <<c, n>> \in Places /\ Prepended(Queues, Queues', <<c, n>>, t)
    BY <1>2, <1>3, Types, QueuesPushed
  <1>5. ClaimInv'
    BY <1>2, <1>4, ClaimsPrepended
  <1>6. FrameInv'
    BY <1>2 DEF IInv, FrameInv, BhOff
  <1>7. LockInv'
    BY <1>2, SameLocks DEF IInv, Locks, Cur
  <1>8. DisableInv'
    BY <1>2, SameDisables DEF IInv, Cur
  <1>9. /\ pending' \in [Cpu -> SUBSET Nr] /\ pending'[c] = pending[c] \cup {n}
        /\ \A d \in Cpu : d # c => pending'[d] = pending[d]
    BY <1>2 DEF IInv, TypeOK
  <1>10. TypeOK'
    BY <1>2, <1>3, <1>9 DEF IInv, TypeOK, Pushed, VecType
  <1>11. NothingStranded'
    <2>1. c \in online
      BY <1>2 DEF IInv, FrameInv
    <2>2. \A d \in Cpu : \A m \in Nr : vec'[d][m] # <<>> =>
             \/ d \in online' /\ m \in pending'[d] \cup soft'[d].todo
             \/ d = hot'.cpu /\ hot'.pc \in {"dead", "stop"}
      BY <1>2, <1>3, <1>9, <2>1, PushStranded
    <2>3. \A d \in Cpu : InInterrupt(d)' <=> InInterrupt(d)
      BY <1>2 DEF InInterrupt, BhOff
    <2>4. InInterrupt(c)
      BY <1>2 DEF InInterrupt
    <2>5. \A d \in Cpu : d \in online' /\ pending'[d] # {} =>
             InInterrupt(d)' \/ kstate'[d] = "RUNNING" \/ kpc'[d] = "top"
      BY <1>2, <1>9, <2>3, <2>4 DEF IInv, NothingStranded
    <2>. QED BY <2>2, <2>5 DEF NothingStranded
  <1>. QED BY <1>5, <1>6, <1>7, <1>8, <1>10, <1>11 DEF IInv

LEMMA RequeueInv ==
    ASSUME IInv, NEW c \in Cpu, Requeue(c)
    PROVE  IInv'
  <1>1. /\ UNCHANGED <<sched, run, count, kpc, kstate, op, left, online, hot>>
        /\ soft[c].pc = "requeue" /\ soft[c].list # <<>>
    BY DEF Requeue, taskletVars, ksdVars, taskVars, hotVars, IInv, FrameInv
  <1>2. PICK n \in Nr : n = soft[c].nr
    BY <1>1 DEF IInv, FrameInv
  <1>3. PICK x \in Tasklet : x = Cur(c)
    BY <1>1, BodyList
  <1>4. PICK l \in Seq(Tasklet) : l = Tail(soft[c].list)
    BY <1>1, BodyList
  <1>5. /\ vec' = [vec EXCEPT ![c][n] = <<x>> \o @]
        /\ pending' = [pending EXCEPT ![c] = @ \cup {n}]
    BY <1>2, <1>3 DEF Requeue
  <1>6. PICK f : f = [soft[c] EXCEPT !.pc = "list", !.list = l]
    OBVIOUS
  <1>7. soft' = [soft EXCEPT ![c] = f]
    BY <1>4, <1>6, Types DEF Requeue, FrameType
  <1>8. f \in FrameType /\ f.pc = "list" /\ f.list = l /\ f.todo = soft[c].todo /\ f.nr = n
    BY <1>2, <1>6, Types DEF FrameType
  <1>9. FrameOk(f)
    BY <1>8 DEF FrameOk
  <1>10. /\ FrameInv' /\ soft' \in [Cpu -> FrameType] /\ \A d \in Cpu : FrameOk(soft'[d])
         /\ soft'[c] = f /\ \A d \in Cpu : d # c => soft'[d] = soft[d]
         /\ \A d \in Cpu : soft'[d].todo = soft[d].todo
         /\ \A d \in Cpu : InInterrupt(d)' <=> InInterrupt(d)
    BY <1>1, <1>7, <1>8, <1>9, BodyFrame
  <1>11. Pushed(vec, vec', c, n, x)
    BY <1>5, VecPushed
  <1>12. PICK p \in Places, o \in Places : p = <<c, "run">> /\ o = <<c, n>> /\ p # o
    <2>1. <<c, "run">> \in Places /\ <<c, n>> \in Places /\ n # "run"
      BY PlaceCases
    <2>. QED BY <2>1
  <1>13. Queues' \in QueueType /\ Queues \in QueueType
    BY <1>10, <1>11, Types, QueuesType, QueuesStates DEF Pushed
  <1>14. /\ Queues[p] = soft[c].list /\ Queues'[p] = l
         /\ Queues'[o] = <<x>> \o Queues[o]
    <2>1. Queues[p] = Rest(soft[c]) /\ Queues'[p] = Rest(soft'[c])
      BY <1>12, QueuesPlaces
    <2>2. Queues[o] = vec[c][n] /\ Queues'[o] = vec'[c][n]
      BY <1>12, QueuesPlaces
    <2>. QED BY <2>1, <2>2, <1>1, <1>8, <1>10, <1>11 DEF Rest, Pushed
  <1>15. \A q \in Places : q \notin {p, o} => Queues'[q] = Queues[q]
    <2>1. \A d \in Cpu : <<d, "run">> \notin {p, o} => Rest(soft'[d]) = Rest(soft[d])
      BY <1>10, <1>12
    <2>2. \A d \in Cpu : \A m \in Nr : <<d, m>> \notin {p, o} => vec'[d][m] = vec[d][m]
      BY <1>11, <1>12 DEF Pushed
    <2>. QED BY <2>1, <2>2, QueuesKept
  <1>16. PICK R \in QueueType : Beheaded(Queues, R, p, x) /\ Prepended(R, Queues', o, x)
    <2>1. PICK R : R = [Queues EXCEPT ![p] = l]
      OBVIOUS
    <2>2. R \in QueueType /\ R[p] = l /\ \A q \in Places : q # p => R[q] = Queues[q]
      BY <1>13, <2>1 DEF QueueType
    <2>3. Beheaded(Queues, R, p, x)
      BY <1>1, <1>3, <1>4, <1>14, <2>2 DEF Beheaded, Cur
    <2>4. Prepended(R, Queues', o, x)
      BY <1>12, <1>14, <1>15, <2>2 DEF Prepended
    <2>. QED BY <2>2, <2>3, <2>4
  <1>17. ClaimInv'
    <2>1. Unique(Queues, x)
      BY ClaimParts DEF IInv
    <2>2. /\ \A y : Holds(R, y) <=> Holds(Queues, y) /\ y # x
          /\ \A y : Unique(Queues, y) => Unique(R, y)
          /\ Holds(Queues, x)
      BY <2>1, <1>13, <1>16, BeheadList
    <2>3. ~Holds(R, x)
      BY <2>2
    <2>4. /\ \A y : Holds(Queues', y) <=> Holds(R, y) \/ y = x
          /\ \A y : Unique(R, y) => Unique(Queues', y)
      BY <2>3, <1>13, <1>16, PrependList
    <2>5. \A u \in Task, t \in Tasklet : HoldsClaim(u, t)' <=> HoldsClaim(u, t)
      BY <1>1 DEF HoldsClaim
    <2>6. \A t \in Tasklet : Holds(Queues', t) <=> Holds(Queues, t)
      BY <2>2, <2>4
    <2>7. \A t \in Tasklet : Unique(Queues, t) => Unique(Queues', t)
      BY <2>2, <2>4
    <2>. QED BY <1>1, <2>5, <2>6, <2>7, ClaimsMoved DEF IInv
  <1>18. LockInv'
    <2>1. \A d \in Cpu, t \in Tasklet : Locks(d, t)' <=> Locks(d, t)
      BY <1>1, <1>8, <1>10 DEF Locks, Cur
    <2>. QED BY <1>1, <2>1, SameLocks DEF IInv
  <1>19. DisableInv'
    <2>1. \A d \in Cpu : soft'[d].pc \in {"clear", "func"} => soft[d].pc = soft'[d].pc /\ Cur(d)' = Cur(d)
      BY <1>8, <1>10 DEF Cur
    <2>. QED BY <1>1, <2>1, SameDisables DEF IInv
  <1>20. /\ pending' \in [Cpu -> SUBSET Nr] /\ pending'[c] = pending[c] \cup {n}
         /\ \A d \in Cpu : d # c => pending'[d] = pending[d]
    BY <1>5 DEF IInv, TypeOK
  <1>21. TypeOK'
    BY <1>1, <1>10, <1>11, <1>20 DEF IInv, TypeOK, Pushed, VecType, FrameType
  <1>22. NothingStranded'
    <2>1. c \in online
      BY <1>1 DEF IInv, FrameInv
    <2>2. \A d \in Cpu : \A m \in Nr : vec'[d][m] # <<>> =>
             \/ d \in online' /\ m \in pending'[d] \cup soft'[d].todo
             \/ d = hot'.cpu /\ hot'.pc \in {"dead", "stop"}
      <3>1. \A d \in Cpu : pending[d] \cup soft[d].todo \subseteq pending'[d] \cup soft'[d].todo
        BY <1>10, <1>20
      <3>. QED BY <1>1, <1>11, <1>20, <2>1, <3>1, PushStranded
    <2>3. InInterrupt(c)
      BY <1>1 DEF InInterrupt
    <2>4. \A d \in Cpu : d \in online' /\ pending'[d] # {} =>
             InInterrupt(d)' \/ kstate'[d] = "RUNNING" \/ kpc'[d] = "top"
      BY <1>1, <1>10, <1>20, <2>3 DEF IInv, NothingStranded
    <2>. QED BY <2>2, <2>4 DEF NothingStranded
  <1>. QED BY <1>10, <1>17, <1>18, <1>19, <1>21, <1>22 DEF IInv

LEMMA FrameFacts ==
    ASSUME NEW mask \in SUBSET Nr, NEW r \in 0..MAX_SOFTIRQ_RESTART
    PROVE  /\ Frame(mask, r) \in FrameType /\ FrameOk(Frame(mask, r))
           /\ Frame(mask, r).pc = "next" /\ Frame(mask, r).todo = mask /\ Frame(mask, r).list = <<>>
           /\ NoFrame \in FrameType /\ FrameOk(NoFrame)
           /\ NoFrame.pc = "none" /\ NoFrame.todo = {} /\ NoFrame.list = <<>>
  <1>1. <<>> \in Seq(Tasklet) /\ 0 \in 0..MAX_SOFTIRQ_RESTART
    BY SoftirqAssumption
  <1>. QED BY <1>1 DEF Frame, NoFrame, FrameType, FrameOk

\* do_softirq on a CPU where nothing is in its way: its mask is clear then.
LEMMA DoSoftirqParts ==
    ASSUME IInv, NEW c \in Cpu, c \in online, soft[c].pc = "none", ~BhOff(c)', DoSoftirq(c),
           \A u \in Task : op'[u].t = op[u].t /\ op'[u].pc = op[u].pc,
           \A u \in Task : op'[u].cpu \in {op[u].cpu, Null},
           UNCHANGED <<sched, run, count, vec, online, hot>>
    PROVE  /\ FrameInv' /\ ClaimInv' /\ LockInv' /\ DisableInv'
           /\ soft' \in [Cpu -> FrameType] /\ pending' \in [Cpu -> SUBSET Nr]
           /\ pending'[c] = {} /\ pending[c] \subseteq soft'[c].todo
           /\ \A d \in Cpu : d # c => pending'[d] = pending[d] /\ soft'[d] = soft[d]
  <1>1. soft[c].list = <<>> /\ soft[c].todo = {} /\ soft[c] \in FrameType /\ FrameOk(soft[c])
    BY Types DEF FrameOk
  <1>2. pending \in [Cpu -> SUBSET Nr]
    BY DEF IInv, TypeOK
  <1>3. PICK f : /\ soft' = [soft EXCEPT ![c] = f] /\ f \in FrameType /\ FrameOk(f)
                 /\ f.pc \in {"none", "next"} /\ f.list = <<>>
                 /\ pending' \in [Cpu -> SUBSET Nr]
                 /\ pending'[c] = {} /\ pending[c] \subseteq f.todo
                 /\ \A d \in Cpu : d # c => pending'[d] = pending[d]
    <2>1. CASE pending[c] = {}
      <3>1. soft' = [soft EXCEPT ![c] = soft[c]] /\ pending' = pending
        BY <2>1, Types DEF DoSoftirq
      <3>. QED BY <1>1, <1>2, <2>1, <3>1
    <2>2. CASE pending[c] # {}
      <3>1. PICK r \in 0..MAX_SOFTIRQ_RESTART : r = MAX_SOFTIRQ_RESTART
        BY SoftirqAssumption
      <3>2. PICK mask \in SUBSET Nr : mask = pending[c]
        BY <1>2
      <3>3. PICK f : f = Frame(mask, r)
        OBVIOUS
      <3>4. soft' = [soft EXCEPT ![c] = f] /\ pending' = [pending EXCEPT ![c] = {}]
        BY <2>2, <3>1, <3>2, <3>3 DEF DoSoftirq
      <3>5. f \in FrameType /\ FrameOk(f) /\ f.pc = "next" /\ f.list = <<>> /\ f.todo = mask
        BY <3>3, FrameFacts
      <3>6. /\ pending' \in [Cpu -> SUBSET Nr] /\ pending'[c] = {}
            /\ \A d \in Cpu : d # c => pending'[d] = pending[d]
        BY <1>2, <3>4
      <3>. QED BY <3>2, <3>4, <3>5, <3>6
    <2>. QED BY <2>1, <2>2
  <1>4. /\ FrameInv' /\ soft' \in [Cpu -> FrameType]
        /\ soft'[c] = f /\ \A d \in Cpu : d # c => soft'[d] = soft[d]
    BY <1>3, FrameStep
  <1>5. ClaimInv' /\ LockInv' /\ DisableInv'
    BY <1>1, <1>3, IdleFrame
  <1>. QED BY <1>3, <1>4, <1>5

\* The mask of c is clear now, the others are as before.
LEMMA DoSoftirqStranded ==
    ASSUME IInv, NEW c \in Cpu, c \in online, pending'[c] = {}, pending[c] \cup soft[c].todo \subseteq soft'[c].todo,
           \A d \in Cpu : d # c => pending'[d] = pending[d] /\ soft'[d] = soft[d],
           \A d \in Cpu : d # c => (BhOff(d)' <=> BhOff(d)),
           \A d \in Cpu : d # c => kpc'[d] = kpc[d],
           UNCHANGED <<vec, kstate, online, hot>>
    PROVE  NothingStranded'
  <1>1. ASSUME NEW d \in Cpu, NEW m \in Nr, vec'[d][m] # <<>>
        PROVE  \/ d \in online' /\ m \in pending'[d] \cup soft'[d].todo
               \/ d = hot'.cpu /\ hot'.pc \in {"dead", "stop"}
    <2>1. \/ d \in online /\ m \in pending[d] \cup soft[d].todo
          \/ d = hot.cpu /\ hot.pc \in {"dead", "stop"}
      BY <1>1 DEF IInv, NothingStranded
    <2>2. CASE d = c
      BY <2>1, <2>2
    <2>3. CASE d # c
      BY <2>1, <2>3
    <2>. QED BY <2>2, <2>3
  <1>2. ASSUME NEW d \in Cpu, d \in online', pending'[d] # {}
        PROVE  InInterrupt(d)' \/ kstate'[d] = "RUNNING" \/ kpc'[d] = "top"
    <2>1. d # c
      BY <1>2
    <2>2. InInterrupt(d)' <=> InInterrupt(d)
      BY <2>1 DEF InInterrupt
    <2>. QED BY <2>1, <2>2, <1>2 DEF IInv, NothingStranded
  <1>. QED BY <1>1, <1>2 DEF NothingStranded

LEMMA PassEndsInv ==
    ASSUME IInv, NEW c \in Cpu, PassEnds(c)
    PROVE  IInv'
  <1>1. /\ UNCHANGED <<sched, run, count, vec, kpc, op, left, online, hot>>
        /\ soft[c].pc = "next" /\ soft[c].todo = {} /\ soft[c].list = <<>>
    BY DEF PassEnds, taskletVars, taskVars, hotVars, IInv, FrameInv
  <1>2. pending \in [Cpu -> SUBSET Nr] /\ kstate \in [Cpu -> {"RUNNING", "INTERRUPTIBLE"}]
    BY DEF IInv, TypeOK
  <1>3. c \in online /\ ~BhOff(c)'
    BY <1>1 DEF IInv, FrameInv, BhOff
  <1>4. \A d \in Cpu : BhOff(d)' <=> BhOff(d)
    BY <1>1 DEF BhOff
  <1>5. CASE pending[c] # {} /\ soft[c].restart > 1
    <2>1. PICK r \in 0..MAX_SOFTIRQ_RESTART : r = soft[c].restart - 1
      <3>1. soft[c].restart \in 0..MAX_SOFTIRQ_RESTART
        BY Types DEF FrameType
      <3>. QED BY <1>5, <3>1, SoftirqAssumption
    <2>2. PICK mask \in SUBSET Nr : mask = pending[c]
      BY <1>2
    <2>3. PICK f : f = Frame(mask, r)
      OBVIOUS
    <2>4. soft' = [soft EXCEPT ![c] = f] /\ pending' = [pending EXCEPT ![c] = {}] /\ UNCHANGED kstate
      BY <1>5, <2>1, <2>2, <2>3 DEF PassEnds
    <2>5. f \in FrameType /\ FrameOk(f) /\ f.pc = "next" /\ f.list = <<>> /\ f.todo = mask
      BY <2>3, FrameFacts
    <2>6. /\ pending' \in [Cpu -> SUBSET Nr] /\ pending'[c] = {}
          /\ \A d \in Cpu : d # c => pending'[d] = pending[d]
      BY <1>2, <2>4
    <2>7. /\ FrameInv' /\ soft' \in [Cpu -> FrameType]
          /\ soft'[c] = f /\ \A d \in Cpu : d # c => soft'[d] = soft[d]
      BY <1>1, <1>3, <2>4, <2>5, FrameStep
    <2>8. ClaimInv' /\ LockInv' /\ DisableInv'
      BY <1>1, <2>4, <2>5, IdleFrame
    <2>9. TypeOK'
      BY <1>1, <2>4, <2>6, <2>7 DEF IInv, TypeOK, FrameType
    <2>10. NothingStranded'
      BY <1>1, <1>3, <1>4, <2>2, <2>4, <2>5, <2>6, <2>7, DoSoftirqStranded
    <2>. QED BY <2>7, <2>8, <2>9, <2>10 DEF IInv
  <1>6. CASE ~(pending[c] # {} /\ soft[c].restart > 1)
    <2>1. PICK f : f = NoFrame
      OBVIOUS
    <2>2. f \in FrameType /\ FrameOk(f) /\ f.pc = "none" /\ f.list = <<>> /\ f.todo = {}
      <3>1. {} \in SUBSET Nr /\ 0 \in 0..MAX_SOFTIRQ_RESTART
        BY SoftirqAssumption
      <3>. QED BY <2>1, <3>1, FrameFacts
    <2>3. soft' = [soft EXCEPT ![c] = f] /\ UNCHANGED pending
      BY <1>6, <2>1 DEF PassEnds
    <2>4. /\ kstate' \in [Cpu -> {"RUNNING", "INTERRUPTIBLE"}]
          /\ pending[c] # {} => kstate'[c] = "RUNNING"
          /\ \A d \in Cpu : d # c => kstate'[d] = kstate[d]
      <3>1. IF pending[c] # {} THEN Wakeup(c) ELSE UNCHANGED kstate
        BY <1>6 DEF PassEnds
      <3>. QED BY <1>2, <3>1 DEF Wakeup
    <2>5. /\ FrameInv' /\ soft' \in [Cpu -> FrameType]
          /\ soft'[c] = f /\ \A d \in Cpu : d # c => soft'[d] = soft[d]
      BY <1>1, <2>2, <2>3, FrameStep
    <2>6. ClaimInv' /\ LockInv' /\ DisableInv'
      BY <1>1, <2>2, <2>3, IdleFrame
    <2>7. TypeOK'
      BY <1>1, <2>3, <2>4, <2>5 DEF IInv, TypeOK, FrameType
    <2>8. NothingStranded'
      <3>1. \A d \in Cpu : soft'[d].todo = soft[d].todo
        BY <1>1, <2>2, <2>5
      <3>2. \A d \in Cpu : d # c => (InInterrupt(d)' <=> InInterrupt(d))
        BY <1>4, <2>5 DEF InInterrupt
      <3>3. \A d \in Cpu : d \in online' /\ pending'[d] # {} =>
               InInterrupt(d)' \/ kstate'[d] = "RUNNING" \/ kpc'[d] = "top"
        BY <1>1, <2>3, <2>4, <3>2 DEF IInv, NothingStranded
      <3>. QED BY <1>1, <2>3, <3>1, <3>3 DEF IInv, NothingStranded
    <2>. QED BY <2>5, <2>6, <2>7, <2>8 DEF IInv
  <1>. QED BY <1>5, <1>6

\* What an interrupt does to the frame and the mask of its CPU.
LEMMA HardIrqMask ==
    ASSUME IInv, NEW c \in Cpu, NEW T \in SUBSET Tasklet, HardIrq(c, T)
    PROVE  /\ FrameInv' /\ LockInv' /\ DisableInv'
           /\ soft' \in [Cpu -> FrameType] /\ \A d \in Cpu : FrameOk(soft'[d])
           /\ \A d \in Cpu : Rest(soft'[d]) = Rest(soft[d])
           /\ pending' \in [Cpu -> SUBSET Nr] /\ c \in online
           /\ \A d \in Cpu : d # c => pending'[d] = pending[d] /\ soft'[d] = soft[d]
           /\ pending[c] \cup soft[c].todo \subseteq pending'[c] \cup soft'[c].todo
           /\ \A t \in T : VecOf(t) \in pending'[c] \cup soft'[c].todo
           /\ pending'[c] # {} => InInterrupt(c)'
           /\ UNCHANGED <<run, count, kpc, kstate, op, left, online, hot>>
  <1>1. UNCHANGED <<run, count, kpc, kstate, op, left, online, hot>> /\ c \in online
    BY DEF HardIrq, ksdVars, taskVars, hotVars
  <1>2. pending \in [Cpu -> SUBSET Nr] /\ soft \in [Cpu -> FrameType]
    BY Types DEF IInv, TypeOK
  <1>3. PICK mask \in SUBSET Nr : mask = pending[c] \cup {VecOf(t) : t \in T}
    BY <1>2 DEF VecOf, Nr
  <1>4. IF InInterrupt(c) \/ mask = {}
        THEN pending' = [pending EXCEPT ![c] = mask] /\ UNCHANGED soft
        ELSE /\ soft' = [soft EXCEPT ![c] = Frame(mask, MAX_SOFTIRQ_RESTART)]
             /\ pending' = [pending EXCEPT ![c] = {}]
    BY <1>3 DEF HardIrq
  <1>5. CASE InInterrupt(c) \/ mask = {}
    <2>1. UNCHANGED soft /\ pending' = [pending EXCEPT ![c] = mask]
      BY <1>4, <1>5
    <2>2. /\ pending' \in [Cpu -> SUBSET Nr] /\ pending'[c] = mask
          /\ \A d \in Cpu : d # c => pending'[d] = pending[d]
      BY <1>2, <2>1
    <2>3. FrameInv'
      BY <1>1, <2>1 DEF IInv, FrameInv, BhOff
    <2>4. LockInv'
      BY <1>1, <2>1, SameLocks DEF IInv, Locks, Cur
    <2>5. DisableInv'
      BY <1>1, <2>1, SameDisables DEF IInv, Cur
    <2>6. InInterrupt(c)' <=> InInterrupt(c)
      BY <1>1, <2>1 DEF InInterrupt, BhOff
    <2>. QED BY <1>1, <1>3, <1>5, <2>1, <2>2, <2>3, <2>4, <2>5, <2>6, Types
  <1>6. CASE ~(InInterrupt(c) \/ mask = {})
    <2>1. soft[c].pc = "none" /\ ~BhOff(c) /\ soft[c].list = <<>> /\ soft[c].todo = {}
      BY <1>6, Types DEF InInterrupt, FrameOk
    <2>2. PICK r \in 0..MAX_SOFTIRQ_RESTART : r = MAX_SOFTIRQ_RESTART
      BY SoftirqAssumption
    <2>3. PICK f : f = Frame(mask, r)
      OBVIOUS
    <2>4. soft' = [soft EXCEPT ![c] = f] /\ pending' = [pending EXCEPT ![c] = {}]
      BY <1>4, <1>6, <2>2, <2>3
    <2>5. f \in FrameType /\ FrameOk(f) /\ f.pc = "next" /\ f.list = <<>> /\ f.todo = mask
      BY <2>3, FrameFacts
    <2>6. /\ pending' \in [Cpu -> SUBSET Nr] /\ pending'[c] = {}
          /\ \A d \in Cpu : d # c => pending'[d] = pending[d]
      BY <1>2, <2>4
    <2>7. ~BhOff(c)'
      BY <1>1, <2>1 DEF BhOff
    <2>8. /\ FrameInv' /\ soft' \in [Cpu -> FrameType] /\ \A d \in Cpu : FrameOk(soft'[d])
          /\ soft'[c] = f /\ \A d \in Cpu : d # c => soft'[d] = soft[d]
      BY <1>1, <2>4, <2>5, <2>7, FrameStep
    <2>9. \A d \in Cpu : Rest(soft'[d]) = Rest(soft[d])
      BY <2>1, <2>5, <2>8 DEF Rest
    <2>10. LockInv'
      <3>1. \A d \in Cpu, t \in Tasklet : Locks(d, t)' <=> Locks(d, t)
        BY <2>1, <2>5, <2>8 DEF Locks, Cur
      <3>. QED BY <1>1, <3>1, SameLocks DEF IInv
    <2>11. DisableInv'
      <3>1. \A d \in Cpu : soft'[d].pc \in {"clear", "func"} => soft[d].pc = soft'[d].pc /\ Cur(d)' = Cur(d)
        BY <2>5, <2>8 DEF Cur
      <3>. QED BY <1>1, <3>1, SameDisables DEF IInv
    <2>. QED BY <1>1, <1>3, <2>1, <2>5, <2>6, <2>8, <2>9, <2>10, <2>11
  <1>. QED BY <1>5, <1>6

LEMMA HardIrqInv ==
    ASSUME IInv, NEW c \in Cpu, NEW T \in SUBSET Tasklet, T = {} \/ \E t \in Tasklet : T = {t},
           HardIrq(c, T)
    PROVE  IInv'
  <1>1. /\ FrameInv' /\ LockInv' /\ DisableInv'
        /\ soft' \in [Cpu -> FrameType] /\ \A d \in Cpu : FrameOk(soft'[d])
        /\ \A d \in Cpu : Rest(soft'[d]) = Rest(soft[d])
        /\ pending' \in [Cpu -> SUBSET Nr] /\ c \in online
        /\ \A d \in Cpu : d # c => pending'[d] = pending[d] /\ soft'[d] = soft[d]
        /\ pending[c] \cup soft[c].todo \subseteq pending'[c] \cup soft'[c].todo
        /\ \A t \in T : VecOf(t) \in pending'[c] \cup soft'[c].todo
        /\ pending'[c] # {} => InInterrupt(c)'
        /\ UNCHANGED <<run, count, kpc, kstate, op, left, online, hot>>
    BY HardIrqMask
  <1>2. \A d \in Cpu : d \in online' /\ pending'[d] # {} =>
           InInterrupt(d)' \/ kstate'[d] = "RUNNING" \/ kpc'[d] = "top"
    <2>1. \A d \in Cpu : d # c => (InInterrupt(d)' <=> InInterrupt(d))
      BY <1>1 DEF InInterrupt, BhOff
    <2>. QED BY <1>1, <2>1 DEF IInv, NothingStranded
  <1>3. \A d \in Cpu : pending[d] \cup soft[d].todo \subseteq pending'[d] \cup soft'[d].todo
    BY <1>1
  <1>4. vec \in VecType /\ sched \in [Tasklet -> BOOLEAN]
    BY Types DEF IInv, TypeOK
  <1>5. /\ sched' = [t \in Tasklet |-> sched[t] \/ t \in T]
        /\ \A t \in T : ~sched[t]
        /\ vec' = [vec EXCEPT ![c] = [n \in Nr |->
               IF \E t \in T : VecOf(t) = n
               THEN <<CHOOSE t \in T : VecOf(t) = n>> \o @[n] ELSE @[n]]]
    BY DEF HardIrq
  <1>6. CASE T = {}
    <2>1. UNCHANGED sched
      BY <1>4, <1>5, <1>6
    <2>2. vec' = vec
      <3>1. vec' = [vec EXCEPT ![c] = [n \in Nr |-> vec[c][n]]]
        BY <1>5, <1>6
      <3>2. [n \in Nr |-> vec[c][n]] = vec[c]
        BY <1>4 DEF VecType
      <3>. QED BY <1>4, <3>1, <3>2 DEF VecType
    <2>3. ClaimInv'
      <3>1. \A u \in Task, t \in Tasklet : HoldsClaim(u, t)' <=> HoldsClaim(u, t)
        BY <1>1 DEF HoldsClaim
      <3>. QED BY <1>1, <2>1, <2>2, <3>1, QueuesSame, SameClaims DEF IInv
    <2>4. TypeOK'
      BY <1>1, <2>1, <2>2 DEF IInv, TypeOK, FrameType
    <2>5. NothingStranded'
      BY <1>1, <1>2, <1>3, <2>2 DEF IInv, NothingStranded
    <2>. QED BY <1>1, <2>3, <2>4, <2>5 DEF IInv
  <1>7. CASE \E t \in Tasklet : T = {t}
    <2>1. PICK t \in Tasklet : T = {t}
      BY <1>7
    <2>2. PICK n \in Nr : n = VecOf(t)
      BY DEF VecOf, Nr
    <2>3. ~sched[t] /\ sched' = [sched EXCEPT ![t] = TRUE]
      BY <1>4, <1>5, <2>1
    <2>4. Pushed(vec, vec', c, n, t)
      <3>1. PICK l \in Seq(Tasklet) : l = <<t>> \o vec[c][n]
        <4>1. vec[c][n] \in Seq(Tasklet)
          BY <1>4 DEF VecType
        <4>. QED BY <4>1, PrependSeq
      <3>2. (CHOOSE x \in T : VecOf(x) = n) = t
        BY <2>1, <2>2
      <3>3. vec' = [vec EXCEPT ![c] = [m \in Nr |-> IF m = n THEN l ELSE vec[c][m]]]
        <4>1. ASSUME NEW m \in Nr
              PROVE  (IF \E x \in T : VecOf(x) = m
                      THEN <<CHOOSE x \in T : VecOf(x) = m>> \o vec[c][m] ELSE vec[c][m])
                       = IF m = n THEN l ELSE vec[c][m]
          <5>1. CASE m = n
            BY <5>1, <2>1, <2>2, <3>1, <3>2
          <5>2. CASE m # n
            BY <5>2, <2>1, <2>2
          <5>. QED BY <5>1, <5>2
        <4>2. [m \in Nr |-> IF \E x \in T : VecOf(x) = m
                           THEN <<CHOOSE x \in T : VecOf(x) = m>> \o vec[c][m] ELSE vec[c][m]]
                = [m \in Nr |-> IF m = n THEN l ELSE vec[c][m]]
          BY <4>1
        <4>3. vec' = [vec EXCEPT ![c] = [m \in Nr |->
                        IF \E x \in T : VecOf(x) = m
                        THEN <<CHOOSE x \in T : VecOf(x) = m>> \o vec[c][m] ELSE vec[c][m]]]
          BY <1>4, <1>5 DEF VecType
        <4>. QED BY <4>2, <4>3
      <3>. QED BY <1>4, <3>1, <3>3 DEF Pushed, VecType
    <2>5. Queues' \in QueueType /\ <<c, n>> \in Places /\ Prepended(Queues, Queues', <<c, n>>, t)
      BY <1>1, <2>4, QueuesPushed
    <2>6. ClaimInv'
      BY <1>1, <2>3, <2>5, ClaimsPrepended
    <2>7. TypeOK'
      BY <1>1, <2>3, <2>4 DEF IInv, TypeOK, FrameType, Pushed, VecType
    <2>8. \A d \in Cpu : \A m \in Nr : vec'[d][m] # <<>> =>
             \/ d \in online' /\ m \in pending'[d] \cup soft'[d].todo
             \/ d = hot'.cpu /\ hot'.pc \in {"dead", "stop"}
      BY <1>1, <1>3, <2>1, <2>2, <2>4, PushStranded
    <2>9. NothingStranded'
      BY <1>2, <2>8 DEF NothingStranded
    <2>. QED BY <1>1, <2>6, <2>7, <2>9 DEF IInv
  <1>. QED BY <1>6, <1>7
-------------------------------------------------------------------------------
(* The calls of a task                                                      *)

OpPc == {"idle", "push", "dwait", "disabled", "kill", "kwait", "kclear"}
OpType == [pc : OpPc, t : Tasklet \cup {Null}, cpu : Cpu \cup {Null}]

\* Task u gets to g; CPU and bottom halves stay as they are.
OpStep(u, g) == g \in OpType /\ g.cpu = op[u].cpu /\ op' = [op EXCEPT ![u] = g]

LEMMA CallsStep ==
    ASSUME IInv, NEW u \in Task, NEW pc \in OpPc, NEW t \in Tasklet, Calls(u, pc, t)
    PROVE  \E g : OpStep(u, g) /\ g.pc = pc /\ g.t = t /\ op[u].pc = "idle" /\ left' \in [Task -> 0..MaxOps]
  <1>1. op \in [Task -> OpType] /\ left \in [Task -> 0..MaxOps] /\ MaxOps \in Nat
    BY SoftirqAssumption DEF IInv, TypeOK, OpType, OpPc
  <1>2. PICK g : g = [op[u] EXCEPT !.pc = pc, !.t = t]
    OBVIOUS
  <1>3. g \in OpType /\ g.cpu = op[u].cpu /\ g.pc = pc /\ g.t = t
    BY <1>1, <1>2 DEF OpType
  <1>4. op' = [op EXCEPT ![u] = g]
    BY <1>1, <1>2 DEF Calls, OpType
  <1>5. left' \in [Task -> 0..MaxOps]
    <2>1. PICK k \in 0..MaxOps : k = left[u] /\ k > 0
      BY <1>1 DEF Calls
    <2>2. left' = [left EXCEPT ![u] = k - 1] /\ k - 1 \in 0..MaxOps
      BY <1>1, <2>1 DEF Calls
    <2>. QED BY <1>1, <2>2
  <1>. QED BY <1>3, <1>4, <1>5 DEF OpStep, Calls

LEMMA GoesStep ==
    ASSUME IInv, NEW u \in Task, NEW from \in OpPc, NEW to \in OpPc, NEW t \in Tasklet, Goes(u, from, to, t)
    PROVE  /\ \E g : OpStep(u, g) /\ g.pc = to /\ g.t = IF to = "idle" THEN Null ELSE t
           /\ op[u].pc = from /\ op[u].t = t /\ left' \in [Task -> 0..MaxOps]
  <1>1. op \in [Task -> OpType]
    BY DEF IInv, TypeOK, OpType, OpPc
  <1>2. PICK x \in Tasklet \cup {Null} : x = IF to = "idle" THEN Null ELSE t
    OBVIOUS
  <1>3. PICK g : g = [op[u] EXCEPT !.pc = to, !.t = x]
    OBVIOUS
  <1>4. g \in OpType /\ g.cpu = op[u].cpu /\ g.pc = to /\ g.t = x
    BY <1>1, <1>3 DEF OpType
  <1>5. op' = [op EXCEPT ![u] = g]
    BY <1>1, <1>2, <1>3 DEF Goes, OpType
  <1>6. left' \in [Task -> 0..MaxOps]
    BY DEF Goes, IInv, TypeOK
  <1>7. OpStep(u, g)
    BY <1>4, <1>5 DEF OpStep
  <1>. QED BY <1>2, <1>4, <1>6, <1>7 DEF Goes

\* What such a step leaves alone
LEMMA TaskFrame ==
    ASSUME IInv, NEW u \in Task, NEW g, OpStep(u, g),
           UNCHANGED <<vec, pending, soft, kpc, kstate, online, hot>>
    PROVE  /\ FrameInv' /\ NothingStranded' /\ Queues' = Queues
           /\ \A d \in Cpu, t \in Tasklet : Locks(d, t)' <=> Locks(d, t)
           /\ op' \in [Task -> OpType] /\ op'[u] = g /\ \A v \in Task : v # u => op'[v] = op[v]
  <1>1. /\ op' \in [Task -> OpType] /\ op'[u] = g /\ \A v \in Task : v # u => op'[v] = op[v]
    BY DEF OpStep, IInv, TypeOK, OpType, OpPc
  <1>2. \A v \in Task : op'[v].cpu = op[v].cpu
    BY <1>1 DEF OpStep
  <1>3. \A d \in Cpu : BhOff(d)' <=> BhOff(d)
    BY <1>2 DEF BhOff
  <1>4. FrameInv'
    BY <1>2, <1>3 DEF IInv, FrameInv
  <1>5. \A d \in Cpu : InInterrupt(d)' <=> InInterrupt(d)
    BY <1>3 DEF InInterrupt
  <1>6. NothingStranded'
    BY <1>5 DEF IInv, NothingStranded
  <1>7. Queues' = Queues
    BY QueuesSame
  <1>8. \A d \in Cpu, t \in Tasklet : Locks(d, t)' <=> Locks(d, t)
    BY DEF Locks, Cur
  <1>. QED BY <1>1, <1>4, <1>6, <1>7, <1>8

\* Task u claims tasklet t, which nobody has claimed.
LEMMA ClaimTaken ==
    ASSUME IInv, NEW u \in Task, NEW g, OpStep(u, g), NEW t \in Tasklet, Queues' = Queues,
           ~sched[t], sched' = [sched EXCEPT ![t] = TRUE],
           op[u].pc \in {"idle", "kill"}, g.t = t, g.pc \in {"push", "kwait"}
    PROVE  ClaimInv'
  <1>1. op'[u] = g /\ \A v \in Task : v # u => op'[v] = op[v]
    BY DEF OpStep, IInv, TypeOK
  <1>2. \A v \in Task, x \in Tasklet : HoldsClaim(v, x)' <=> HoldsClaim(v, x) \/ (v = u /\ x = t)
    BY <1>1 DEF HoldsClaim
  <1>3. ~Holds(Queues, t) /\ ~\E v \in Task : HoldsClaim(v, t)
    BY ClaimParts DEF IInv
  <1>4. sched'[t] /\ \A x \in Tasklet : x # t => sched'[x] = sched[x]
    BY DEF IInv, TypeOK
  <1>5. ASSUME NEW x \in Tasklet
        PROVE  /\ Unique(Queues', x)
               /\ \A v, w \in Task : HoldsClaim(v, x)' /\ HoldsClaim(w, x)' => v = w
               /\ Holds(Queues', x) => ~\E v \in Task : HoldsClaim(v, x)'
               /\ sched'[x] <=> Holds(Queues', x) \/ \E v \in Task : HoldsClaim(v, x)'
    <2>1. CASE x = t
      BY <2>1, <1>2, <1>3, <1>4, ClaimParts DEF IInv
    <2>2. CASE x # t
      BY <2>2, <1>2, <1>4, ClaimParts DEF IInv
    <2>. QED BY <2>1, <2>2
  <1>. QED BY <1>5, ClaimPartsPrime

\* Task u gives up its claim on t.
LEMMA ClaimDropped ==
    ASSUME IInv, NEW u \in Task, NEW g, OpStep(u, g), NEW t \in Tasklet, Queues' = Queues,
           sched' = [sched EXCEPT ![t] = FALSE], HoldsClaim(u, t), g.pc = "idle"
    PROVE  ClaimInv'
  <1>1. op'[u] = g /\ \A v \in Task : v # u => op'[v] = op[v]
    BY DEF OpStep, IInv, TypeOK
  <1>2. \A v \in Task, x \in Tasklet : HoldsClaim(v, x)' <=> HoldsClaim(v, x) /\ v # u
    BY <1>1 DEF HoldsClaim
  <1>3. ~Holds(Queues, t) /\ \A v \in Task : HoldsClaim(v, t) => v = u
    BY ClaimParts DEF IInv
  <1>4. ~sched'[t] /\ \A x \in Tasklet : x # t => sched'[x] = sched[x]
    BY DEF IInv, TypeOK
  <1>5. \A x \in Tasklet : x # t => ~HoldsClaim(u, x)
    BY DEF HoldsClaim
  <1>6. ASSUME NEW x \in Tasklet
        PROVE  /\ Unique(Queues', x)
               /\ \A v, w \in Task : HoldsClaim(v, x)' /\ HoldsClaim(w, x)' => v = w
               /\ Holds(Queues', x) => ~\E v \in Task : HoldsClaim(v, x)'
               /\ sched'[x] <=> Holds(Queues', x) \/ \E v \in Task : HoldsClaim(v, x)'
    <2>1. CASE x = t
      BY <2>1, <1>2, <1>3, <1>4, ClaimParts DEF IInv
    <2>2. CASE x # t
      BY <2>2, <1>2, <1>4, <1>5, ClaimParts DEF IInv
    <2>. QED BY <2>1, <2>2
  <1>. QED BY <1>6, ClaimPartsPrime

\* Nobody is disabled any more than before, and who waited for the RUN bit of
\* a tasklet has seen it clear.
LEMMA DisableKept ==
    ASSUME IInv, NEW u \in Task, NEW g, OpStep(u, g), UNCHANGED <<count, soft>>,
           op[u].pc \in {"dwait", "disabled"} => g.t = op[u].t,
           g.pc \in {"dwait", "disabled"} <=> op[u].pc \in {"dwait", "disabled"},
           g.pc \in {"disabled", "kclear"} => g.t \in Tasklet /\ ~run[g.t]
    PROVE  DisableInv'
  <1>1. op'[u] = g /\ \A v \in Task : v # u => op'[v] = op[v]
    BY DEF OpStep, IInv, TypeOK
  <1>2. \A t : Disabler(t)' = Disabler(t)
    BY <1>1 DEF Disabler
  <1>3. \A t \in Tasklet, d \in Cpu : ~run[t] => ~(soft[d].pc \in {"clear", "func"} /\ Cur(d) = t)
    BY DEF IInv, LockInv, Locks
  <1>4. \A d \in Cpu : Cur(d)' = Cur(d)
    BY DEF Cur
  <1>5. ASSUME NEW t \in Tasklet, NEW v \in Task, NEW d \in Cpu, op'[v].t = t
        PROVE  /\ op'[v].pc = "disabled" => ~(soft'[d].pc \in {"clear", "func"} /\ Cur(d)' = t)
               /\ op'[v].pc = "kclear" => ~Runs(d, t)'
    <2>1. CASE v = u
      BY <1>1, <1>3, <1>4, <1>5, <2>1 DEF Runs
    <2>2. CASE v # u
      BY <1>1, <1>4, <1>5, <2>2 DEF IInv, DisableInv, Runs
    <2>. QED BY <2>1, <2>2
  <1>. QED BY <1>2, <1>5 DEF IInv, DisableInv

LEMMA TaskletScheduleInv ==
    ASSUME IInv, NEW u \in Task, NEW t \in Tasklet, TaskletSchedule(u, t)
    PROVE  IInv'
  <1>1. /\ UNCHANGED <<run, count, vec, pending, soft, kpc, kstate, online, hot>>
        /\ ~sched[t] /\ sched' = [sched EXCEPT ![t] = TRUE] /\ Calls(u, "push", t)
    BY DEF TaskletSchedule, cpuVars, ksdVars, hotVars
  <1>2. PICK g : OpStep(u, g) /\ g.pc = "push" /\ g.t = t /\ op[u].pc = "idle" /\ left' \in [Task -> 0..MaxOps]
    <2>1. "push" \in OpPc
      BY DEF OpPc
    <2>. QED BY <1>1, <2>1, CallsStep
  <1>3. /\ FrameInv' /\ NothingStranded' /\ Queues' = Queues
        /\ \A d \in Cpu, x \in Tasklet : Locks(d, x)' <=> Locks(d, x)
        /\ op' \in [Task -> OpType]
    BY <1>1, <1>2, TaskFrame
  <1>4. ClaimInv'
    BY <1>1, <1>2, <1>3, ClaimTaken
  <1>5. LockInv'
    BY <1>1, <1>3, SameLocks DEF IInv
  <1>6. DisableInv'
    BY <1>1, <1>2, DisableKept
  <1>7. TypeOK'
    BY <1>1, <1>2, <1>3 DEF IInv, TypeOK, OpType, OpPc
  <1>. QED BY <1>3, <1>4, <1>5, <1>6, <1>7 DEF IInv

LEMMA TaskletKillInv ==
    ASSUME IInv, NEW u \in Task, NEW t \in Tasklet, TaskletKill(u, t)
    PROVE  IInv'
  <1>1. /\ UNCHANGED <<sched, run, count, vec, pending, soft, kpc, kstate, online, hot>>
        /\ Calls(u, "kill", t)
    BY DEF TaskletKill, taskletVars, cpuVars, ksdVars, hotVars
  <1>2. PICK g : OpStep(u, g) /\ g.pc = "kill" /\ g.t = t /\ op[u].pc = "idle" /\ left' \in [Task -> 0..MaxOps]
    <2>1. "kill" \in OpPc
      BY DEF OpPc
    <2>. QED BY <1>1, <2>1, CallsStep
  <1>3. /\ FrameInv' /\ NothingStranded' /\ Queues' = Queues
        /\ \A d \in Cpu, x \in Tasklet : Locks(d, x)' <=> Locks(d, x)
        /\ op' \in [Task -> OpType] /\ op'[u] = g /\ \A v \in Task : v # u => op'[v] = op[v]
    BY <1>1, <1>2, TaskFrame
  <1>4. ClaimInv'
    <2>1. \A v \in Task, x \in Tasklet : HoldsClaim(v, x)' <=> HoldsClaim(v, x)
      BY <1>2, <1>3 DEF HoldsClaim
    <2>. QED BY <1>1, <1>3, <2>1, SameClaims DEF IInv
  <1>5. LockInv'
    BY <1>1, <1>3, SameLocks DEF IInv
  <1>6. DisableInv'
    BY <1>1, <1>2, DisableKept
  <1>7. TypeOK'
    BY <1>1, <1>2, <1>3 DEF IInv, TypeOK, OpType, OpPc
  <1>. QED BY <1>3, <1>4, <1>5, <1>6, <1>7 DEF IInv

LEMMA KillClaimsInv ==
    ASSUME IInv, NEW u \in Task, NEW t \in Tasklet, KillClaims(u, t)
    PROVE  IInv'
  <1>1. /\ UNCHANGED <<run, count, vec, pending, soft, kpc, kstate, online, hot>>
        /\ ~sched[t] /\ sched' = [sched EXCEPT ![t] = TRUE] /\ Goes(u, "kill", "kwait", t)
    BY DEF KillClaims, cpuVars, ksdVars, hotVars
  <1>2. "kill" \in OpPc /\ "kwait" \in OpPc
    BY DEF OpPc
  <1>3. op[u].pc = "kill" /\ op[u].t = t /\ left' \in [Task -> 0..MaxOps]
    BY <1>1, <1>2, GoesStep
  <1>4. PICK g : OpStep(u, g) /\ g.pc = "kwait" /\ g.t = t
    BY <1>1, <1>2, GoesStep
  <1>5. /\ FrameInv' /\ NothingStranded' /\ Queues' = Queues
        /\ \A d \in Cpu, x \in Tasklet : Locks(d, x)' <=> Locks(d, x)
        /\ op' \in [Task -> OpType]
    BY <1>1, <1>4, TaskFrame
  <1>6. ClaimInv'
    BY <1>1, <1>3, <1>4, <1>5, ClaimTaken
  <1>7. LockInv'
    BY <1>1, <1>5, SameLocks DEF IInv
  <1>8. DisableInv'
    BY <1>1, <1>3, <1>4, DisableKept
  <1>9. TypeOK'
    BY <1>1, <1>3, <1>5 DEF IInv, TypeOK, OpType, OpPc
  <1>. QED BY <1>5, <1>6, <1>7, <1>8, <1>9 DEF IInv

\* tasklet_kill and tasklet_disable have seen the RUN bit clear.
LEMMA UnlockWaitInv ==
    ASSUME IInv, NEW u \in Task, NEW t \in Tasklet,
           KillUnlockWait(u, t) \/ TaskletDisabled(u, t)
    PROVE  IInv'
  <1>1. /\ UNCHANGED <<sched, run, count, vec, pending, soft, kpc, kstate, online, hot>> /\ ~run[t]
        /\ Goes(u, "kwait", "kclear", t) \/ Goes(u, "dwait", "disabled", t)
    BY DEF KillUnlockWait, TaskletDisabled, taskletVars, cpuVars, ksdVars, hotVars
  <1>2. PICK from \in OpPc, to \in OpPc :
          /\ (from = "kwait" /\ to = "kclear") \/ (from = "dwait" /\ to = "disabled")
          /\ Goes(u, from, to, t)
    BY <1>1 DEF OpPc
  <1>3. op[u].pc = from /\ op[u].t = t /\ left' \in [Task -> 0..MaxOps]
    BY <1>2, GoesStep
  <1>4. PICK g : OpStep(u, g) /\ g.pc = to /\ g.t = IF to = "idle" THEN Null ELSE t
    BY <1>2, GoesStep
  <1>5. g.t = t
    BY <1>2, <1>4
  <1>6. /\ FrameInv' /\ NothingStranded' /\ Queues' = Queues
        /\ \A d \in Cpu, x \in Tasklet : Locks(d, x)' <=> Locks(d, x)
        /\ op' \in [Task -> OpType] /\ op'[u] = g /\ \A v \in Task : v # u => op'[v] = op[v]
    BY <1>1, <1>4, TaskFrame
  <1>7. ClaimInv'
    <2>1. \A v \in Task, x \in Tasklet : HoldsClaim(v, x)' <=> HoldsClaim(v, x)
      BY <1>2, <1>3, <1>4, <1>5, <1>6 DEF HoldsClaim
    <2>. QED BY <1>1, <1>6, <2>1, SameClaims DEF IInv
  <1>8. LockInv'
    BY <1>1, <1>6, SameLocks DEF IInv
  <1>9. DisableInv'
    <2>1. /\ g.pc \in {"dwait", "disabled"} <=> op[u].pc \in {"dwait", "disabled"}
          /\ g.t = op[u].t
      BY <1>2, <1>3, <1>4, <1>5
    <2>. QED BY <1>1, <1>4, <1>5, <2>1, DisableKept
  <1>10. TypeOK'
    BY <1>1, <1>3, <1>6 DEF IInv, TypeOK, OpType, OpPc
  <1>. QED BY <1>6, <1>7, <1>8, <1>9, <1>10 DEF IInv

LEMMA KillClearsInv ==
    ASSUME IInv, NEW u \in Task, NEW t \in Tasklet, KillClears(u, t)
    PROVE  IInv'
  <1>1. /\ UNCHANGED <<run, count, vec, pending, soft, kpc, kstate, online, hot>>
        /\ sched' = [sched EXCEPT ![t] = FALSE] /\ Goes(u, "kclear", "idle", t)
    BY DEF KillClears, cpuVars, ksdVars, hotVars
  <1>2. "kclear" \in OpPc /\ "idle" \in OpPc
    BY DEF OpPc
  <1>3. op[u].pc = "kclear" /\ op[u].t = t /\ left' \in [Task -> 0..MaxOps]
    BY <1>1, <1>2, GoesStep
  <1>4. PICK g : OpStep(u, g) /\ g.pc = "idle" /\ g.t = Null
    BY <1>1, <1>2, GoesStep
  <1>5. /\ FrameInv' /\ NothingStranded' /\ Queues' = Queues
        /\ \A d \in Cpu, x \in Tasklet : Locks(d, x)' <=> Locks(d, x)
        /\ op' \in [Task -> OpType]
    BY <1>1, <1>4, TaskFrame
  <1>6. ClaimInv'
    <2>1. HoldsClaim(u, t)
      BY <1>3 DEF HoldsClaim
    <2>. QED BY <1>1, <1>4, <1>5, <2>1, ClaimDropped
  <1>7. LockInv'
    BY <1>1, <1>5, SameLocks DEF IInv
  <1>8. DisableInv'
    BY <1>1, <1>3, <1>4, DisableKept
  <1>9. TypeOK'
    BY <1>1, <1>3, <1>5 DEF IInv, TypeOK, OpType, OpPc
  <1>. QED BY <1>5, <1>6, <1>7, <1>8, <1>9 DEF IInv

\* tasklet_disable and tasklet_enable: the count follows the set of disablers.
LEMMA DisablerCounts ==
    ASSUME IInv, NEW u \in Task, NEW g, OpStep(u, g), NEW t \in Tasklet, UNCHANGED soft,
           \/ /\ op[u].pc = "idle" /\ g.pc = "dwait" /\ g.t = t
              /\ count' = [count EXCEPT ![t] = @ + 1]
           \/ /\ op[u].pc = "disabled" /\ op[u].t = t /\ g.pc = "idle"
              /\ count' = [count EXCEPT ![t] = @ - 1]
    PROVE  DisableInv' /\ count' \in [Tasklet -> Nat]
  <1>1. op'[u] = g /\ \A v \in Task : v # u => op'[v] = op[v]
    BY DEF OpStep, IInv, TypeOK
  <1>2. \A x : IsFiniteSet(Disabler(x)) /\ Cardinality(Disabler(x)) \in Nat
    <2>1. \A x : Disabler(x) \subseteq Task
      BY DEF Disabler
    <2>. QED BY <2>1, SoftirqAssumption, FS_Subset, FS_CardinalityType
  <1>3. \A x \in Tasklet : x # t => Disabler(x)' = Disabler(x)
    BY <1>1 DEF Disabler
  <1>4. count \in [Tasklet -> Nat] /\ \A x \in Tasklet : count[x] = Cardinality(Disabler(x))
    BY DEF IInv, TypeOK, DisableInv
  <1>5. /\ count'[t] = Cardinality(Disabler(t)') /\ count'[t] \in Nat
        /\ \A x \in Tasklet : x # t => count'[x] = count[x]
        /\ count' = [count EXCEPT ![t] = count'[t]]
    <2>1. CASE op[u].pc = "idle" /\ g.pc = "dwait" /\ g.t = t /\ count' = [count EXCEPT ![t] = @ + 1]
      <3>1. Disabler(t)' = Disabler(t) \cup {u} /\ u \notin Disabler(t)
        BY <2>1, <1>1 DEF Disabler
      <3>2. Cardinality(Disabler(t) \cup {u}) = Cardinality(Disabler(t)) + 1
        BY <3>1, <1>2, FS_AddElement
      <3>3. count'[t] = count[t] + 1
        BY <2>1, <1>4
      <3>. QED BY <2>1, <3>1, <3>2, <3>3, <1>2, <1>4
    <2>2. CASE op[u].pc = "disabled" /\ op[u].t = t /\ g.pc = "idle" /\ count' = [count EXCEPT ![t] = @ - 1]
      <3>1. Disabler(t)' = Disabler(t) \ {u} /\ u \in Disabler(t)
        BY <2>2, <1>1 DEF Disabler
      <3>2. Cardinality(Disabler(t) \ {u}) = Cardinality(Disabler(t)) - 1
        BY <3>1, <1>2, FS_RemoveElement
      <3>3. Cardinality(Disabler(t) \ {u}) \in Nat
        BY <1>2, FS_RemoveElement, FS_CardinalityType
      <3>4. count'[t] = count[t] - 1
        BY <2>2, <1>4
      <3>. QED BY <2>2, <3>1, <3>2, <3>3, <3>4, <1>4
    <2>. QED BY <2>1, <2>2
  <1>6. \A d \in Cpu : Cur(d)' = Cur(d)
    BY DEF Cur
  <1>7. ASSUME NEW x \in Tasklet, NEW v \in Task, NEW d \in Cpu, op'[v].t = x
        PROVE  /\ op'[v].pc = "disabled" => ~(soft'[d].pc \in {"clear", "func"} /\ Cur(d)' = x)
               /\ op'[v].pc = "kclear" => ~Runs(d, x)'
    <2>1. op'[v].pc \in {"disabled", "kclear"} => v # u
      BY <1>1
    <2>. QED BY <1>1, <1>6, <1>7, <2>1 DEF IInv, DisableInv, Runs
  <1>8. \A x \in Tasklet : count'[x] = Cardinality(Disabler(x)')
    BY <1>3, <1>4, <1>5
  <1>9. count' \in [Tasklet -> Nat]
    BY <1>4, <1>5
  <1>. QED BY <1>7, <1>8, <1>9 DEF DisableInv

LEMMA TaskletDisableInv ==
    ASSUME IInv, NEW u \in Task, NEW t \in Tasklet, TaskletDisable(u, t)
    PROVE  IInv'
  <1>1. /\ UNCHANGED <<sched, run, vec, pending, soft, kpc, kstate, online, hot>>
        /\ count' = [count EXCEPT ![t] = @ + 1] /\ Calls(u, "dwait", t)
    BY DEF TaskletDisable, cpuVars, ksdVars, hotVars
  <1>2. PICK g : OpStep(u, g) /\ g.pc = "dwait" /\ g.t = t /\ op[u].pc = "idle" /\ left' \in [Task -> 0..MaxOps]
    <2>1. "dwait" \in OpPc
      BY DEF OpPc
    <2>. QED BY <1>1, <2>1, CallsStep
  <1>3. /\ FrameInv' /\ NothingStranded' /\ Queues' = Queues
        /\ \A d \in Cpu, x \in Tasklet : Locks(d, x)' <=> Locks(d, x)
        /\ op' \in [Task -> OpType] /\ op'[u] = g /\ \A v \in Task : v # u => op'[v] = op[v]
    BY <1>1, <1>2, TaskFrame
  <1>4. ClaimInv'
    <2>1. \A v \in Task, x \in Tasklet : HoldsClaim(v, x)' <=> HoldsClaim(v, x)
      BY <1>2, <1>3 DEF HoldsClaim
    <2>. QED BY <1>1, <1>3, <2>1, SameClaims DEF IInv
  <1>5. LockInv'
    BY <1>1, <1>3, SameLocks DEF IInv
  <1>6. DisableInv' /\ count' \in [Tasklet -> Nat]
    BY <1>1, <1>2, DisablerCounts
  <1>7. TypeOK'
    BY <1>1, <1>2, <1>3, <1>6 DEF IInv, TypeOK, OpType, OpPc
  <1>. QED BY <1>3, <1>4, <1>5, <1>6, <1>7 DEF IInv

LEMMA TaskletEnableInv ==
    ASSUME IInv, NEW u \in Task, NEW t \in Tasklet, TaskletEnable(u, t)
    PROVE  IInv'
  <1>1. /\ UNCHANGED <<sched, run, vec, pending, soft, kpc, kstate, online, hot>>
        /\ count' = [count EXCEPT ![t] = @ - 1] /\ Goes(u, "disabled", "idle", t)
    BY DEF TaskletEnable, cpuVars, ksdVars, hotVars
  <1>2. "disabled" \in OpPc /\ "idle" \in OpPc
    BY DEF OpPc
  <1>3. op[u].pc = "disabled" /\ op[u].t = t /\ left' \in [Task -> 0..MaxOps]
    BY <1>1, <1>2, GoesStep
  <1>4. PICK g : OpStep(u, g) /\ g.pc = "idle" /\ g.t = Null
    BY <1>1, <1>2, GoesStep
  <1>5. /\ FrameInv' /\ NothingStranded' /\ Queues' = Queues
        /\ \A d \in Cpu, x \in Tasklet : Locks(d, x)' <=> Locks(d, x)
        /\ op' \in [Task -> OpType] /\ op'[u] = g /\ \A v \in Task : v # u => op'[v] = op[v]
    BY <1>1, <1>4, TaskFrame
  <1>6. ClaimInv'
    <2>1. \A v \in Task, x \in Tasklet : HoldsClaim(v, x)' <=> HoldsClaim(v, x)
      BY <1>3, <1>4, <1>5 DEF HoldsClaim
    <2>. QED BY <1>1, <1>5, <2>1, SameClaims DEF IInv
  <1>7. LockInv'
    BY <1>1, <1>5, SameLocks DEF IInv
  <1>8. DisableInv' /\ count' \in [Tasklet -> Nat]
    BY <1>1, <1>3, <1>4, DisablerCounts
  <1>9. TypeOK'
    BY <1>1, <1>3, <1>5, <1>8 DEF IInv, TypeOK, OpType, OpPc
  <1>. QED BY <1>5, <1>6, <1>7, <1>8, <1>9 DEF IInv

\* The claim of task u becomes a place in a list.
LEMMA ClaimPushed ==
    ASSUME IInv, Queues' \in QueueType, NEW p \in Places, NEW t \in Tasklet, NEW u \in Task, NEW g, OpStep(u, g),
           Prepended(Queues, Queues', p, t), HoldsClaim(u, t), g.pc = "idle", UNCHANGED sched
    PROVE  ClaimInv'
  <1>1. op'[u] = g /\ \A v \in Task : v # u => op'[v] = op[v]
    BY DEF OpStep, IInv, TypeOK
  <1>2. \A v \in Task, x \in Tasklet : HoldsClaim(v, x)' <=> HoldsClaim(v, x) /\ v # u
    BY <1>1 DEF HoldsClaim
  <1>3. sched[t] /\ ~Holds(Queues, t) /\ \A v \in Task : HoldsClaim(v, t) => v = u
    BY ClaimParts DEF IInv
  <1>4. /\ \A x : Holds(Queues', x) <=> Holds(Queues, x) \/ x = t
        /\ \A x : Unique(Queues, x) => Unique(Queues', x)
    BY <1>3, Types, PrependList
  <1>5. \A x \in Tasklet : x # t => ~HoldsClaim(u, x)
    BY DEF HoldsClaim
  <1>6. ASSUME NEW x \in Tasklet
        PROVE  /\ Unique(Queues', x)
               /\ \A v, w \in Task : HoldsClaim(v, x)' /\ HoldsClaim(w, x)' => v = w
               /\ Holds(Queues', x) => ~\E v \in Task : HoldsClaim(v, x)'
               /\ sched'[x] <=> Holds(Queues', x) \/ \E v \in Task : HoldsClaim(v, x)'
    <2>1. CASE x = t
      BY <2>1, <1>2, <1>3, <1>4, ClaimParts DEF IInv
    <2>2. CASE x # t
      BY <2>2, <1>2, <1>4, <1>5, ClaimParts DEF IInv
    <2>. QED BY <2>1, <2>2
  <1>. QED BY <1>6, ClaimPartsPrime

LEMMA TaskletPushInv ==
    ASSUME IInv, NEW u \in Task, NEW c \in Cpu, NEW t \in Tasklet, TaskletPush(u, c, t)
    PROVE  IInv'
  <1>1. PICK n \in Nr : n = VecOf(t)
    BY DEF VecOf, Nr
  <1>2. /\ UNCHANGED <<sched, run, count, soft, kpc, online, hot>>
        /\ op[u].cpu = c \/ (op[u].cpu = Null /\ Preemptible(c))
        /\ Goes(u, "push", "idle", t)
        /\ vec' = [vec EXCEPT ![c][n] = <<t>> \o @]
        /\ pending' = [pending EXCEPT ![c] = @ \cup {n}]
        /\ IF InInterrupt(c) THEN UNCHANGED kstate ELSE Wakeup(c)
    BY <1>1 DEF TaskletPush, taskletVars, hotVars
  <1>3. "push" \in OpPc /\ "idle" \in OpPc
    BY DEF OpPc
  <1>4. op[u].pc = "push" /\ op[u].t = t /\ left' \in [Task -> 0..MaxOps]
    BY <1>2, <1>3, GoesStep
  <1>5. PICK g : OpStep(u, g) /\ g.pc = "idle" /\ g.t = Null
    BY <1>2, <1>3, GoesStep
  <1>6. op' \in [Task -> OpType] /\ op'[u] = g /\ \A v \in Task : v # u => op'[v] = op[v]
    BY <1>5 DEF OpStep, IInv, TypeOK, OpType, OpPc
  <1>7. \A v \in Task : op'[v].cpu = op[v].cpu
    BY <1>5, <1>6 DEF OpStep
  <1>8. \A d \in Cpu : BhOff(d)' <=> BhOff(d)
    BY <1>7 DEF BhOff
  <1>9. c \in online
    <2>1. CASE op[u].cpu = c
      BY <2>1 DEF IInv, FrameInv, BhOff
    <2>2. CASE Preemptible(c)
      BY <2>2 DEF Preemptible
    <2>. QED BY <1>2, <2>1, <2>2
  <1>10. Pushed(vec, vec', c, n, t)
    BY <1>2, VecPushed
  <1>11. Queues' \in QueueType /\ <<c, n>> \in Places /\ Prepended(Queues, Queues', <<c, n>>, t)
    BY <1>2, <1>10, Types, QueuesPushed
  <1>12. ClaimInv'
    <2>1. HoldsClaim(u, t)
      BY <1>4 DEF HoldsClaim
    <2>. QED BY <1>2, <1>5, <1>11, <2>1, ClaimPushed
  <1>13. FrameInv'
    BY <1>2, <1>7, <1>8 DEF IInv, FrameInv
  <1>14. LockInv'
    BY <1>2, SameLocks DEF IInv, Locks, Cur
  <1>15. DisableInv'
    BY <1>2, <1>4, <1>5, DisableKept
  <1>16. /\ pending' \in [Cpu -> SUBSET Nr] /\ pending'[c] = pending[c] \cup {n}
         /\ \A d \in Cpu : d # c => pending'[d] = pending[d]
    BY <1>2 DEF IInv, TypeOK
  <1>17. /\ kstate' \in [Cpu -> {"RUNNING", "INTERRUPTIBLE"}]
         /\ InInterrupt(c) \/ kstate'[c] = "RUNNING"
         /\ \A d \in Cpu : d # c => kstate'[d] = kstate[d]
    BY <1>2 DEF Wakeup, IInv, TypeOK
  <1>18. TypeOK'
    BY <1>2, <1>4, <1>6, <1>10, <1>16, <1>17 DEF IInv, TypeOK, Pushed, VecType, OpType, OpPc
  <1>19. NothingStranded'
    <2>1. \A d \in Cpu : pending[d] \cup soft[d].todo \subseteq pending'[d] \cup soft'[d].todo
      BY <1>2, <1>16
    <2>2. \A d \in Cpu : \A m \in Nr : vec'[d][m] # <<>> =>
             \/ d \in online' /\ m \in pending'[d] \cup soft'[d].todo
             \/ d = hot'.cpu /\ hot'.pc \in {"dead", "stop"}
      BY <1>2, <1>9, <1>10, <1>16, <2>1, PushStranded
    <2>3. \A d \in Cpu : InInterrupt(d)' <=> InInterrupt(d)
      BY <1>2, <1>8 DEF InInterrupt
    <2>4. \A d \in Cpu : d \in online' /\ pending'[d] # {} =>
             InInterrupt(d)' \/ kstate'[d] = "RUNNING" \/ kpc'[d] = "top"
      BY <1>2, <1>16, <1>17, <2>3 DEF IInv, NothingStranded
    <2>. QED BY <2>2, <2>4 DEF NothingStranded
  <1>. QED BY <1>12, <1>13, <1>14, <1>15, <1>18, <1>19 DEF IInv

LEMMA LocalBhDisableInv ==
    ASSUME IInv, NEW u \in Task, NEW c \in Cpu, LocalBhDisable(u, c)
    PROVE  IInv'
  <1>1. /\ UNCHANGED <<sched, run, count, vec, pending, soft, kpc, kstate, left, online, hot>>
        /\ op[u].cpu = Null /\ op' = [op EXCEPT ![u].cpu = c]
        /\ c \in online /\ soft[c].pc = "none" /\ ~BhOff(c)
    BY DEF LocalBhDisable, taskletVars, cpuVars, ksdVars, hotVars, Preemptible, InInterrupt
  <1>2. op \in [Task -> OpType] /\ c # Null
    BY SoftirqAssumption DEF IInv, TypeOK, OpType, OpPc
  <1>3. /\ op' \in [Task -> OpType] /\ op'[u].cpu = c
        /\ \A v \in Task : op'[v].t = op[v].t /\ op'[v].pc = op[v].pc
        /\ \A v \in Task : v # u => op'[v].cpu = op[v].cpu
    BY <1>1, <1>2 DEF OpType
  <1>4. \A d \in Cpu : BhOff(d)' <=> BhOff(d) \/ d = c
    BY <1>1, <1>2, <1>3, SoftirqAssumption DEF BhOff
  <1>5. \A v, w \in Task : op'[v].cpu = op'[w].cpu /\ op'[v].cpu # Null => v = w
    <2>1. \A v \in Task : v # u => op'[v].cpu # c
      BY <1>1, <1>3 DEF BhOff
    <2>. QED BY <1>3, <2>1 DEF IInv, FrameInv
  <1>6. FrameInv'
    BY <1>1, <1>4, <1>5 DEF IInv, FrameInv
  <1>7. ClaimInv'
    <2>1. \A v \in Task, t \in Tasklet : HoldsClaim(v, t)' <=> HoldsClaim(v, t)
      BY <1>3 DEF HoldsClaim
    <2>. QED BY <1>1, <2>1, QueuesSame, SameClaims DEF IInv
  <1>8. LockInv'
    BY <1>1, SameLocks DEF IInv, Locks, Cur
  <1>9. DisableInv'
    BY <1>1, <1>3, SameDisables DEF IInv, Cur
  <1>10. TypeOK'
    BY <1>1, <1>3 DEF IInv, TypeOK, OpType, OpPc
  <1>11. NothingStranded'
    <2>1. \A d \in Cpu : InInterrupt(d) => InInterrupt(d)'
      BY <1>1, <1>4 DEF InInterrupt
    <2>. QED BY <1>1, <2>1 DEF IInv, NothingStranded
  <1>. QED BY <1>6, <1>7, <1>8, <1>9, <1>10, <1>11 DEF IInv

LEMMA LocalBhEnableInv ==
    ASSUME IInv, NEW u \in Task, LocalBhEnable(u)
    PROVE  IInv'
  <1>1. op \in [Task -> OpType]
    BY DEF IInv, TypeOK, OpType, OpPc
  <1>2. PICK c \in Cpu : c = op[u].cpu
    BY <1>1 DEF LocalBhEnable, OpType
  <1>3. /\ UNCHANGED <<sched, run, count, vec, kpc, kstate, left, online, hot>>
        /\ op' = [op EXCEPT ![u].cpu = Null] /\ DoSoftirq(c)
    BY <1>2 DEF LocalBhEnable, taskletVars, ksdVars, hotVars
  <1>4. /\ op' \in [Task -> OpType] /\ op'[u].cpu = Null
        /\ \A v \in Task : op'[v].t = op[v].t /\ op'[v].pc = op[v].pc
        /\ \A v \in Task : v # u => op'[v].cpu = op[v].cpu
    BY <1>1, <1>3 DEF OpType
  <1>5. c \in online /\ soft[c].pc = "none" /\ soft[c].todo = {}
    BY <1>2 DEF IInv, FrameInv, BhOff
  <1>6. ~BhOff(c)' /\ \A d \in Cpu : d # c => (BhOff(d)' <=> BhOff(d))
    BY <1>2, <1>4, SoftirqAssumption DEF BhOff, IInv, FrameInv
  <1>7. /\ FrameInv' /\ ClaimInv' /\ LockInv' /\ DisableInv'
        /\ soft' \in [Cpu -> FrameType] /\ pending' \in [Cpu -> SUBSET Nr]
        /\ pending'[c] = {} /\ pending[c] \subseteq soft'[c].todo
        /\ \A d \in Cpu : d # c => pending'[d] = pending[d] /\ soft'[d] = soft[d]
    BY <1>3, <1>4, <1>5, <1>6, DoSoftirqParts
  <1>8. TypeOK'
    BY <1>3, <1>4, <1>7 DEF IInv, TypeOK, OpType, OpPc, FrameType
  <1>9. NothingStranded'
    BY <1>3, <1>5, <1>6, <1>7, DoSoftirqStranded
  <1>. QED BY <1>7, <1>8, <1>9 DEF IInv

-------------------------------------------------------------------------------
(* ksoftirqd and the unplugging of a CPU                                    *)

\* Only threads change their places and states, and no ksoftirqd goes to
\* sleep with a softirq pending on its CPU.
LEMMA ThreadStep ==
    ASSUME IInv, UNCHANGED <<sched, run, count, vec, pending, soft, op, left, online, hot>>,
           kpc' \in [Cpu -> {"top", "sched", "loop", "ran", "out", "die", "exited"}],
           kstate' \in [Cpu -> {"RUNNING", "INTERRUPTIBLE"}],
           \A d \in Cpu : d \in online /\ pending[d] # {} /\ (kstate[d] = "RUNNING" \/ kpc[d] = "top")
                            => kstate'[d] = "RUNNING" \/ kpc'[d] = "top"
    PROVE  IInv'
  <1>1. TypeOK'
    BY DEF IInv, TypeOK
  <1>2. FrameInv'
    BY DEF IInv, FrameInv, BhOff
  <1>3. ClaimInv'
    BY QueuesSame, SameClaims DEF IInv, HoldsClaim
  <1>4. LockInv'
    BY SameLocks DEF IInv, Locks, Cur
  <1>5. DisableInv'
    BY SameDisables DEF IInv, Cur
  <1>6. NothingStranded'
    <2>1. \A d \in Cpu : InInterrupt(d)' <=> InInterrupt(d)
      BY DEF InInterrupt, BhOff
    <2>2. \A d \in Cpu : d \in online' /\ pending'[d] # {} =>
             InInterrupt(d)' \/ kstate'[d] = "RUNNING" \/ kpc'[d] = "top"
      BY <2>1 DEF IInv, NothingStranded
    <2>. QED BY <2>2 DEF IInv, NothingStranded
  <1>. QED BY <1>1, <1>2, <1>3, <1>4, <1>5, <1>6 DEF IInv

LEMMA KsdStepInv ==
    ASSUME IInv, NEW c \in Cpu, KsdStep(c)
    PROVE  IInv'
  <1>1. /\ kpc \in [Cpu -> {"top", "sched", "loop", "ran", "out", "die", "exited"}]
        /\ kstate \in [Cpu -> {"RUNNING", "INTERRUPTIBLE"}]
    BY DEF IInv, TypeOK
  <1>2. CASE KsdTop(c)
    <2>1. UNCHANGED <<sched, run, count, vec, pending, soft, op, left, online, hot>>
      BY <1>2 DEF KsdTop, taskletVars, cpuVars, taskVars, hotVars
    <2>2. PICK r \in Cpu :
            /\ RunsOn(c, r)
            /\ kpc' = [kpc EXCEPT ![c] = IF ShouldStop(c) THEN "exited"
                                         ELSE IF pending[r] = {} THEN "sched" ELSE "loop"]
            /\ kstate' = [kstate EXCEPT ![c] =
                   IF pending[r] = {} /\ ~ShouldStop(c) THEN @ ELSE "RUNNING"]
      BY <1>2 DEF KsdTop
    <2>3. /\ kpc' \in [Cpu -> {"top", "sched", "loop", "ran", "out", "die", "exited"}]
          /\ kstate' \in [Cpu -> {"RUNNING", "INTERRUPTIBLE"}]
      BY <1>1, <2>2
    <2>4. ASSUME NEW d \in Cpu, d \in online, pending[d] # {}, kstate[d] = "RUNNING" \/ kpc[d] = "top"
          PROVE  kstate'[d] = "RUNNING" \/ kpc'[d] = "top"
      <3>1. CASE d = c
        BY <1>1, <2>2, <2>4, <3>1 DEF RunsOn
      <3>2. CASE d # c
        BY <1>1, <2>2, <2>4, <3>2
      <3>. QED BY <3>1, <3>2
    <2>. QED BY <2>1, <2>3, <2>4, ThreadStep
  <1>3. CASE KsdScheduled(c) \/ KsdResched(c) \/ KsdDies(c)
    <2>1. UNCHANGED <<sched, run, count, vec, pending, soft, kstate, op, left, online, hot>>
      BY <1>3 DEF KsdScheduled, KsdResched, KsdDies, taskletVars, cpuVars, taskVars, hotVars
    <2>2. /\ kpc' \in [Cpu -> {"top", "sched", "loop", "ran", "out", "die", "exited"}]
          /\ kpc[c] # "top" /\ \A d \in Cpu : d # c => kpc'[d] = kpc[d]
      BY <1>1, <1>3 DEF KsdScheduled, KsdResched, KsdDies
    <2>. QED BY <1>1, <2>1, <2>2, ThreadStep
  <1>4. CASE KsdOut(c)
    <2>1. UNCHANGED <<sched, run, count, vec, pending, soft, op, left, online, hot>>
      BY <1>4 DEF KsdOut, taskletVars, cpuVars, taskVars, hotVars
    <2>2. /\ kpc' \in [Cpu -> {"top", "sched", "loop", "ran", "out", "die", "exited"}]
          /\ kstate' \in [Cpu -> {"RUNNING", "INTERRUPTIBLE"}]
          /\ kpc'[c] = "top" /\ \A d \in Cpu : d # c => kpc'[d] = kpc[d] /\ kstate'[d] = kstate[d]
      BY <1>1, <1>4 DEF KsdOut
    <2>. QED BY <2>1, <2>2, ThreadStep
  <1>5. CASE KsdLoop(c)
    <2>1. UNCHANGED <<sched, run, count, vec, kstate, op, left, online, hot>> /\ kpc[c] = "loop"
      BY <1>5 DEF KsdLoop, taskletVars, taskVars, hotVars
    <2>2. PICK r \in Cpu : RunsOn(c, r) /\
             IF pending[r] = {}
             THEN kpc' = [kpc EXCEPT ![c] = "out"] /\ UNCHANGED <<soft, pending>>
             ELSE IF c \notin online
                  THEN kpc' = [kpc EXCEPT ![c] = "die"] /\ UNCHANGED <<soft, pending>>
                  ELSE kpc' = [kpc EXCEPT ![c] = "ran"] /\ DoSoftirq(c)
      BY <1>5 DEF KsdLoop
    <2>3. /\ kpc' \in [Cpu -> {"top", "sched", "loop", "ran", "out", "die", "exited"}]
          /\ \A d \in Cpu : d # c => kpc'[d] = kpc[d]
      BY <1>1, <2>2
    <2>4. CASE UNCHANGED <<soft, pending>>
      BY <1>1, <2>1, <2>3, <2>4, ThreadStep
    <2>5. CASE c \in online /\ DoSoftirq(c)
      <3>1. soft[c].pc = "none" /\ ~BhOff(c)
        BY <2>2, <2>5 DEF RunsOn, InInterrupt
      <3>2. \A d \in Cpu : BhOff(d)' <=> BhOff(d)
        BY <2>1 DEF BhOff
      <3>3. /\ FrameInv' /\ ClaimInv' /\ LockInv' /\ DisableInv'
            /\ soft' \in [Cpu -> FrameType] /\ pending' \in [Cpu -> SUBSET Nr]
            /\ pending'[c] = {} /\ pending[c] \subseteq soft'[c].todo
            /\ \A d \in Cpu : d # c => pending'[d] = pending[d] /\ soft'[d] = soft[d]
        BY <2>1, <2>5, <3>1, <3>2, DoSoftirqParts
      <3>4. soft[c].todo = {}
        BY <3>1 DEF IInv, FrameInv
      <3>5. TypeOK'
        BY <2>1, <2>3, <3>3 DEF IInv, TypeOK, FrameType
      <3>6. NothingStranded'
        BY <2>1, <2>3, <2>5, <3>2, <3>3, <3>4, DoSoftirqStranded
      <3>. QED BY <3>3, <3>5, <3>6 DEF IInv
    <2>. QED BY <2>2, <2>4, <2>5
  <1>. QED BY <1>2, <1>3, <1>4, <1>5 DEF KsdStep

LEMMA CpuDiesInv ==
    ASSUME IInv, NEW c \in Cpu, CpuDies(c)
    PROVE  IInv'
  <1>1. /\ UNCHANGED <<sched, run, count, vec, pending, soft, kpc, kstate, op, left>>
        /\ hot.pc = "up" /\ online' = online \ {c} /\ hot' = [pc |-> "dead", cpu |-> c]
    BY DEF CpuDies, taskletVars, cpuVars, ksdVars, taskVars
  <1>2. \A d \in Cpu : soft[d].pc = "none" /\ ~BhOff(d)
    BY DEF CpuDies, Preemptible, InInterrupt, IInv, FrameInv
  <1>3. \A d \in Cpu : ~BhOff(d)'
    BY <1>1, <1>2 DEF BhOff
  <1>4. hot'.pc = "dead" /\ hot'.cpu = c /\ c \in Cpu \ online'
    BY <1>1
  <1>5. TypeOK'
    BY <1>1 DEF IInv, TypeOK
  <1>6. FrameInv'
    BY <1>1, <1>2, <1>3, <1>4 DEF IInv, FrameInv
  <1>7. ClaimInv'
    BY <1>1, QueuesSame, SameClaims DEF IInv, HoldsClaim
  <1>8. LockInv'
    BY <1>1, SameLocks DEF IInv, Locks, Cur
  <1>9. DisableInv'
    BY <1>1, SameDisables DEF IInv, Cur
  <1>10. NothingStranded'
    <2>1. ASSUME NEW d \in Cpu, NEW m \in Nr, vec'[d][m] # <<>>
          PROVE  \/ d \in online' /\ m \in pending'[d] \cup soft'[d].todo
                 \/ d = hot'.cpu /\ hot'.pc \in {"dead", "stop"}
      <3>1. d \in online /\ m \in pending[d] \cup soft[d].todo
        BY <1>1, <2>1 DEF IInv, NothingStranded
      <3>. QED BY <1>1, <1>4, <3>1
    <2>2. \A d \in Cpu : InInterrupt(d)' <=> InInterrupt(d)
      BY <1>1 DEF InInterrupt, BhOff
    <2>3. \A d \in Cpu : d \in online' /\ pending'[d] # {} =>
             InInterrupt(d)' \/ kstate'[d] = "RUNNING" \/ kpc'[d] = "top"
      BY <1>1, <2>2 DEF IInv, NothingStranded
    <2>. QED BY <2>1, <2>3 DEF NothingStranded
  <1>. QED BY <1>5, <1>6, <1>7, <1>8, <1>9, <1>10 DEF IInv

LEMMA KthreadStopInv ==
    ASSUME IInv, KthreadStop
    PROVE  IInv'
  <1>1. /\ UNCHANGED <<sched, run, count, vec, pending, soft, kpc, op, left, online>>
        /\ hot.pc = "dead" /\ hot' = [hot EXCEPT !.pc = "stop"]
        /\ kstate' = [kstate EXCEPT ![hot.cpu] = "RUNNING"]
    BY DEF KthreadStop, Wakeup, taskletVars, cpuVars, taskVars
  <1>2. hot'.pc = "stop" /\ hot'.cpu = hot.cpu /\ hot' \in [pc : {"up", "dead", "stop", "gone"}, cpu : Cpu \cup {Null}]
    BY <1>1 DEF IInv, TypeOK
  <1>3. hot.cpu \in Cpu \ online
    BY <1>1 DEF IInv, FrameInv
  <1>4. kstate' \in [Cpu -> {"RUNNING", "INTERRUPTIBLE"}] /\ \A d \in Cpu : kstate'[d] \in {kstate[d], "RUNNING"}
    BY <1>1 DEF IInv, TypeOK
  <1>5. TypeOK'
    BY <1>1, <1>2, <1>4 DEF IInv, TypeOK
  <1>6. FrameInv'
    BY <1>1, <1>2, <1>3 DEF IInv, FrameInv, BhOff
  <1>7. ClaimInv'
    BY <1>1, QueuesSame, SameClaims DEF IInv, HoldsClaim
  <1>8. LockInv'
    BY <1>1, SameLocks DEF IInv, Locks, Cur
  <1>9. DisableInv'
    BY <1>1, SameDisables DEF IInv, Cur
  <1>10. NothingStranded'
    <2>1. \A d \in Cpu : InInterrupt(d)' <=> InInterrupt(d)
      BY <1>1 DEF InInterrupt, BhOff
    <2>2. \A d \in Cpu : d \in online' /\ pending'[d] # {} =>
             InInterrupt(d)' \/ kstate'[d] = "RUNNING" \/ kpc'[d] = "top"
      BY <1>1, <1>4, <2>1 DEF IInv, NothingStranded
    <2>. QED BY <1>1, <1>2, <2>2 DEF IInv, NothingStranded
  <1>. QED BY <1>5, <1>6, <1>7, <1>8, <1>9, <1>10 DEF IInv

LEMMA TakeoverTaskletsInv ==
    ASSUME IInv, NEW r \in Cpu, TakeoverTasklets(r)
    PROVE  IInv'
  <1>1. /\ UNCHANGED <<sched, run, count, soft, kpc, op, left, online>>
        /\ hot.pc = "stop" /\ hot' = [hot EXCEPT !.pc = "gone"]
        /\ pending' = [pending EXCEPT ![r] = Nr]
        /\ kstate' = [kstate EXCEPT ![r] = "RUNNING"]
        /\ r \in online
    BY DEF TakeoverTasklets, Wakeup, Preemptible, taskletVars, taskVars
  <1>2. PICK h \in Cpu : h = hot.cpu /\ h \notin online /\ h # r
    BY <1>1 DEF IInv, FrameInv
  <1>3. vec \in VecType
    BY Types
  <1>4. /\ vec' \in VecType
        /\ \A n \in Nr : vec'[r][n] = vec[r][n] \o vec[h][n] /\ vec'[h][n] = <<>>
        /\ \A d \in Cpu : d # r /\ d # h => vec'[d] = vec[d]
    <2>1. PICK a \in [Nr -> Seq(Tasklet)] : a = [n \in Nr |-> vec[r][n] \o vec[h][n]]
      <3>1. \A n \in Nr : vec[r][n] \in Seq(Tasklet) /\ vec[h][n] \in Seq(Tasklet)
        BY <1>3 DEF VecType
      <3>2. \A n \in Nr : vec[r][n] \o vec[h][n] \in Seq(Tasklet)
        BY <3>1, ConcatProperties
      <3>. QED BY <3>2
    <2>2. PICK b \in [Nr -> Seq(Tasklet)] : b = [n \in Nr |-> <<>>]
      <3>1. <<>> \in Seq(Tasklet)
        OBVIOUS
      <3>. QED BY <3>1
    <2>3. vec' = [vec EXCEPT ![r] = a, ![h] = b]
      BY <1>2, <1>3, <2>1, <2>2 DEF TakeoverTasklets, VecType
    <2>4. vec' \in VecType /\ vec'[r] = a /\ vec'[h] = b /\ \A d \in Cpu : d # r /\ d # h => vec'[d] = vec[d]
      BY <1>2, <1>3, <2>3 DEF VecType
    <2>. QED BY <2>1, <2>2, <2>4
  <1>5. Queues' \in QueueType /\ Queues \in QueueType
    BY <1>1, <1>4, Types, QueuesType, QueuesStates
  <1>6. "HI" \in Nr /\ "TASKLET" \in Nr /\ \A n \in Nr : n = "HI" \/ n = "TASKLET"
    BY DEF Nr
  <1>7. PICK p \in Places, o \in Places : p = <<r, "HI">> /\ o = <<h, "HI">>
    BY <1>6, PlaceCases
  <1>8. PICK q \in Places, s \in Places : q = <<r, "TASKLET">> /\ s = <<h, "TASKLET">>
    BY <1>6, PlaceCases
  <1>9. p # o /\ q # s /\ p # q /\ p # s /\ o # q /\ o # s
    BY <1>2, <1>7, <1>8
  <1>10. Queues'[p] = Queues[p] \o Queues[o] /\ Queues'[o] = <<>>
    BY <1>4, <1>6, <1>7, QueuesPlaces
  <1>11. Queues'[q] = Queues[q] \o Queues[s] /\ Queues'[s] = <<>>
    BY <1>4, <1>6, <1>8, QueuesPlaces
  <1>12. \A x \in Places : x \notin {p, o, q, s} => Queues'[x] = Queues[x]
    <2>1. \A d \in Cpu : \A n \in Nr : <<d, n>> \notin {p, o, q, s} => vec'[d][n] = vec[d][n]
      BY <1>4, <1>6, <1>7, <1>8
    <2>2. \A d \in Cpu : Rest(soft'[d]) = Rest(soft[d])
      BY <1>1
    <2>. QED BY <2>1, <2>2, QueuesKept
  <1>13. PICK R \in QueueType : Joined(Queues, R, p, o) /\ Joined(R, Queues', q, s)
    <2>1. PICK l \in Seq(Tasklet), e \in Seq(Tasklet) : l = Queues'[p] /\ e = <<>>
      <3>1. Queues'[p] \in Seq(Tasklet)
        BY <1>5 DEF QueueType
      <3>2. <<>> \in Seq(Tasklet)
        OBVIOUS
      <3>. QED BY <3>1, <3>2
    <2>2. PICK R : R = [Queues EXCEPT ![p] = l, ![o] = e]
      OBVIOUS
    <2>3. /\ R \in QueueType /\ R[p] = l /\ R[o] = e
          /\ \A x \in Places : x # p /\ x # o => R[x] = Queues[x]
      BY <1>5, <1>9, <2>2 DEF QueueType
    <2>4. Joined(Queues, R, p, o)
      BY <1>10, <2>1, <2>3 DEF Joined
    <2>5. Joined(R, Queues', q, s)
      <3>1. R[q] = Queues[q] /\ R[s] = Queues[s]
        BY <1>9, <2>3
      <3>2. ASSUME NEW x \in Places, x # q, x # s PROVE Queues'[x] = R[x]
        <4>1. CASE x = p
          BY <4>1, <2>1, <2>3
        <4>2. CASE x = o
          BY <4>2, <1>10, <2>1, <2>3
        <4>3. CASE x # p /\ x # o
          BY <4>3, <3>2, <1>12, <2>3
        <4>. QED BY <4>1, <4>2, <4>3
      <3>. QED BY <1>11, <3>1, <3>2 DEF Joined
    <2>. QED BY <2>3, <2>4, <2>5
  <1>14. ClaimInv'
    <2>1. /\ \A x : Holds(R, x) <=> Holds(Queues, x)
          /\ \A x : Unique(Queues, x) => Unique(R, x)
      BY <1>5, <1>9, <1>13, JoinLists
    <2>2. /\ \A x : Holds(Queues', x) <=> Holds(R, x)
          /\ \A x : Unique(R, x) => Unique(Queues', x)
      BY <1>5, <1>9, <1>13, JoinLists
    <2>3. \A u \in Task, t \in Tasklet : HoldsClaim(u, t)' <=> HoldsClaim(u, t)
      BY <1>1 DEF HoldsClaim
    <2>. QED BY <1>1, <2>1, <2>2, <2>3, ClaimsMoved DEF IInv
  <1>15. hot'.pc = "gone" /\ hot'.cpu = h /\ hot' \in [pc : {"up", "dead", "stop", "gone"}, cpu : Cpu \cup {Null}]
    BY <1>1, <1>2 DEF IInv, TypeOK
  <1>16. /\ pending' \in [Cpu -> SUBSET Nr] /\ pending'[r] = Nr /\ \A d \in Cpu : d # r => pending'[d] = pending[d]
         /\ kstate' \in [Cpu -> {"RUNNING", "INTERRUPTIBLE"}]
         /\ kstate'[r] = "RUNNING" /\ \A d \in Cpu : d # r => kstate'[d] = kstate[d]
    BY <1>1 DEF IInv, TypeOK
  <1>17. TypeOK'
    BY <1>1, <1>4, <1>15, <1>16 DEF IInv, TypeOK, VecType
  <1>18. FrameInv'
    BY <1>1, <1>2, <1>15 DEF IInv, FrameInv, BhOff
  <1>19. LockInv'
    BY <1>1, SameLocks DEF IInv, Locks, Cur
  <1>20. DisableInv'
    BY <1>1, SameDisables DEF IInv, Cur
  <1>21. NothingStranded'
    <2>1. ASSUME NEW d \in Cpu, NEW m \in Nr, vec'[d][m] # <<>>
          PROVE  d \in online' /\ m \in pending'[d] \cup soft'[d].todo
      <3>1. d # h
        BY <1>4, <2>1
      <3>2. CASE d = r
        BY <1>1, <1>16, <3>2
      <3>3. CASE d # r
        <4>1. vec[d][m] # <<>>
          BY <1>4, <2>1, <3>1, <3>3
        <4>2. d \in online /\ m \in pending[d] \cup soft[d].todo
          BY <1>2, <3>1, <4>1 DEF IInv, NothingStranded
        <4>. QED BY <1>1, <1>16, <3>3, <4>2
      <3>. QED BY <3>2, <3>3
    <2>2. \A d \in Cpu : InInterrupt(d)' <=> InInterrupt(d)
      BY <1>1 DEF InInterrupt, BhOff
    <2>3. \A d \in Cpu : d \in online' /\ pending'[d] # {} =>
             InInterrupt(d)' \/ kstate'[d] = "RUNNING" \/ kpc'[d] = "top"
      BY <1>1, <1>16, <2>2 DEF IInv, NothingStranded
    <2>. QED BY <2>1, <2>3 DEF NothingStranded
  <1>. QED BY <1>14, <1>17, <1>18, <1>19, <1>20, <1>21 DEF IInv

-------------------------------------------------------------------------------
(* The theorems                                                             *)

LEMMA InitInv ==
    ASSUME Init
    PROVE  IInv
  <1>. USE DEF Init
  <1>1. NoFrame \in FrameType /\ FrameOk(NoFrame) /\ NoFrame.pc = "none" /\ NoFrame.list = <<>> /\ NoFrame.todo = {}
    <2>1. {} \in SUBSET Nr /\ 0 \in 0..MAX_SOFTIRQ_RESTART
      BY SoftirqAssumption
    <2>. QED BY <2>1, FrameFacts
  <1>2. <<>> \in Seq(Tasklet) /\ MaxOps \in 0..MaxOps
    BY SoftirqAssumption
  <1>3. soft \in [Cpu -> FrameType] /\ vec \in VecType
    BY <1>1, <1>2 DEF VecType
  <1>4. TypeOK
    BY <1>2, <1>3 DEF TypeOK, FrameType, VecType
  <1>5. \A u \in Task : op[u].pc = "idle" /\ op[u].cpu = Null
    OBVIOUS
  <1>6. FrameInv
    <2>1. \A c \in Cpu : soft[c].pc = "none" /\ soft[c].list = <<>> /\ soft[c].todo = {} /\ ~BhOff(c)
      BY <1>1, <1>5, SoftirqAssumption DEF BhOff
    <2>. QED BY <1>5, <2>1 DEF FrameInv
  <1>7. ClaimInv
    <2>1. ASSUME NEW p \in Places PROVE Queues[p] = <<>>
      <3>1. PICK c \in Cpu : p = <<c, "run">> \/ \E n \in Nr : p = <<c, n>>
        BY PlaceCases
      <3>2. CASE p = <<c, "run">>
        BY <3>2, <1>1, QueuesPlaces DEF Rest
      <3>3. CASE \E n \in Nr : p = <<c, n>>
        <4>1. PICK n \in Nr : p = <<c, n>>
          BY <3>3
        <4>2. Queues[<<c, n>>] = vec[c][n]
          BY QueuesPlaces
        <4>. QED BY <4>1, <4>2
      <3>. QED BY <3>1, <3>2, <3>3
    <2>2. \A p \in Places : 1..Len(Queues[p]) = {}
      BY <2>1
    <2>3. \A t \in Tasklet : ~InQueue(t)
      BY <2>2 DEF InQueue
    <2>4. \A t \in Tasklet, u \in Task : ~HoldsClaim(u, t)
      BY <1>5 DEF HoldsClaim
    <2>. QED BY <2>2, <2>3, <2>4 DEF ClaimInv
  <1>8. LockInv
    BY <1>1 DEF LockInv, Locks
  <1>9. DisableInv
    <2>1. \A t : Disabler(t) = {}
      BY <1>5 DEF Disabler
    <2>. QED BY <1>5, <2>1, FS_EmptySet DEF DisableInv
  <1>10. NothingStranded
    BY DEF NothingStranded
  <1>. QED BY <1>4, <1>6, <1>7, <1>8, <1>9, <1>10 DEF IInv

LEMMA NextInv ==
    ASSUME IInv, [Next]_vars
    PROVE  IInv'
  <1>1. ASSUME NEW c \in Cpu, SoftStep(c) PROVE IInv'
    BY <1>1, TakeListInv, ListEndInv, TaskletTrylockInv, ReadCountInv, ClearSchedInv,
       FuncReturnsInv, RequeueInv, PassEndsInv DEF SoftStep
  <1>2. ASSUME NEW u \in Task, TaskStep(u) PROVE IInv'
    <2>1. CASE LocalBhEnable(u)
      BY <2>1, LocalBhEnableInv
    <2>2. ASSUME NEW t \in Tasklet,
                 \/ TaskletDisabled(u, t) \/ TaskletEnable(u, t)
                 \/ KillClaims(u, t) \/ KillUnlockWait(u, t) \/ KillClears(u, t)
          PROVE  IInv'
      BY <2>2, UnlockWaitInv, TaskletEnableInv, KillClaimsInv, KillClearsInv
    <2>3. ASSUME NEW t \in Tasklet, NEW c \in Cpu, TaskletPush(u, c, t) PROVE IInv'
      BY <2>3, TaskletPushInv
    <2>. QED BY <1>2, <2>1, <2>2, <2>3 DEF TaskStep
  <1>3. ASSUME NEW c \in Cpu, HardIrq(c, {}) PROVE IInv'
    <2>1. {} \in SUBSET Tasklet
      OBVIOUS
    <2>. QED BY <1>3, <2>1, HardIrqInv
  <1>4. ASSUME NEW c \in Cpu, NEW t \in Tasklet, HardIrq(c, {t}) PROVE IInv'
    <2>1. {t} \in SUBSET Tasklet /\ \E x \in Tasklet : {t} = {x}
      OBVIOUS
    <2>. QED BY <1>4, <2>1, HardIrqInv
  <1>5. ASSUME NEW c \in Cpu,
               \/ SoftStep(c) \/ KsdStep(c) \/ CpuDies(c) \/ TakeoverTasklets(c) \/ HardIrq(c, {})
               \/ \E t \in Tasklet : HardIrq(c, {t}) \/ FuncSchedules(c, t)
        PROVE  IInv'
    BY <1>1, <1>3, <1>4, <1>5, KsdStepInv, CpuDiesInv, TakeoverTaskletsInv, FuncSchedulesInv
  <1>6. ASSUME NEW u \in Task,
               \/ TaskStep(u)
               \/ \E t \in Tasklet : TaskletSchedule(u, t) \/ TaskletDisable(u, t) \/ TaskletKill(u, t)
               \/ \E c \in Cpu : LocalBhDisable(u, c)
        PROVE  IInv'
    BY <1>2, <1>6, TaskletScheduleInv, TaskletDisableInv, TaskletKillInv, LocalBhDisableInv
  <1>7. CASE UNCHANGED vars
    <2>1. UNCHANGED <<sched, run, count, vec, pending, soft, kpc, kstate, op, left, online, hot>>
      BY <1>7 DEF vars, taskletVars, cpuVars, ksdVars, taskVars, hotVars
    <2>. QED BY <2>1, ThreadStep DEF IInv, TypeOK
  <1>. QED BY <1>5, <1>6, <1>7, KthreadStopInv DEF Next

\* Every step of interrupts, softirqs, ksoftirqd, tasks and the hotplug code
\* preserves the conjunction of the type invariant, the frames, the claims on
\* the tasklets, their RUN bits and counts, and the masks.
THEOREM Invariance == Spec => []IInv
  <1>1. Init => IInv
    BY InitInv
  <1>2. IInv /\ [Next]_vars => IInv'
    BY NextInv
  <1>. QED BY <1>1, <1>2, PTL DEF Spec

\* What the set of claims on a tasklet is made of.
LEMMA ClaimsElements ==
    ASSUME IInv, NEW t \in Tasklet, NEW z
    PROVE  z \in Claims(t) <=>
             \/ \E p \in Places : \E k \in 1..Len(Queues[p]) : Queues[p][k] = t /\ z = <<p, k>>
             \/ \E u \in Task : HoldsClaim(u, t) /\ z = <<u, 0>>
  <1>1. \A p \in Places : DOMAIN Queues[p] = 1..Len(Queues[p])
    BY Types DEF QueueType
  <1>2. z \in Claims(t) <=>
          \/ \E p \in Places : z \in {<<p, k>> : k \in {j \in DOMAIN Queues[p] : Queues[p][j] = t}}
          \/ \E u \in Task : HoldsClaim(u, t) /\ z = <<u, 0>>
    <2>1. z \in InLists(t) <=>
            \E p \in Places : z \in {<<p, k>> : k \in {j \in DOMAIN Queues[p] : Queues[p][j] = t}}
      BY DEF InLists
    <2>. QED BY <2>1 DEF Claims
  <1>. QED BY <1>1, <1>2

LEMMA OneClaim ==
    ASSUME IInv, NEW t \in Tasklet
    PROVE  Cardinality(Claims(t)) = IF sched[t] THEN 1 ELSE 0
  <1>1. CASE ~sched[t]
    <2>1. ~Holds(Queues, t) /\ ~\E u \in Task : HoldsClaim(u, t)
      BY <1>1, ClaimParts DEF IInv
    <2>2. \A z : z \notin Claims(t)
      BY <2>1, ClaimsElements DEF Holds
    <2>3. Claims(t) = {}
      BY <2>2
    <2>. QED BY <1>1, <2>3, FS_EmptySet
  <1>2. CASE sched[t] /\ Holds(Queues, t)
    <2>1. PICK p \in Places : \E k \in 1..Len(Queues[p]) : Queues[p][k] = t
      BY <1>2 DEF Holds
    <2>2. PICK k \in 1..Len(Queues[p]) : Queues[p][k] = t
      BY <2>1
    <2>3. Unique(Queues, t) /\ ~\E u \in Task : HoldsClaim(u, t)
      BY <1>2, ClaimParts DEF IInv
    <2>4. \A z : z \in Claims(t) <=> z = <<p, k>>
      BY <2>2, <2>3, ClaimsElements DEF Unique
    <2>5. Claims(t) = {<<p, k>>}
      BY <2>4
    <2>. QED BY <1>2, <2>5, FS_Singleton
  <1>3. CASE sched[t] /\ ~Holds(Queues, t)
    <2>1. PICK u \in Task : HoldsClaim(u, t)
      BY <1>3, ClaimParts DEF IInv
    <2>2. \A v \in Task : HoldsClaim(v, t) => v = u
      BY <2>1, ClaimParts DEF IInv
    <2>3. \A z : z \in Claims(t) <=> z = <<u, 0>>
      BY <1>3, <2>1, <2>2, ClaimsElements DEF Holds
    <2>4. Claims(t) = {<<u, 0>>}
      BY <2>3
    <2>. QED BY <1>3, <2>4, FS_Singleton
  <1>. QED BY <1>1, <1>2, <1>3

\* A tasklet whose SCHED bit is set is in exactly one list of one CPU, or held by
\* exactly one task that inserts or kills it; one whose bit is clear is nowhere.
THEOREM ScheduledOnceHolds == Spec => []ScheduledOnce
  <1>1. IInv => ScheduledOnce
    BY OneClaim DEF ScheduledOnce, IInv
  <1>. QED BY <1>1, Invariance, PTL

LEMMA RunsAlone ==
    ASSUME IInv
    PROVE  StrictlySerialized
  <1>. SUFFICES ASSUME NEW t \in Tasklet
                PROVE  /\ Cardinality({c \in Cpu : Runs(c, t)}) <= 1
                       /\ (\E u \in Task : op[u].t = t /\ op[u].pc \in {"disabled", "kclear"})
                             => {c \in Cpu : Runs(c, t)} = {}
    BY DEF StrictlySerialized
  <1>1. PICK on : on = {c \in Cpu : Runs(c, t)}
    OBVIOUS
  <1>2. \A c, d \in on : c = d
    BY <1>1 DEF IInv, LockInv, Locks, Runs
  <1>3. Cardinality(on) <= 1
    <2>1. CASE on = {}
      BY <2>1, FS_EmptySet
    <2>2. CASE on # {}
      <3>1. PICK c : on = {c}
        BY <1>2, <2>2
      <3>. QED BY <3>1, FS_Singleton
    <2>. QED BY <2>1, <2>2
  <1>4. ASSUME NEW u \in Task, op[u].t = t, op[u].pc \in {"disabled", "kclear"}, NEW c \in Cpu
        PROVE  ~Runs(c, t)
    BY <1>4 DEF IInv, DisableInv, Runs
  <1>. QED BY <1>1, <1>3, <1>4

\* The function of a tasklet runs on one CPU at a time, and on none between the
\* return of tasklet_disable and tasklet_enable, nor when tasklet_kill clears
\* the SCHED bit.
THEOREM StrictlySerializedHolds == Spec => []StrictlySerialized
  <1>1. IInv => StrictlySerialized
    BY RunsAlone
  <1>. QED BY <1>1, Invariance, PTL

\* A tasklet in a list of a CPU is never forgotten, and a pending softirq always
\* has somebody who will look at the mask.
THEOREM NothingStrandedHolds == Spec => []NothingStranded
  <1>1. IInv => NothingStranded
    BY DEF IInv
  <1>. QED BY <1>1, Invariance, PTL
===============================================================================
