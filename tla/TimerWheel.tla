------------------------------- MODULE TimerWheel -------------------------------
(***************************************************************************)
(* kernel/timer.c: the timer vectors of one CPU.  A timer is hashed by its *)
(* expiry into one of five vectors of lists; __run_timers takes one list   *)
(* of the first vector per tick and refills that vector from the others    *)
(* when it wraps; __next_timer_interrupt reads from the same lists how     *)
(* long a tickless CPU may sleep.                                          *)
(*                                                                         *)
(* A step is what happens between taking and dropping base->lock, except   *)
(* that jiffies may advance between the ticks that __run_timers processes. *)
(* The order of the timers within a list is left open.                     *)
(***************************************************************************)
EXTENDS Integers, FiniteSets

CONSTANTS
    Timer,
    Deferrable,  \* those initialised with init_timer_deferrable
    Null,
    TVR_SIZE,    \* 1 << TVR_BITS: a shift by TVR_BITS divides by it, TVR_MASK takes
    TVN_SIZE,    \* the remainder; TVN_SIZE likewise
    SetAt,       \* bound: the jiffies at which timers are set
    Offsets,     \* bound: how far from the current jiffy they are set
    MaxLag       \* bound: ticks that __run_timers may be behind

\* The number of lists of vector n, and the weight of one list, in ticks
Size(n) == IF n = 1 THEN TVR_SIZE ELSE TVN_SIZE
Width(n) ==
    CASE n = 1 -> 1
      [] n = 2 -> TVR_SIZE
      [] n = 3 -> TVR_SIZE * TVN_SIZE
      [] n = 4 -> TVR_SIZE * TVN_SIZE * TVN_SIZE
      [] n = 5 -> TVR_SIZE * TVN_SIZE * TVN_SIZE * TVN_SIZE

\* An unsigned long: the five vectors cover it exactly
Word == Width(5) * TVN_SIZE

Slots == ({1} \X (0..(TVR_SIZE - 1))) \cup ((2..5) \X (0..(TVN_SIZE - 1)))
Work == <<"work">>

\* NULL is not a list or an expiry.  __run_timers is less than a quarter of the word
\* behind, and timers are set less than half of it ahead of the wheel.
Constants ==
    /\ TVR_SIZE \in Nat \ {0, 1} /\ TVN_SIZE \in Nat \ {0, 1, 2, 3}
    /\ IsFiniteSet(Timer) /\ Deferrable \subseteq Timer
    /\ Null \notin Slots \cup {Work} \cup (0..(Word - 1))
    /\ SetAt \subseteq 0..(Word - 1)
    /\ MaxLag \in Nat /\ MaxLag < Word \div 4
    /\ \A o \in Offsets : o \in Int /\ o < Word \div 2 - MaxLag - 1 /\ o > -(Word \div 4)

ASSUME WheelAssumption == Constants

VARIABLES
    jiffies,
    timer_jiffies, \* base->timer_jiffies
    expires,       \* expires[t]: timer->expires, 0 once the timer is detached
    where,         \* where[t]: the list timer t is in: <<vector, index>>,
                   \* "work" for the list of the tick in progress, or Null
    pc             \* __run_timers: "out", "in" with the lock, "fn" in a handler

vars == <<jiffies, timer_jiffies, expires, where, pc>>

TypeOK ==
    /\ jiffies \in 0..(Word - 1) /\ timer_jiffies \in 0..(Word - 1)
    /\ expires \in [Timer -> 0..(Word - 1)]
    /\ where \in [Timer -> Slots \cup {Work, Null}]
    /\ pc \in {"out", "in", "fn"}

Init ==
    /\ jiffies \in SetAt /\ timer_jiffies = jiffies
    /\ expires = [t \in Timer |-> 0] /\ where = [t \in Timer |-> Null]
    /\ pc = "out"

\* time_before
Before(a, b) == (a - b) % Word >= Word \div 2

Pending(t) == where[t] # Null

Index(n, j) == (j \div Width(n)) % Size(n)

\* Plausible bug: the vector is chosen by the distance from jiffies.
AddRelativeToJiffies(e, base) ==
    LET idx == (e - jiffies) % Word
        fits == {n \in 1..4 : idx < Width(n + 1)}
    IN  IF fits # {} THEN LET n == CHOOSE n \in fits : \A k \in fits : n <= k
                          IN  <<n, Index(n, e)>>
        ELSE IF idx >= Word \div 2 THEN <<1, Index(1, base)>>
        ELSE <<5, Index(5, e)>>

\* internal_add_timer: the first vector that reaches as far as the expiry e
\* is from the tick base.  What lies in the past goes to the next list to run.
InternalAddTimer(e, base) ==
    LET idx == (e - base) % Word
        fits == {n \in 1..4 : idx < Width(n + 1)}
    IN  IF fits # {} THEN LET n == CHOOSE n \in fits : \A k \in fits : n <= k
                          IN  <<n, Index(n, e)>>
        ELSE IF idx >= Word \div 2 THEN <<1, Index(1, base)>>
        ELSE <<5, Index(5, e)>>

\* cascade: rehash the list of vector n that the wheel has come to
Cascade(n, w) ==
    [t \in Timer |-> IF w[t] = <<n, Index(n, timer_jiffies)>>
                     THEN InternalAddTimer(expires[t], timer_jiffies) ELSE w[t]]

\* The cascades of one tick: a vector is refilled when the one before wraps.
CascadeAll ==
    LET zero(n) == Index(n, timer_jiffies) = 0
        w2 == IF zero(1) THEN Cascade(2, where) ELSE where
        w3 == IF zero(1) /\ zero(2) THEN Cascade(3, w2) ELSE w2
        w4 == IF zero(1) /\ zero(2) /\ zero(3) THEN Cascade(4, w3) ELSE w3
    IN  IF zero(1) /\ zero(2) /\ zero(3) /\ zero(4) THEN Cascade(5, w4) ELSE w4

-------------------------------------------------------------------------------

\* The timer interrupt
DoTimer ==
    /\ (jiffies - timer_jiffies) % Word # MaxLag
    /\ jiffies' = (jiffies + 1) % Word
    /\ UNCHANGED <<timer_jiffies, expires, where, pc>>

\* run_timer_softirq
RunTimerSoftirq ==
    /\ pc = "out" /\ ~Before(jiffies, timer_jiffies)
    /\ pc' = "in"
    /\ UNCHANGED <<jiffies, timer_jiffies, expires, where>>

\* __run_timers: one turn of the outer loop
ProcessTick ==
    /\ pc = "in" /\ \A t \in Timer : where[t] # Work
    /\ ~Before(jiffies, timer_jiffies)
    /\ where' = [t \in Timer |-> IF CascadeAll[t] = <<1, Index(1, timer_jiffies)>>
                                 THEN Work ELSE CascadeAll[t]]
    /\ timer_jiffies' = (timer_jiffies + 1) % Word
    /\ UNCHANGED <<jiffies, expires, pc>>

\* ... one turn of the inner loop, up to the call of the handler
RunHandler(t) ==
    /\ pc = "in" /\ where[t] = Work
    /\ where' = [where EXCEPT ![t] = Null] /\ expires' = [expires EXCEPT ![t] = 0]
    /\ pc' = "fn"
    /\ UNCHANGED <<jiffies, timer_jiffies>>

HandlerReturns ==
    /\ pc = "fn" /\ pc' = "in"
    /\ UNCHANGED <<jiffies, timer_jiffies, expires, where>>

RunTimersEnds ==
    /\ pc = "in" /\ \A t \in Timer : where[t] # Work
    /\ Before(jiffies, timer_jiffies)
    /\ pc' = "out"
    /\ UNCHANGED <<jiffies, timer_jiffies, expires, where>>

\* mod_timer, add_timer: by a handler, or by anybody while the lock is free
ModTimer(t, e) ==
    /\ pc # "in" /\ jiffies \in SetAt
    /\ ~(expires[t] = e /\ Pending(t))
    /\ expires' = [expires EXCEPT ![t] = e]
    /\ where' = [where EXCEPT ![t] = InternalAddTimer(e, timer_jiffies)]
    /\ UNCHANGED <<jiffies, timer_jiffies, pc>>

\* del_timer
DelTimer(t) ==
    /\ pc # "in" /\ Pending(t)
    /\ where' = [where EXCEPT ![t] = Null] /\ expires' = [expires EXCEPT ![t] = 0]
    /\ UNCHANGED <<jiffies, timer_jiffies, pc>>

Next ==
    \/ DoTimer \/ RunTimerSoftirq \/ ProcessTick \/ HandlerReturns \/ RunTimersEnds
    \/ \E t \in Timer :
          \/ RunHandler(t) \/ DelTimer(t)
          \/ \E o \in Offsets : ModTimer(t, (jiffies + o) % Word)

Spec == Init /\ [][Next]_vars

-------------------------------------------------------------------------------
(* __next_timer_interrupt                                                  *)

NEXT_TIMER_MAX_DELTA == Word \div 4 - 1

\* The earliest of the expiries E
Earliest(E) == CHOOSE x \in E : \A y \in E : ~Before(y, x)

\* The first lists of vector n, counted from index i, that hold one of T
FirstLists(n, i, size, T) ==
    LET at(k) == {t \in T : where[t] = <<n, (i + k) % size>>}
        hit == {k \in 0..(size - 1) : at(k) # {}}
    IN  IF hit = {} THEN [k |-> size, ts |-> {}]
        ELSE LET k == CHOOSE k \in hit : \A l \in hit : k <= l IN [k |-> k, ts |-> at(k)]

\* The search is over unless the list is due after the next cascade.
Over(i, k, size) == i # 0 /\ i + k < size

\* Plausible bug: the first timer found ends the search, cascade or not.
Search1Ends ==
    LET i == Index(1, timer_jiffies)
        first == FirstLists(1, i, TVR_SIZE, Timer \ Deferrable)
    IN  IF first.ts = {}
        THEN {[exp |-> (timer_jiffies + NEXT_TIMER_MAX_DELTA) % Word, found |-> FALSE, over |-> FALSE]}
        ELSE {[exp |-> expires[t], found |-> TRUE, over |-> TRUE] : t \in first.ts}

\* Vector 1, deferrable timers left out: the expiry of some timer of the
\* first list with one in it
Search1 ==
    LET i == Index(1, timer_jiffies)
        first == FirstLists(1, i, TVR_SIZE, Timer \ Deferrable)
    IN  IF first.ts = {}
        THEN {[exp |-> (timer_jiffies + NEXT_TIMER_MAX_DELTA) % Word, found |-> FALSE, over |-> FALSE]}
        ELSE {[exp |-> expires[t], found |-> TRUE, over |-> Over(i, first.k, TVR_SIZE)] : t \in first.ts}

\* Vectors 2 to 5, from the list that is cascaded next.  Once a timer has
\* been found only that list can hold an earlier one.
Search(n, j, s) ==
    LET i == j % TVN_SIZE
        first == IF s.found
                 THEN [k |-> 0, ts |-> {t \in Timer : where[t] = <<n, i>>}]
                 ELSE FirstLists(n, i, TVN_SIZE, Timer)
    IN  IF s.over \/ (~s.found /\ first.ts = {}) THEN s
        ELSE [exp |-> Earliest({s.exp} \cup {expires[t] : t \in first.ts}), found |-> TRUE,
              over |-> Over(i, first.k, TVN_SIZE)]

\* The next cascade of vector n, in units of its lists
RoundUp(j, size) == (j + size - 1) \div size

\* What __next_timer_interrupt may return
NextTimerInterrupt ==
    LET j2 == RoundUp(timer_jiffies, TVR_SIZE) % (Word \div TVR_SIZE)
        j3 == RoundUp(j2, TVN_SIZE)
        j4 == RoundUp(j3, TVN_SIZE)
        j5 == RoundUp(j4, TVN_SIZE)
    IN  {Search(5, j5, Search(4, j4, Search(3, j3, Search(2, j2, s)))).exp : s \in Search1}

-------------------------------------------------------------------------------
(* Properties                                                              *)

Queue == INSTANCE TimerQueue WITH
    clock <- timer_jiffies, None <- Null,
    expiry <- [t \in Timer |-> IF Pending(t) THEN expires[t] ELSE Null],
    due <- {t \in Timer : where[t] = Work}

\* The wheel implements the queue: whatever the cascades and the wrapping of
\* jiffies, a tick runs exactly the timers that expire with it, and those
\* that were set into the past.
ImplementsTimerQueue == Queue!Spec

TicksTo(e) == IF Before(e, timer_jiffies) THEN 0 ELSE (e - timer_jiffies) % Word
TicksToFirst(T) ==
    LET E == {TicksTo(expires[t]) : t \in {x \in T : Pending(x)}} \cup {NEXT_TIMER_MAX_DELTA}
    IN  CHOOSE d \in E : \A x \in E : d <= x

\* A tickless CPU that sleeps until __next_timer_interrupt misses no timer
\* except deferrable ones, and is not woken before the first timer of all:
\* what the lists say agrees with the expiries, cascades to come included.
\* The variables keep their types throughout.
SleepsUntilFirstTimer ==
    /\ TypeOK
    /\ pc = "out" => \A r \in NextTimerInterrupt :
           /\ TicksTo(r) <= TicksToFirst(Timer \ Deferrable)
           /\ TicksTo(r) >= TicksToFirst(Timer)

-------------------------------------------------------------------------------
(* The inductive invariant of the refinement                               *)

\* How far e is ahead of j, modulo the word
Ahead(e, j) == (e - j) % Word

\* The list p will come to its turn in time for a timer that expires at e: it is a list
\* of the first vector that is reached with e, or with j for a timer set into the past;
\* or one of another vector that is cascaded before e, and not before j.
InTime(p, e, j) ==
    \/ p = <<1, Index(1, j)>> /\ Ahead(e, j) >= Word - Word \div 4
    \/ p = <<1, Index(1, e)>> /\ Ahead(e, j) < TVR_SIZE
    \/ \E n \in 2..5 : /\ p = <<n, Index(n, e)>>
                       /\ e % Width(n) <= Ahead(e, j) /\ Ahead(e, j) < Word \div 2

\* __run_timers is at most one tick ahead of jiffies and not too far behind.
LagInv == Ahead(jiffies, timer_jiffies) \in (0..MaxLag) \cup {Word - 1}

IInv ==
    /\ TypeOK /\ LagInv
    /\ \A t \in Timer : where[t] \in Slots => InTime(where[t], expires[t], timer_jiffies)
===============================================================================
