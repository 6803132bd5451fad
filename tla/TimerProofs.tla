------------------------------- MODULE TimerProofs -------------------------------
(***************************************************************************)
(* TLAPS proofs about kernel/timer.c.  The first part is about TimerSync,  *)
(* for any sets of CPUs, tasks and timers and any number of calls; the     *)
(* second about TimerWheel, for vectors of any size and any set of timers. *)
(***************************************************************************)
EXTENDS TimerSync, Integers, Sequences, FiniteSetTheorems, TLAPS

\* No timer is set, no call is under way and all CPUs are up at the start.
LEMMA InitInv == Init => IInv
  <1>. SUFFICES ASSUME Init PROVE IInv
    OBVIOUS
  <1>. USE TimerSyncAssumption DEF Init, Idle
  <1>1. TypeOK
    <2>1. left \in [Task \cup {Null} -> 0..(MaxOps + MaxRearm)]
      OBVIOUS
    <2>. QED BY <2>1 DEF TypeOK, Actor
  <1>2. OpInv /\ MoveInv /\ SyncInv
    BY DEF OpInv, MoveInv, Moves, SyncInv, Actor
  <1>3. LinkInv /\ RunInv
    BY DEF LinkInv, RunInv
  <1>4. DeletedIsQuiet
    BY DEF DeletedIsQuiet, Actor
  <1>. QED BY <1>1, <1>2, <1>3, <1>4 DEF IInv

\* A call begins: it knows its timer and nothing else, and a new mod_timer or
\* del_timer_sync keeps to the rules between the two.
LEMMA BeginInv ==
    ASSUME IInv, NEW a \in Actor, NEW t \in Timer,
           ModTimer(a, t) \/ DelTimer(a, t) \/ (a \in Task /\ DelTimerSync(a, t))
    PROVE  IInv'
  <1>. USE TimerSyncAssumption DEF IInv
  <1>1. PICK to \in {"mod", "del", "sync"} :
          /\ Begin(a, to, t) /\ (to = "sync" => a \in Task)
          /\ UNCHANGED <<timerVars, cpuVars, hotVars>>
    BY DEF ModTimer, DelTimer, DelTimerSync
  <1>2. TypeOK'
    BY <1>1 DEF TypeOK, Begin, Payer, Actor, timerVars, cpuVars, hotVars
  <1>3. op'[a].pc = to /\ op'[a].t = t /\ \A x \in Actor : x # a => op'[x] = op[x]
    BY <1>1 DEF TypeOK, Begin
  <1>4. OpInv'
    BY <1>1, <1>3 DEF OpInv, hotVars
  <1>5. MoveInv'
    BY <1>1, <1>3 DEF MoveInv, Moves, Begin, timerVars
  <1>6. LinkInv' /\ RunInv'
    BY <1>1 DEF LinkInv, RunInv, timerVars, cpuVars, hotVars
  <1>7. SyncInv'
    BY <1>1, <1>3 DEF SyncInv, OpInv, Begin, Deleting, cpuVars, Actor
  <1>8. DeletedIsQuiet'
    BY <1>1, <1>3 DEF DeletedIsQuiet, RunsOn, timerVars, cpuVars, Actor
  <1>. QED BY <1>2, <1>4, <1>5, <1>6, <1>7, <1>8

\* lock_timer_base reads the base, or finds that it has changed.
LEMMA BaseInv ==
    ASSUME IInv, NEW a \in Actor, ReadBase(a) \/ BaseChanged(a)
    PROVE  IInv'
  <1>. USE TimerSyncAssumption DEF IInv
  <1>1. UNCHANGED <<timerVars, cpuVars, left, hotVars>>
    BY DEF ReadBase, BaseChanged
  <1>2. TypeOK'
    BY <1>1 DEF TypeOK, OpInv, ReadBase, BaseChanged, LockOf, ReadOf, timerVars, cpuVars, hotVars
  <1>3. /\ op[a].pc # "idle" /\ op'[a].pc \notin {"idle", "relock", "deleted"}
        /\ op[a].pc \notin {"idle", "relock", "deleted"} /\ op'[a].t = op[a].t
        /\ op'[a].pc \in {"mod", "modLock"} <=> op[a].pc \in {"mod", "modLock"}
        /\ op'[a].pc \in {"sync", "syncLock"} <=> op[a].pc \in {"sync", "syncLock"}
        /\ op'[a].pc \in {"modLock", "delLock", "syncLock"} => op'[a].b \in Cpu
        /\ \A x \in Actor : x # a => op'[x] = op[x]
    BY DEF TypeOK, OpInv, ReadBase, BaseChanged, LockOf, ReadOf
  <1>4. OpInv'
    BY <1>1, <1>3 DEF OpInv, hotVars
  <1>5. MoveInv'
    BY <1>1, <1>3 DEF MoveInv, Moves, timerVars
  <1>6. LinkInv' /\ RunInv'
    BY <1>1 DEF LinkInv, RunInv, timerVars, cpuVars, hotVars
  <1>7. SyncInv'
    BY <1>1, <1>3 DEF SyncInv, cpuVars, Actor
  <1>8. DeletedIsQuiet'
    BY <1>1, <1>3 DEF DeletedIsQuiet, RunsOn, timerVars, cpuVars, Actor
  <1>. QED BY <1>2, <1>4, <1>5, <1>6, <1>7, <1>8

\* While a timer is being deleted synchronously and nobody's handler runs,
\* nobody sets it.
LEMMA NobodySets ==
    ASSUME IInv, NEW u \in Task, NEW x \in Actor,
           op[u].pc = "deleted", op[x].pc \in {"mod", "modLock", "relock"}
    PROVE  op[x].t # op[u].t
  BY TimerSyncAssumption DEF IInv, SyncInv, DeletedIsQuiet, RunsOn, OpInv, Actor

\* __mod_timer under the lock of the old base: the timer is linked there, or
\* taken out to be moved when no handler of it can be running.
LEMMA ModLockedInv ==
    ASSUME IInv, NEW a \in Actor, NEW t \in Timer, NEW c \in Cpu, ModTimerLocked(a, t, c)
    PROVE  IInv'
  <1>. USE TimerSyncAssumption DEF IInv
  <1>. DEFINE b == op[a].b
  <1>1. /\ op[a].pc = "modLock" /\ op[a].t = t /\ base[t] = b /\ b \in Cpu /\ c \in online
        /\ UNCHANGED <<cpuVars, left, hotVars>>
        /\ \A x \in Actor : x # a => op'[x] = op[x]
    BY DEF ModTimerLocked, Locks, MayBeOn, TypeOK, OpInv
  <1>2. \A u \in Task : op[u].pc = "deleted" => op[u].t # t
    BY <1>1, NobodySets
  <1>3. CASE c = b \/ running[b] = t
    <2>1. /\ op'[a] = Idle /\ base' = base
          /\ linked' = [linked EXCEPT ![t] = b] /\ isPending' = [isPending EXCEPT ![t] = TRUE]
      BY <1>3 DEF ModTimerLocked, TypeOK
    <2>2. TypeOK'
      <3>1. op' = [op EXCEPT ![a] = Idle]
        BY <1>3 DEF ModTimerLocked
      <3>2. op' \in [Actor -> [pc : {"idle", "mod", "del", "sync", "modLock", "delLock",
                                      "syncLock", "relock", "deleted"},
                               t : Timer \cup {Null}, b : Cpu \cup {Null}]]
        BY <3>1 DEF TypeOK, Idle
      <3>. QED BY <1>1, <2>1, <3>2 DEF TypeOK, cpuVars, hotVars
    <2>3. OpInv' /\ MoveInv'
      BY <1>1, <2>1 DEF OpInv, MoveInv, Moves, Idle, hotVars
    <2>4. b \in online
      BY <1>1, <1>3 DEF RunInv, TypeOK
    <2>5. LinkInv' /\ RunInv'
      BY <1>1, <2>1, <2>4 DEF LinkInv, RunInv, TypeOK, cpuVars, hotVars
    <2>6. SyncInv'
      BY <1>1, <2>1 DEF SyncInv, Idle, cpuVars, Actor
    <2>7. DeletedIsQuiet'
      BY <1>1, <1>2, <2>1 DEF DeletedIsQuiet, OpInv, RunsOn, TypeOK, Idle, cpuVars, Actor
    <2>. QED BY <2>2, <2>3, <2>5, <2>6, <2>7
  <1>4. CASE ~(c = b \/ running[b] = t)
    <2>1. /\ op'[a].pc = "relock" /\ op'[a].t = t /\ op'[a].b = c /\ isPending' = isPending
          /\ linked' = [linked EXCEPT ![t] = Null] /\ base' = [base EXCEPT ![t] = Null]
      BY <1>1, <1>4 DEF ModTimerLocked, TypeOK
    <2>2. TypeOK'
      BY <1>1, <1>4, <2>1 DEF ModTimerLocked, TypeOK, cpuVars, hotVars
    <2>3. OpInv'
      BY <1>1, <2>1 DEF OpInv, hotVars
    <2>4. MoveInv'
      <3>1. \A x \in Actor : ~Moves(x, t)
        BY <1>1 DEF MoveInv
      <3>2. Moves(a, t)' /\ \A x \in Actor : x # a => ~Moves(x, t)'
        BY <1>1, <2>1, <3>1 DEF Moves
      <3>3. \A s \in Timer \ {t}, x \in Actor : Moves(x, s)' <=> Moves(x, s)
        BY <1>1, <2>1 DEF Moves
      <3>4. base'[t] = Null /\ \A s \in Timer \ {t} : base'[s] = base[s]
        BY <2>1 DEF TypeOK
      <3>. QED BY <3>2, <3>3, <3>4 DEF MoveInv
    <2>5. \A k \in Cpu : fn[k] # t
      BY <1>1, <1>4 DEF RunInv
    <2>6. LinkInv' /\ RunInv'
      BY <1>1, <2>1, <2>5 DEF LinkInv, RunInv, TypeOK, cpuVars, hotVars
    <2>7. SyncInv'
      BY <1>1, <2>1 DEF SyncInv, cpuVars, Actor
    <2>8. DeletedIsQuiet'
      <3>1. \A u \in Task : op'[u].pc = "deleted" => op'[u] = op[u] /\ op[u].t # t /\ op[u].t \in Timer
        BY <1>1, <1>2, <2>1 DEF OpInv, Actor
      <3>. QED BY <1>1, <2>1, <3>1 DEF DeletedIsQuiet, RunsOn, TypeOK, cpuVars
    <2>. QED BY <2>2, <2>3, <2>4, <2>6, <2>7, <2>8
  <1>. QED BY <1>3, <1>4

\* ... and under the lock of the new base: the move ends.
LEMMA RelockedInv ==
    ASSUME IInv, NEW a \in Actor, ModTimerRelocked(a)
    PROVE  IInv'
  <1>. USE TimerSyncAssumption DEF IInv
  <1>1. PICK t \in Timer, b \in Cpu :
        /\ op[a].pc = "relock" /\ op[a].t = t /\ op[a].b = b /\ b \in online
        /\ UNCHANGED <<cpuVars, left, hotVars>>
        /\ op' = [op EXCEPT ![a] = Idle] /\ op'[a] = Idle
        /\ \A x \in Actor : x # a => op'[x] = op[x]
        /\ base' = [base EXCEPT ![t] = b] /\ linked' = [linked EXCEPT ![t] = b]
        /\ isPending' = [isPending EXCEPT ![t] = TRUE]
    BY DEF ModTimerRelocked, TypeOK, OpInv
  <1>2. \A u \in Task : op[u].pc = "deleted" => op[u].t # t
    BY <1>1, NobodySets
  <1>3. Moves(a, t) /\ base[t] = Null
    BY <1>1 DEF Moves, MoveInv
  <1>4. TypeOK'
    <2>1. op' \in [Actor -> [pc : {"idle", "mod", "del", "sync", "modLock", "delLock",
                                    "syncLock", "relock", "deleted"},
                             t : Timer \cup {Null}, b : Cpu \cup {Null}]]
      BY <1>1 DEF TypeOK, Idle
    <2>. QED BY <1>1, <2>1 DEF TypeOK, cpuVars, hotVars
  <1>5. OpInv'
    BY <1>1 DEF OpInv, Idle, hotVars
  <1>6. MoveInv'
    <2>1. \A x \in Actor : ~Moves(x, t)'
      BY <1>1, <1>3 DEF Moves, MoveInv, Idle
    <2>2. \A s \in Timer \ {t}, x \in Actor : Moves(x, s)' <=> Moves(x, s)
      BY <1>1, <1>3 DEF Moves, Idle
    <2>3. base'[t] # Null /\ \A s \in Timer \ {t} : base'[s] = base[s]
      BY <1>1 DEF TypeOK
    <2>. QED BY <2>1, <2>2, <2>3 DEF MoveInv
  <1>7. \A k \in Cpu : fn[k] # t
    BY <1>1, <1>3 DEF RunInv
  <1>8. LinkInv' /\ RunInv'
    BY <1>1, <1>7 DEF LinkInv, RunInv, TypeOK, cpuVars, hotVars
  <1>9. SyncInv'
    BY <1>1 DEF SyncInv, Idle, cpuVars, Actor
  <1>10. DeletedIsQuiet'
    <2>1. \A u \in Task : op'[u].pc = "deleted" => op'[u] = op[u] /\ op[u].t # t /\ op[u].t \in Timer
      BY <1>1, <1>2 DEF OpInv, Idle, Actor
    <2>. QED BY <1>1, <2>1 DEF DeletedIsQuiet, RunsOn, TypeOK, cpuVars
  <1>. QED BY <1>4, <1>5, <1>6, <1>8, <1>9, <1>10

\* The timer is taken out of its list, by del_timer or by the synchronous
\* delete that has seen no handler of it; or the latter tries again.
LEMMA DelLockedInv ==
    ASSUME IInv, NEW a \in Actor, NEW t \in Timer,
           DelTimerLocked(a, t) \/ TryToDelTimerSync(a, t)
    PROVE  IInv'
  <1>. USE TimerSyncAssumption DEF IInv
  <1>1. /\ op[a].pc \in {"delLock", "syncLock"} /\ op[a].t = t /\ base[t] = op[a].b /\ op[a].b \in Cpu
        /\ op'[a].pc \in {"idle", "sync", "deleted"} /\ op'[a].t \in {t, Null}
        /\ op'[a].pc = "idle" <=> op'[a].t = Null
        /\ op'[a].pc \in {"sync", "deleted"} => op[a].pc = "syncLock"
        /\ \A x \in Actor : x # a => op'[x] = op[x]
        /\ UNCHANGED <<base, cpuVars, left, hotVars>>
    BY DEF DelTimerLocked, TryToDelTimerSync, Locks, TypeOK, OpInv, Idle
  <1>2. /\ linked' \in [Timer -> Cpu \cup {Null}] /\ isPending' \in [Timer -> BOOLEAN]
        /\ \A s \in Timer : s # t => linked'[s] = linked[s] /\ isPending'[s] = isPending[s]
        /\ \/ linked'[t] = Null /\ ~isPending'[t]
           \/ linked' = linked /\ isPending' = isPending
    BY DEF DelTimerLocked, TryToDelTimerSync, Detach, TypeOK
  <1>3. TypeOK'
    <2>1. op' \in [Actor -> [pc : {"idle", "mod", "del", "sync", "modLock", "delLock",
                                    "syncLock", "relock", "deleted"},
                             t : Timer \cup {Null}, b : Cpu \cup {Null}]]
      BY DEF DelTimerLocked, TryToDelTimerSync, TypeOK, Idle
    <2>. QED BY <1>1, <1>2, <2>1 DEF TypeOK, cpuVars, hotVars
  <1>4. OpInv'
    BY <1>1 DEF OpInv, hotVars
  <1>5. MoveInv'
    BY <1>1 DEF MoveInv, Moves
  <1>6. LinkInv' /\ RunInv'
    BY <1>1, <1>2 DEF LinkInv, RunInv, TypeOK, cpuVars, hotVars
  <1>7. SyncInv'
    BY <1>1 DEF SyncInv, OpInv, cpuVars, Actor
  <1>8. DeletedIsQuiet'
    <2>1. ASSUME op'[a].pc = "deleted"
          PROVE  linked'[t] = Null /\ ~isPending'[t] /\ op'[a].t = t /\ \A k \in Cpu : fn[k] # t
      <3>1. running[op[a].b] # t /\ Detach(t)
        BY <2>1 DEF DelTimerLocked, TryToDelTimerSync, TypeOK, Idle
      <3>2. linked'[t] = Null /\ ~isPending'[t]
        BY <1>1, <3>1 DEF Detach, LinkInv, TypeOK
      <3>3. \A k \in Cpu : fn[k] # t
        BY <1>1, <3>1 DEF RunInv
      <3>. QED BY <1>1, <2>1, <3>2, <3>3
    <2>2. \A u \in Task : op'[u].pc = "deleted" /\ u # a =>
             op'[u] = op[u] /\ op[u].t \in Timer
      BY <1>1 DEF OpInv, Actor
    <2>. QED BY <1>1, <1>2, <2>1, <2>2 DEF DeletedIsQuiet, RunsOn, TypeOK, cpuVars
  <1>. QED BY <1>3, <1>4, <1>5, <1>6, <1>7, <1>8

\* add_timer_on links an idle timer that nobody else knows of.
LEMMA AddTimerOnInv ==
    ASSUME IInv, NEW u \in Task, NEW t \in Timer, NEW c \in Cpu, AddTimerOn(u, t, c)
    PROVE  IInv'
  <1>. USE TimerSyncAssumption DEF IInv
  <1>1. /\ c \in online /\ op' = op /\ UNCHANGED <<cpuVars, hotVars>>
        /\ \A x \in Actor : op[x].t # t
        /\ \A k \in Cpu : running[k] # t
        /\ base' = [base EXCEPT ![t] = c] /\ linked' = [linked EXCEPT ![t] = c]
        /\ isPending' = [isPending EXCEPT ![t] = TRUE]
    BY DEF AddTimerOn
  <1>2. TypeOK'
    BY <1>1 DEF AddTimerOn, TypeOK, cpuVars, hotVars
  <1>3. OpInv' /\ SyncInv'
    BY <1>1 DEF OpInv, SyncInv, cpuVars, hotVars
  <1>4. MoveInv'
    BY <1>1 DEF MoveInv, Moves, TypeOK
  <1>5. LinkInv' /\ RunInv'
    BY <1>1 DEF LinkInv, RunInv, TypeOK, cpuVars, hotVars
  <1>6. DeletedIsQuiet'
    BY <1>1 DEF DeletedIsQuiet, RunsOn, OpInv, TypeOK, cpuVars, Actor
  <1>. QED BY <1>2, <1>3, <1>4, <1>5, <1>6

\* The caller of del_timer_sync stops relying on it.
LEMMA ReuseInv ==
    ASSUME IInv, NEW u \in Task, Reuse(u)
    PROVE  IInv'
  <1>. USE TimerSyncAssumption DEF IInv
  <1>1. /\ UNCHANGED <<timerVars, cpuVars, left, hotVars>> /\ op[u].pc = "deleted"
        /\ u \in Actor /\ op' = [op EXCEPT ![u] = Idle] /\ op'[u] = Idle
        /\ \A x \in Actor : x # u => op'[x] = op[x]
    BY DEF Reuse, TypeOK, Actor
  <1>2. TypeOK'
    <2>1. op' \in [Actor -> [pc : {"idle", "mod", "del", "sync", "modLock", "delLock",
                                    "syncLock", "relock", "deleted"},
                             t : Timer \cup {Null}, b : Cpu \cup {Null}]]
      BY <1>1 DEF TypeOK, Idle
    <2>. QED BY <1>1, <2>1 DEF TypeOK, timerVars, cpuVars, hotVars
  <1>3. OpInv' /\ MoveInv'
    BY <1>1 DEF OpInv, MoveInv, Moves, Idle, timerVars, hotVars
  <1>4. LinkInv' /\ RunInv'
    BY <1>1 DEF LinkInv, RunInv, timerVars, cpuVars, hotVars
  <1>5. SyncInv' /\ DeletedIsQuiet'
    BY <1>1 DEF SyncInv, DeletedIsQuiet, RunsOn, Idle, timerVars, cpuVars, Actor
  <1>. QED BY <1>2, <1>3, <1>4, <1>5

\* __run_timers takes a timer out of the lists of its CPU and calls its
\* handler: no other CPU can be in that handler, for the timer would be there.
LEMMA RunHandlerInv ==
    ASSUME IInv, NEW c \in Cpu, NEW t \in Timer, RunHandler(c, t)
    PROVE  IInv'
  <1>. USE TimerSyncAssumption DEF IInv
  <1>1. /\ c \in online /\ pc[c] # "fn" /\ linked[t] = c /\ UNCHANGED <<base, op, left, hotVars>>
        /\ running' = [running EXCEPT ![c] = t] /\ fn' = [fn EXCEPT ![c] = t]
        /\ pc' = [pc EXCEPT ![c] = "fn"]
        /\ linked' = [linked EXCEPT ![t] = Null] /\ isPending' = [isPending EXCEPT ![t] = FALSE]
    BY DEF RunHandler
  <1>2. base[t] = c /\ fn[c] = Null
    BY <1>1 DEF LinkInv, RunInv
  <1>3. TypeOK'
    BY <1>1 DEF TypeOK, hotVars
  <1>4. OpInv' /\ MoveInv'
    BY <1>1 DEF OpInv, MoveInv, Moves, hotVars
  <1>5. LinkInv' /\ RunInv'
    BY <1>1, <1>2 DEF LinkInv, RunInv, TypeOK, hotVars
  <1>6. SyncInv'
    BY <1>1, <1>2 DEF SyncInv, OpInv, TypeOK, Actor
  <1>7. DeletedIsQuiet'
    <2>1. \A u \in Task : op[u].pc = "deleted" => op[u].t # t /\ op[u].t \in Timer
      BY <1>1 DEF DeletedIsQuiet, OpInv, Actor
    <2>. QED BY <1>1, <2>1 DEF DeletedIsQuiet, RunsOn, TypeOK
  <1>. QED BY <1>3, <1>4, <1>5, <1>6, <1>7

\* The handler returns, and __run_timers goes on or ends.
LEMMA RunTimersInv ==
    ASSUME IInv, NEW c \in Cpu, HandlerReturns(c) \/ RunTimersEnds(c)
    PROVE  IInv'
  <1>. USE TimerSyncAssumption DEF IInv
  <1>1. UNCHANGED <<timerVars, op, left, hotVars>> /\ c \in Actor
    BY DEF HandlerReturns, RunTimersEnds, Actor
  <1>2. /\ fn'[c] = Null /\ \A k \in Cpu : k # c => fn'[k] = fn[k]
        /\ fn[c] # Null => op[c].pc = "idle"
    <2>1. CASE HandlerReturns(c)
      BY <2>1 DEF HandlerReturns, TypeOK
    <2>2. CASE RunTimersEnds(c)
      <3>1. fn' = fn /\ pc[c] = "loop"
        BY <2>2 DEF RunTimersEnds
      <3>2. fn[c] = Null
        BY <3>1 DEF RunInv
      <3>. QED BY <3>1, <3>2
    <2>. QED BY <2>1, <2>2
  <1>3. TypeOK'
    <2>1. CASE HandlerReturns(c)
      BY <1>1, <2>1 DEF HandlerReturns, TypeOK, timerVars, hotVars
    <2>2. CASE RunTimersEnds(c)
      BY <1>1, <2>2 DEF RunTimersEnds, TypeOK, timerVars, hotVars
    <2>. QED BY <2>1, <2>2
  <1>4. OpInv' /\ MoveInv' /\ LinkInv'
    BY <1>1 DEF OpInv, MoveInv, Moves, LinkInv, timerVars, hotVars
  <1>5. RunInv'
    BY <1>1 DEF HandlerReturns, RunTimersEnds, RunInv, TypeOK, timerVars, hotVars
  <1>6. SyncInv'
    BY <1>1, <1>2 DEF SyncInv, OpInv, Actor
  <1>7. DeletedIsQuiet'
    BY <1>1, <1>2 DEF DeletedIsQuiet, RunsOn, OpInv, timerVars, Actor
  <1>. QED BY <1>3, <1>4, <1>5, <1>6, <1>7

\* A CPU leaves the map of those that are up; no handler runs then.
LEMMA CpuDiesInv ==
    ASSUME IInv, NEW c \in Cpu, CpuDies(c)
    PROVE  IInv'
  <1>. USE TimerSyncAssumption DEF IInv
  <1>1. /\ UNCHANGED <<timerVars, cpuVars, op, left, migrated>>
        /\ online = Cpu /\ online' = online \ {c} /\ \A k \in Cpu : pc[k] = "out"
        /\ \A a \in Actor : op[a].pc # "relock"
    BY DEF CpuDies
  <1>2. TypeOK' /\ OpInv' /\ MoveInv'
    BY <1>1 DEF TypeOK, OpInv, MoveInv, Moves, timerVars, cpuVars
  <1>3. LinkInv' /\ RunInv'
    BY <1>1 DEF LinkInv, RunInv, timerVars, cpuVars
  <1>4. SyncInv' /\ DeletedIsQuiet'
    BY <1>1 DEF SyncInv, DeletedIsQuiet, RunsOn, timerVars, cpuVars
  <1>. QED BY <1>2, <1>3, <1>4

\* The timers of a dead CPU change their list and their base together.
LEMMA MigrateInv ==
    ASSUME IInv, NEW r \in Cpu, MigrateTimers(r)
    PROVE  IInv'
  <1>. USE TimerSyncAssumption DEF IInv
  <1>1. PICK moved : moved = {t \in Timer : linked[t] \in Cpu \ online}
    OBVIOUS
  <1>2. /\ UNCHANGED <<isPending, cpuVars, op, left, online>> /\ r \in online /\ migrated' = TRUE
        /\ online # Cpu
        /\ base' = [t \in Timer |-> IF t \in moved THEN r ELSE base[t]]
        /\ linked' = [t \in Timer |-> IF t \in moved THEN r ELSE linked[t]]
    BY <1>1 DEF MigrateTimers
  <1>3. \A t \in moved : base[t] \in Cpu \ online /\ linked[t] # Null /\ t \in Timer
    BY <1>1 DEF LinkInv
  <1>4. TypeOK' /\ OpInv'
    BY <1>2 DEF TypeOK, OpInv, cpuVars
  <1>5. MoveInv'
    BY <1>2, <1>3 DEF MoveInv, Moves
  <1>6. LinkInv'
    BY <1>1, <1>2, <1>3 DEF LinkInv, TypeOK
  <1>7. RunInv'
    BY <1>2, <1>3 DEF RunInv, TypeOK, cpuVars
  <1>8. SyncInv'
    BY <1>2 DEF SyncInv, cpuVars
  <1>9. DeletedIsQuiet'
    BY <1>2, <1>3 DEF DeletedIsQuiet, RunsOn, OpInv, cpuVars, Actor
  <1>. QED BY <1>4, <1>5, <1>6, <1>7, <1>8, <1>9

\* Every step, of a task, a handler, __run_timers or the hotplug callback,
\* preserves the invariant.
LEMMA NextInv == IInv /\ [Next]_vars => IInv'
  <1>. SUFFICES ASSUME IInv, [Next]_vars PROVE IInv'
    OBVIOUS
  <1>1. ASSUME NEW a \in Actor, CallStep(a) PROVE IInv'
    BY <1>1, BaseInv, ModLockedInv, RelockedInv, DelLockedInv DEF CallStep
  <1>2. ASSUME NEW a \in Actor, NEW t \in Timer, ModTimer(a, t) \/ DelTimer(a, t) PROVE IInv'
    BY <1>2, BeginInv
  <1>3. ASSUME NEW u \in Task, NEW t \in Timer, DelTimerSync(u, t) PROVE IInv'
    BY <1>3, BeginInv DEF Actor
  <1>4. ASSUME NEW u \in Task, Reuse(u) \/ \E t \in Timer, c \in Cpu : AddTimerOn(u, t, c)
        PROVE  IInv'
    BY <1>4, ReuseInv, AddTimerOnInv
  <1>5. ASSUME NEW c \in Cpu,
               \/ HandlerReturns(c) \/ RunTimersEnds(c) \/ CpuDies(c) \/ MigrateTimers(c)
               \/ \E t \in Timer : RunHandler(c, t)
        PROVE  IInv'
    BY <1>5, RunTimersInv, CpuDiesInv, MigrateInv, RunHandlerInv
  <1>6. CASE UNCHANGED vars
    BY <1>6 DEF vars, timerVars, cpuVars, hotVars, IInv, TypeOK, OpInv, MoveInv, Moves, LinkInv,
       RunInv, SyncInv, DeletedIsQuiet, RunsOn
  <1>. QED BY <1>1, <1>2, <1>3, <1>4, <1>5, <1>6 DEF Next

\* Every behaviour keeps the inductive invariant: what each call has read of
\* its timer, that a timer without a base is being moved, that lists and
\* bases agree, and that running_timer names the handler that runs.
THEOREM Invariance == Safety => []IInv
  BY InitInv, NextInv, PTL DEF Safety

\* The lock that lock_timer_base finds protects the timer, in the lists of a
\* CPU that has been cleaned up no timer is left, and a timer without a base
\* is being moved by exactly one caller.
THEOREM BaseOwnsTimerHolds == Safety => []BaseOwnsTimer
  <1>1. ASSUME IInv PROVE BaseOwnsTimer
    <2>1. ASSUME NEW t \in Timer, base[t] = Null
          PROVE  Cardinality({a \in Actor : op[a].t = t /\ op[a].pc = "relock"}) = 1
      <3>1. PICK a \in Actor : Moves(a, t)
        BY <1>1, <2>1 DEF IInv, MoveInv
      <3>2. {x \in Actor : op[x].t = t /\ op[x].pc = "relock"} = {a}
        BY <1>1, <3>1 DEF IInv, MoveInv, Moves
      <3>. QED BY <3>2, FS_Singleton
    <2>. QED BY <1>1, <2>1 DEF IInv, LinkInv, BaseOwnsTimer
  <1>. QED BY <1>1, Invariance, PTL

\* The handler of a timer never runs on two CPUs, and where it runs is where
\* del_timer_sync looks for it.
THEOREM SerializedHolds == Safety => []SerializedWithItself
  <1>1. ASSUME IInv PROVE SerializedWithItself
    <2>. SUFFICES ASSUME NEW t \in Timer
                  PROVE  /\ Cardinality(RunsOn(t)) <= 1
                         /\ \A c \in RunsOn(t) : running[c] = t /\ base[t] = c
      BY DEF SerializedWithItself
    <2>1. \A c \in RunsOn(t) : running[c] = t /\ base[t] = c
      BY <1>1, TimerSyncAssumption DEF IInv, RunInv, RunsOn
    <2>2. RunsOn(t) = {} \/ RunsOn(t) = {base[t]}
      BY <2>1
    <2>3. Cardinality(RunsOn(t)) \in {0, 1}
      BY <2>2, FS_Singleton, FS_EmptySet
    <2>. QED BY <2>1, <2>3
  <1>. QED BY <1>1, Invariance, PTL

\* After del_timer_sync the timer is not queued and its handler runs nowhere.
THEOREM DeletedIsQuietHolds == Safety => []DeletedIsQuiet
  BY Invariance, PTL DEF IInv

-------------------------------------------------------------------------------
(* TimerWheel: the same timers, in the vectors of one CPU                  *)

CONSTANTS Deferrable, TVR_SIZE, TVN_SIZE, SetAt, Offsets, MaxLag
VARIABLES jiffies, timer_jiffies, expires, where, run_pc

Wheel == INSTANCE TimerWheel WITH pc <- run_pc

\* A difference of two words
LEMMA ModSmall ==
    ASSUME NEW M \in Nat \ {0}, NEW a \in Int, -M <= a, a < M
    PROVE  a % M = IF a >= 0 THEN a ELSE a + M
  OBVIOUS

\* Division with remainder is unique.
LEMMA DivMod ==
    ASSUME NEW w \in Nat \ {0}, NEW a \in Nat
    PROVE  /\ a \div w \in Nat /\ a % w \in Nat
           /\ a % w < w /\ a = w * (a \div w) + (a % w)
  OBVIOUS

\* A multiple leaves no remainder.
LEMMA Multiple ==
    ASSUME NEW w \in Nat \ {0}, NEW q \in Nat
    PROVE  (w * q) % w = 0 /\ (w * q) \div w = q
  OBVIOUS

\* The digit of weight w of a multiple of the next weight is 0.
LEMMA Digit ==
    ASSUME NEW w \in Nat \ {0}, NEW s \in Nat \ {0}, NEW q \in Nat
    PROVE  (((w * s) * q) \div w) % s = 0
  <1>1. (w * s) * q = w * (s * q)
    OBVIOUS
  <1>2. s * q \in Nat
    OBVIOUS
  <1>3. ((w * s) * q) \div w = s * q
    BY <1>1, <1>2, Multiple
  <1>. QED BY <1>3, Multiple

\* The widths of the vectors: each divides the next, and all of them the word.
LEMMA Widths ==
    ASSUME Wheel!Constants
    PROVE  /\ \A n \in 1..5 : Wheel!Width(n) \in Nat \ {0}
           /\ TVR_SIZE \in Nat \ {0, 1} /\ TVN_SIZE \in Nat \ {0, 1, 2, 3}
           /\ Wheel!Width(1) = 1 /\ Wheel!Width(2) = TVR_SIZE
           /\ \A n \in 2..4 : Wheel!Width(n + 1) = Wheel!Width(n) * TVN_SIZE
           /\ Wheel!Word \in Nat \ {0} /\ Wheel!Word = Wheel!Width(5) * TVN_SIZE
  <1>1. TVR_SIZE \in Nat \ {0, 1} /\ TVN_SIZE \in Nat \ {0, 1, 2, 3}
    BY DEF Wheel!Constants
  <1>2. /\ Wheel!Width(1) = 1 /\ Wheel!Width(2) = TVR_SIZE
        /\ Wheel!Width(3) = Wheel!Width(2) * TVN_SIZE
        /\ Wheel!Width(4) = Wheel!Width(3) * TVN_SIZE
        /\ Wheel!Width(5) = Wheel!Width(4) * TVN_SIZE
    BY DEF Wheel!Width
  <1>3. \A n \in 1..5 : Wheel!Width(n) \in Nat \ {0}
    <2>1. \A a, b \in Nat \ {0} : a * b \in Nat \ {0}
      OBVIOUS
    <2>2. Wheel!Width(2) \in Nat \ {0} /\ TVN_SIZE \in Nat \ {0}
      BY <1>1, <1>2
    <2>3. Wheel!Width(3) \in Nat \ {0}
      BY <1>2, <2>1, <2>2
    <2>4. Wheel!Width(4) \in Nat \ {0}
      BY <1>2, <2>1, <2>2, <2>3
    <2>5. Wheel!Width(5) \in Nat \ {0}
      BY <1>2, <2>1, <2>2, <2>4
    <2>6. \A n \in 1..5 : n \in {1, 2, 3, 4, 5}
      OBVIOUS
    <2>. QED BY <1>2, <2>2, <2>3, <2>4, <2>5, <2>6
  <1>4. \A n \in 2..4 : Wheel!Width(n + 1) = Wheel!Width(n) * TVN_SIZE
    <2>1. \A n \in 2..4 : n \in {2, 3, 4}
      OBVIOUS
    <2>. QED BY <1>2, <2>1
  <1>5. Wheel!Word \in Nat \ {0} /\ Wheel!Word = Wheel!Width(5) * TVN_SIZE
    <2>1. Wheel!Word = Wheel!Width(5) * TVN_SIZE
      BY DEF Wheel!Word
    <2>2. Wheel!Width(5) \in Nat \ {0}
      BY <1>3
    <2>. QED BY <1>1, <2>1, <2>2
  <1>. QED BY <1>1, <1>2, <1>3, <1>4, <1>5

\* The vectors reach further and further, the fourth one less than half of the word.
LEMMA Reach ==
    ASSUME Wheel!Constants
    PROVE  /\ \A n \in 1..4 : Wheel!Width(n) < Wheel!Width(n + 1)
           /\ \A n \in 1..5 : Wheel!Width(n) < Wheel!Word \div 2
           /\ Wheel!Word \div 2 \in Nat /\ Wheel!Word \div 4 \in Nat
           /\ 2 * (Wheel!Word \div 2) <= Wheel!Word /\ 4 * (Wheel!Word \div 4) <= Wheel!Word
           /\ Wheel!Word < 2 * (Wheel!Word \div 2) + 2 /\ Wheel!Word > 7
  <1>1. \A w \in Nat \ {0} : w * TVN_SIZE \in Nat /\ w * TVN_SIZE >= 4 * w
    BY Widths
  <1>2. \A n \in 1..4 : Wheel!Width(n) < Wheel!Width(n + 1)
    <2>1. Wheel!Width(1) < Wheel!Width(1 + 1)
      BY Widths
    <2>2. ASSUME NEW n \in 2..4 PROVE Wheel!Width(n) < Wheel!Width(n + 1)
      <3>1. PICK w \in Nat \ {0} : w = Wheel!Width(n)
        BY Widths
      <3>2. Wheel!Width(n + 1) = w * TVN_SIZE
        BY <3>1, Widths
      <3>. QED BY <3>1, <3>2, <1>1
    <2>3. \A n \in 1..4 : n = 1 \/ n \in 2..4
      OBVIOUS
    <2>. QED BY <2>1, <2>2, <2>3
  <1>3. PICK w \in Nat \ {0} : w = Wheel!Width(5) /\ w > 4
    <2>1. /\ Wheel!Width(5) \in Nat /\ Wheel!Width(4) \in Nat /\ Wheel!Width(3) \in Nat
          /\ Wheel!Width(2) \in Nat /\ Wheel!Width(2) > 1
      BY Widths
    <2>2. Wheel!Width(2) < Wheel!Width(2 + 1) /\ Wheel!Width(3) < Wheel!Width(3 + 1)
          /\ Wheel!Width(4) < Wheel!Width(4 + 1)
      BY <1>2
    <2>. QED BY <2>1, <2>2
  <1>4. PICK m \in Nat \ {0} : m = Wheel!Word /\ m >= 4 * w
    BY <1>1, <1>3, Widths
  <1>5. w < m \div 2 /\ m \div 2 \in Nat /\ m \div 4 \in Nat /\ 2 * (m \div 2) <= m
        /\ 4 * (m \div 4) <= m /\ m < 2 * (m \div 2) + 2 /\ m > 7
    BY <1>3, <1>4
  <1>6. \A n \in 1..5 : Wheel!Width(n) <= w
    <2>1. \A n \in 1..5 : Wheel!Width(n) \in Nat
      BY Widths
    <2>2. /\ Wheel!Width(1) < Wheel!Width(1 + 1) /\ Wheel!Width(2) < Wheel!Width(2 + 1)
          /\ Wheel!Width(3) < Wheel!Width(3 + 1) /\ Wheel!Width(4) < Wheel!Width(4 + 1)
      BY <1>2
    <2>3. Wheel!Width(1) <= w /\ Wheel!Width(2) <= w /\ Wheel!Width(3) <= w /\ Wheel!Width(4) <= w
      BY <2>1, <2>2, <1>3
    <2>4. \A n \in 1..5 : n \in {1, 2, 3, 4, 5}
      OBVIOUS
    <2>. QED BY <2>3, <2>4, <1>3
  <1>7. \A n \in 1..5 : Wheel!Width(n) < m \div 2
    <2>1. \A n \in 1..5 : Wheel!Width(n) \in Nat
      BY Widths
    <2>. QED BY <2>1, <1>5, <1>6
  <1>. QED BY <1>2, <1>4, <1>5, <1>7

\* The values of an unsigned long
Words == 0..(Wheel!Word - 1)

\* The distance of two words, without the remainder
LEMMA AheadValue ==
    ASSUME Wheel!Constants, NEW e \in Words, NEW j \in Words
    PROVE  /\ Wheel!Ahead(e, j) \in Words
           /\ Wheel!Ahead(e, j) = IF e >= j THEN e - j ELSE e - j + Wheel!Word
  <1>1. PICK m \in Nat \ {0} : m = Wheel!Word
    BY Widths
  <1>2. e \in 0..(m - 1) /\ j \in 0..(m - 1)
    BY <1>1 DEF Words
  <1>3. e - j \in Int /\ -m <= e - j /\ e - j < m
    BY <1>2
  <1>4. (e - j) % m = IF e - j >= 0 THEN e - j ELSE e - j + m
    BY <1>3, ModSmall
  <1>. QED BY <1>1, <1>2, <1>4 DEF Wheel!Ahead, Words

\* One tick later
LEMMA Advance ==
    ASSUME Wheel!Constants, NEW a \in Words, NEW j \in Words
    PROVE  /\ (a + 1) % Wheel!Word \in Words
           /\ Wheel!Ahead((a + 1) % Wheel!Word, j) =
                IF Wheel!Ahead(a, j) = Wheel!Word - 1 THEN 0 ELSE Wheel!Ahead(a, j) + 1
           /\ Wheel!Ahead(j, (a + 1) % Wheel!Word) =
                IF Wheel!Ahead(j, a) = 0 THEN Wheel!Word - 1 ELSE Wheel!Ahead(j, a) - 1
  <1>1. PICK m \in Nat \ {0} : m = Wheel!Word /\ a \in 0..(m - 1) /\ j \in 0..(m - 1)
    BY Widths DEF Words
  <1>2. PICK b \in Int : b = (a + 1) % m
    BY <1>1
  <1>3. b = IF a + 1 = m THEN 0 ELSE a + 1
    <2>1. CASE a + 1 < m
      <3>1. a + 1 \in Int /\ -m <= a + 1 /\ a + 1 >= 0
        BY <1>1
      <3>2. (a + 1) % m = a + 1
        BY <2>1, <3>1, ModSmall
      <3>. QED BY <1>1, <1>2, <2>1, <3>2
    <2>2. CASE a + 1 = m
      <3>1. (m * 1) % m = 0
        BY Multiple
      <3>. QED BY <1>1, <1>2, <2>2, <3>1
    <2>. QED BY <1>1, <2>1, <2>2
  <1>4. b \in Words
    BY <1>1, <1>3 DEF Words
  <1>5. /\ Wheel!Ahead(a, j) = IF a >= j THEN a - j ELSE a - j + m
        /\ Wheel!Ahead(j, a) = IF j >= a THEN j - a ELSE j - a + m
        /\ Wheel!Ahead(b, j) = IF b >= j THEN b - j ELSE b - j + m
        /\ Wheel!Ahead(j, b) = IF j >= b THEN j - b ELSE j - b + m
    BY <1>1, <1>4, AheadValue
  <1>6. Wheel!Ahead(b, j) = IF Wheel!Ahead(a, j) = m - 1 THEN 0 ELSE Wheel!Ahead(a, j) + 1
    BY <1>1, <1>3, <1>5
  <1>7. Wheel!Ahead(j, b) = IF Wheel!Ahead(j, a) = 0 THEN m - 1 ELSE Wheel!Ahead(j, a) - 1
    BY <1>1, <1>3, <1>5
  <1>. QED BY <1>1, <1>2, <1>4, <1>6, <1>7

\* When j is a multiple of the width of vector n, the indexes of the vectors before it
\* are 0, so that __run_timers cascades vector n.
LEMMA ZeroBelow ==
    ASSUME Wheel!Constants, NEW n \in 2..5, NEW j \in Nat, j % Wheel!Width(n) = 0
    PROVE  \A k \in 1..(n - 1) : Wheel!Index(k, j) = 0
  <1>1. ASSUME NEW k \in 1..4, j % Wheel!Width(k + 1) = 0
        PROVE  Wheel!Index(k, j) = 0 /\ j % Wheel!Width(k) = 0
    <2>1. PICK w \in Nat \ {0}, s \in Nat \ {0} : w = Wheel!Width(k) /\ s = Wheel!Size(k)
      BY Widths DEF Wheel!Size
    <2>2. Wheel!Width(k + 1) = w * s
      <3>1. k = 1 \/ k \in 2..4
        OBVIOUS
      <3>. QED BY <2>1, <3>1, Widths DEF Wheel!Size
    <2>3. w * s \in Nat \ {0}
      OBVIOUS
    <2>4. PICK q \in Nat : j = (w * s) * q
      <3>1. PICK v \in Nat \ {0} : v = w * s
        BY <2>3
      <3>2. j % v = 0
        BY <1>1, <2>2, <3>1
      <3>3. j \div v \in Nat /\ j = v * (j \div v) + (j % v)
        BY DivMod
      <3>4. PICK q \in Nat : q = j \div v
        BY <3>3
      <3>5. j = v * q
        BY <3>2, <3>3, <3>4
      <3>. QED BY <3>1, <3>4, <3>5
    <2>5. (j \div w) % s = 0
      BY <2>4, Digit
    <2>6. j = w * (s * q) /\ s * q \in Nat
      BY <2>4
    <2>7. j % w = 0
      BY <2>6, Multiple
    <2>. QED BY <2>1, <2>5, <2>7 DEF Wheel!Index
  <1>2. CASE n = 2
    <2>1. Wheel!Index(1, j) = 0
      BY <1>1, <1>2
    <2>. QED BY <1>2, <2>1
  <1>3. CASE n = 3
    <2>1. Wheel!Index(2, j) = 0 /\ j % Wheel!Width(2) = 0
      BY <1>1, <1>3
    <2>2. Wheel!Index(1, j) = 0
      BY <1>1, <2>1
    <2>. QED BY <1>3, <2>1, <2>2
  <1>4. CASE n = 4
    <2>1. Wheel!Index(3, j) = 0 /\ j % Wheel!Width(3) = 0
      BY <1>1, <1>4
    <2>2. Wheel!Index(2, j) = 0 /\ j % Wheel!Width(2) = 0
      BY <1>1, <2>1
    <2>3. Wheel!Index(1, j) = 0
      BY <1>1, <2>2
    <2>. QED BY <1>4, <2>1, <2>2, <2>3
  <1>5. CASE n = 5
    <2>1. Wheel!Index(4, j) = 0 /\ j % Wheel!Width(4) = 0
      BY <1>1, <1>5
    <2>2. Wheel!Index(3, j) = 0 /\ j % Wheel!Width(3) = 0
      BY <1>1, <2>1
    <2>3. Wheel!Index(2, j) = 0 /\ j % Wheel!Width(2) = 0
      BY <1>1, <2>2
    <2>4. Wheel!Index(1, j) = 0
      BY <1>1, <2>3
    <2>. QED BY <1>5, <2>1, <2>2, <2>3, <2>4
  <1>. QED BY <1>2, <1>3, <1>4, <1>5

\* The tick at which the list of e in vector n is cascaded.
LEMMA Turn ==
    ASSUME Wheel!Constants, NEW n \in 2..5, NEW e \in Words, NEW j \in Words,
           Wheel!Ahead(e, j) = e % Wheel!Width(n)
    PROVE  j % Wheel!Width(n) = 0 /\ Wheel!Index(n, j) = Wheel!Index(n, e)
  <1>1. PICK w \in Nat \ {0} : w = Wheel!Width(n)
    BY Widths
  <1>2. PICK m \in Nat : m = Wheel!Word /\ e \in 0..(m - 1) /\ j \in 0..(m - 1)
    BY Widths DEF Words
  <1>3. PICK q \in Nat, r \in Nat : q = e \div w /\ r = e % w /\ e = w * q + r
    BY <1>2, DivMod
  <1>4. PICK p \in Nat : p = w * q
    OBVIOUS
  <1>5. (IF e >= j THEN e - j ELSE e - j + m) = r
    BY <1>1, <1>2, <1>3, AheadValue
  <1>6. j = p
    BY <1>2, <1>3, <1>4, <1>5
  <1>7. j % w = 0 /\ j \div w = q
    BY <1>4, <1>6, Multiple
  <1>. QED BY <1>1, <1>3, <1>7 DEF Wheel!Index

\* A list of the first vector holds the timers of one tick.
LEMMA FirstVector ==
    ASSUME Wheel!Constants, NEW e \in Words, NEW j \in Words,
           Wheel!Ahead(e, j) < TVR_SIZE
    PROVE  Wheel!Index(1, e) = Wheel!Index(1, j) <=> Wheel!Ahead(e, j) = 0
  <1>1. PICK s \in Nat \ {0} : s = TVR_SIZE
    BY Widths
  <1>2. Wheel!Index(1, e) = e % s /\ Wheel!Index(1, j) = j % s
    <2>1. e \div 1 = e /\ j \div 1 = j
      BY Widths DEF Words
    <2>. QED BY <1>1, <2>1, Widths DEF Wheel!Index, Wheel!Size
  <1>3. PICK M \in Nat : Wheel!Word = s * M
    <2>1. PICK n \in Nat : n = TVN_SIZE
      BY Widths
    <2>2. /\ Wheel!Width(2 + 1) = s * n /\ Wheel!Width(3 + 1) = Wheel!Width(3) * n
          /\ Wheel!Width(4 + 1) = Wheel!Width(4) * n /\ Wheel!Word = Wheel!Width(5) * n
      BY <1>1, <2>1, Widths
    <2>3. Wheel!Word = (((s * n) * n) * n) * n
      BY <2>2
    <2>4. (((s * n) * n) * n) * n = s * (n * n * n * n) /\ n * n * n * n \in Nat
      OBVIOUS
    <2>. QED BY <2>3, <2>4
  <1>4. e \in Nat /\ j \in Nat
    BY Widths DEF Words
  <1>5. PICK a \in Nat, b \in Nat : a = e % s /\ e = s * b + a
    BY <1>4, DivMod
  <1>6. PICK c \in Nat, d \in Nat : c = j % s /\ j = s * d + c
    BY <1>4, DivMod
  <1>7. ASSUME a = c PROVE Wheel!Ahead(e, j) = 0
    <2>1. e - j = s * (b - d)
      <3>1. s * (b - d) = s * b - s * d
        OBVIOUS
      <3>2. PICK x \in Nat, y \in Nat : x = s * b /\ y = s * d
        OBVIOUS
      <3>3. e = x + a /\ j = y + a
        BY <3>2, <1>5, <1>6, <1>7
      <3>4. s * (b - d) = x - y
        BY <3>1, <3>2
      <3>5. e - j = x - y
        BY <3>3
      <3>. QED BY <3>4, <3>5
    <2>2. e - j + Wheel!Word = s * (b - d + M)
      <3>1. s * ((b - d) + M) = s * (b - d) + s * M
        OBVIOUS
      <3>. QED BY <1>3, <2>1, <3>1
    <2>3. b - d \in Int /\ b - d + M \in Int
      OBVIOUS
    <2>5. PICK k \in Int : Wheel!Ahead(e, j) = s * k
      <3>1. CASE e >= j
        BY <3>1, <2>1, <2>3, AheadValue
      <3>2. CASE ~(e >= j)
        BY <3>2, <2>2, <2>3, AheadValue
      <3>. QED BY <3>1, <3>2
    <2>4. s * k >= 0 /\ s * k < s
      BY <1>1, <2>5, AheadValue, Widths DEF Words
    <2>. QED BY <2>4, <2>5
  <1>8. ASSUME Wheel!Ahead(e, j) = 0 PROVE e = j
    <2>1. PICK m \in Nat : m = Wheel!Word /\ e \in 0..(m - 1) /\ j \in 0..(m - 1)
      BY Widths DEF Words
    <2>2. (IF e >= j THEN e - j ELSE e - j + m) = 0
      BY <1>8, <2>1, AheadValue
    <2>. QED BY <2>1, <2>2
  <1>. QED BY <1>2, <1>5, <1>6, <1>7, <1>8

\* A list that still has its turn after tick j is processed, or is the list of j.
Later(p, e, j) ==
    \/ p = <<1, Wheel!Index(1, j)>> /\ Wheel!Ahead(e, j) >= Wheel!Word - Wheel!Word \div 4
    \/ p = <<1, Wheel!Index(1, e)>> /\ Wheel!Ahead(e, j) < TVR_SIZE
    \/ \E n \in 2..5 : /\ p = <<n, Wheel!Index(n, e)>>
                       /\ e % Wheel!Width(n) < Wheel!Ahead(e, j)
                       /\ Wheel!Ahead(e, j) < Wheel!Word \div 2

\* INDEX(n) names a list of the vector.
LEMMA IndexRange ==
    ASSUME Wheel!Constants, NEW n \in 1..5, NEW j \in Nat
    PROVE  <<n, Wheel!Index(n, j)>> \in Wheel!Slots
  <1>1. PICK w \in Nat \ {0}, s \in Nat \ {0} : w = Wheel!Width(n) /\ s = Wheel!Size(n)
    BY Widths DEF Wheel!Size
  <1>2. j \div w \in Nat
    BY DivMod
  <1>3. Wheel!Index(n, j) \in 0..(s - 1)
    BY <1>1, <1>2, DivMod DEF Wheel!Index
  <1>4. CASE n = 1
    BY <1>1, <1>3, <1>4 DEF Wheel!Slots, Wheel!Size
  <1>5. CASE n \in 2..5
    BY <1>1, <1>3, <1>5 DEF Wheel!Slots, Wheel!Size
  <1>. QED BY <1>4, <1>5

\* internal_add_timer puts a timer where it is found in time.
LEMMA AddTimer ==
    ASSUME Wheel!Constants, NEW e \in Words, NEW j \in Words,
           \/ Wheel!Ahead(e, j) < Wheel!Word \div 2
           \/ Wheel!Ahead(e, j) >= Wheel!Word - Wheel!Word \div 4
    PROVE  /\ Wheel!InternalAddTimer(e, j) \in Wheel!Slots
           /\ Later(Wheel!InternalAddTimer(e, j), e, j)
  <1>1. PICK m \in Nat, h \in Nat : /\ m = Wheel!Word /\ h = m \div 2 /\ 2 * h <= m
                                    /\ e \in Nat /\ j \in Nat
    BY Reach, Widths DEF Words
  <1>2. PICK d \in Nat : d = Wheel!Ahead(e, j) /\ d < m
    BY <1>1, AheadValue DEF Words
  <1>3. PICK F : F = {n \in 1..4 : d < Wheel!Width(n + 1)}
    OBVIOUS
  <1>4. Wheel!InternalAddTimer(e, j) =
          IF F # {} THEN LET n == CHOOSE n \in F : \A k \in F : n <= k
                         IN  <<n, Wheel!Index(n, e)>>
          ELSE IF d >= h THEN <<1, Wheel!Index(1, j)>>
          ELSE <<5, Wheel!Index(5, e)>>
    BY <1>1, <1>2, <1>3 DEF Wheel!InternalAddTimer, Wheel!Ahead
  <1>5. CASE F # {}
    <2>1. PICK n \in F : \A k \in F : n <= k
      <3>1. F \subseteq {1, 2, 3, 4} /\ F # {}
        BY <1>3, <1>5
      <3>2. CASE 1 \in F
        BY <3>1, <3>2
      <3>3. CASE 1 \notin F /\ 2 \in F
        BY <3>1, <3>3
      <3>4. CASE 1 \notin F /\ 2 \notin F /\ 3 \in F
        BY <3>1, <3>4
      <3>5. CASE 1 \notin F /\ 2 \notin F /\ 3 \notin F
        <4>1. F = {4}
          BY <3>1, <3>5
        <4>. QED BY <4>1
      <3>. QED BY <3>2, <3>3, <3>4, <3>5
    <2>2. PICK x : x = CHOOSE n1 \in F : \A k \in F : n1 <= k
      OBVIOUS
    <2>3. x \in F /\ \A k \in F : x <= k
      BY <2>1, <2>2
    <2>4. Wheel!InternalAddTimer(e, j) = <<x, Wheel!Index(x, e)>>
      BY <1>4, <1>5, <2>2
    <2>5. x \in 1..4 /\ d < Wheel!Width(x + 1)
      BY <1>3, <2>3
    <2>6. <<x, Wheel!Index(x, e)>> \in Wheel!Slots
      BY <1>1, <2>5, IndexRange
    <2>7. CASE x = 1
      BY <1>2, <2>4, <2>5, <2>6, <2>7, Widths DEF Later
    <2>8. CASE x \in 2..4
      <3>1. x - 1 \notin F /\ x - 1 \in 1..4 /\ (x - 1) + 1 = x
        BY <2>3, <2>8
      <3>2. ~(d < Wheel!Width(x))
        BY <1>3, <3>1
      <3>3. PICK w \in Nat \ {0}, v \in Nat : /\ w = Wheel!Width(x) /\ v = Wheel!Width(x + 1)
                                              /\ v < h
        <4>1. x \in 1..5 /\ x + 1 \in 1..5
          BY <2>8
        <4>. QED BY <4>1, <1>1, Widths, Reach
      <3>4. e % w \in Nat /\ e % w < w
        BY <1>1, DivMod
      <3>5. e % Wheel!Width(x) < d /\ d < Wheel!Word \div 2 /\ x \in 2..5
        BY <1>1, <2>5, <2>8, <3>2, <3>3, <3>4
      <3>. QED BY <1>2, <2>4, <2>6, <3>5 DEF Later
    <2>. QED BY <2>5, <2>7, <2>8
  <1>6. CASE F = {} /\ d >= h
    <2>1. d >= Wheel!Word - Wheel!Word \div 4
      BY <1>1, <1>2, <1>6
    <2>2. Wheel!InternalAddTimer(e, j) = <<1, Wheel!Index(1, j)>>
      BY <1>4, <1>6
    <2>. QED BY <1>1, <1>2, <2>1, <2>2, IndexRange DEF Later
  <1>7. CASE F = {} /\ d < h
    <2>1. Wheel!InternalAddTimer(e, j) = <<5, Wheel!Index(5, e)>>
      BY <1>1, <1>2, <1>4, <1>7
    <2>2. ~(d < Wheel!Width(4 + 1))
      BY <1>3, <1>7
    <2>3. PICK w \in Nat \ {0} : w = Wheel!Width(5)
      BY Widths
    <2>4. e % w \in Nat /\ e % w < w
      BY <1>1, DivMod
    <2>5. e % Wheel!Width(5) < d /\ d < Wheel!Word \div 2
      BY <1>1, <1>7, <2>2, <2>3, <2>4
    <2>. QED BY <1>1, <1>2, <2>1, <2>5, IndexRange DEF Later
  <1>. QED BY <1>1, <1>2, <1>5, <1>6, <1>7

\* What the cascades of a tick do to the list p of a timer: nothing, if it is still to
\* have its turn; otherwise the timer is added anew.
LEMMA CascadePlace ==
    ASSUME Wheel!Constants, Wheel!TypeOK, NEW t \in Timer, where[t] \in Wheel!Slots,
           Wheel!InTime(where[t], expires[t], timer_jiffies)
    PROVE  /\ Wheel!CascadeAll[t] \in Wheel!Slots
           /\ Later(Wheel!CascadeAll[t], expires[t], timer_jiffies)
  <1>1. PICK e \in Words, j \in Words : e = expires[t] /\ j = timer_jiffies
    BY DEF Wheel!TypeOK, Words
  <1>2. PICK a : a = Wheel!InternalAddTimer(e, j)
    OBVIOUS
  <1>4. \/ Wheel!Ahead(e, j) < Wheel!Word \div 2
        \/ Wheel!Ahead(e, j) >= Wheel!Word - Wheel!Word \div 4
    <2>1. Wheel!Ahead(e, j) \in Nat /\ TVR_SIZE \in Nat /\ Wheel!Word \div 2 \in Nat /\ TVR_SIZE < Wheel!Word \div 2
      BY AheadValue, Reach, Widths DEF Words
    <2>2. CASE Wheel!Ahead(e, j) < TVR_SIZE
      BY <2>1, <2>2
    <2>. QED BY <1>1, <2>2 DEF Wheel!InTime
  <1>5. a \in Wheel!Slots /\ Later(a, e, j)
    BY <1>2, <1>4, AddTimer
  \* The lists of the timer after each of the cascades
  <1>6. PICK w2, w3, w4, w5 :
          LET zero(n) == Wheel!Index(n, timer_jiffies) = 0 IN
          /\ w2 = (IF zero(1) THEN Wheel!Cascade(2, where) ELSE where)
          /\ w3 = (IF zero(1) /\ zero(2) THEN Wheel!Cascade(3, w2) ELSE w2)
          /\ w4 = (IF zero(1) /\ zero(2) /\ zero(3) THEN Wheel!Cascade(4, w3) ELSE w3)
          /\ w5 = (IF zero(1) /\ zero(2) /\ zero(3) /\ zero(4) THEN Wheel!Cascade(5, w4) ELSE w4)
    OBVIOUS
  <1>7. Wheel!CascadeAll = w5
    BY <1>6 DEF Wheel!CascadeAll
  <1>8. \A n \in 2..5 : \A w : Wheel!Cascade(n, w)[t] =
                                 IF w[t] = <<n, Wheel!Index(n, j)>> THEN a ELSE w[t]
    BY <1>1, <1>2 DEF Wheel!Cascade
  <1>9. /\ w2[t] \in {where[t], a} /\ w3[t] \in {w2[t], a} /\ w4[t] \in {w3[t], a} /\ w5[t] \in {w4[t], a}
    BY <1>6, <1>8
  <1>10. ASSUME NEW n \in 2..5, where[t] = <<n, Wheel!Index(n, e)>>, Wheel!Ahead(e, j) = e % Wheel!Width(n)
         PROVE  w5[t] = a
    <2>1. where[t] = <<n, Wheel!Index(n, j)>> /\ j % Wheel!Width(n) = 0
      BY <1>10, Turn
    <2>2. \A k \in 1..(n - 1) : Wheel!Index(k, j) = 0
      <3>1. j \in Nat
        BY Widths DEF Words
      <3>. QED BY <2>1, <3>1, ZeroBelow
    <2>3. CASE n = 2
      <3>1. Wheel!Index(1, j) = 0
        BY <2>2, <2>3
      <3>. QED BY <1>1, <1>6, <1>8, <1>9, <2>1, <2>3, <3>1
    <2>4. CASE n = 3
      <3>1. Wheel!Index(1, j) = 0 /\ Wheel!Index(2, j) = 0
        BY <2>2, <2>4
      <3>. QED BY <1>1, <1>6, <1>8, <1>9, <2>1, <2>4, <3>1
    <2>5. CASE n = 4
      <3>1. Wheel!Index(1, j) = 0 /\ Wheel!Index(2, j) = 0 /\ Wheel!Index(3, j) = 0
        BY <2>2, <2>5
      <3>. QED BY <1>1, <1>6, <1>8, <1>9, <2>1, <2>5, <3>1
    <2>6. CASE n = 5
      <3>1. /\ Wheel!Index(1, j) = 0 /\ Wheel!Index(2, j) = 0 /\ Wheel!Index(3, j) = 0
            /\ Wheel!Index(4, j) = 0
        BY <2>2, <2>6
      <3>. QED BY <1>1, <1>6, <1>8, <1>9, <2>1, <2>6, <3>1
    <2>. QED BY <2>3, <2>4, <2>5, <2>6
  <1>11. CASE w5[t] = a
    BY <1>1, <1>5, <1>7, <1>11
  <1>12. CASE w5[t] # a
    <2>1. w5[t] = where[t]
      BY <1>9, <1>12
    <2>2. Later(where[t], e, j)
      <3>1. ASSUME NEW n \in 2..5, where[t] = <<n, Wheel!Index(n, e)>>,
                   e % Wheel!Width(n) <= Wheel!Ahead(e, j)
            PROVE  e % Wheel!Width(n) < Wheel!Ahead(e, j)
        <4>1. e % Wheel!Width(n) # Wheel!Ahead(e, j)
          BY <1>10, <1>12, <3>1
        <4>2. e % Wheel!Width(n) \in Nat /\ Wheel!Ahead(e, j) \in Nat
          <5>1. Wheel!Width(n) \in Nat \ {0} /\ e \in Nat /\ Words \subseteq Nat
            BY Widths DEF Words
          <5>. QED BY <5>1, AheadValue, DivMod
        <4>. QED BY <3>1, <4>1, <4>2
      <3>. QED BY <1>1, <3>1 DEF Wheel!InTime, Later
    <2>. QED BY <1>1, <1>7, <2>1, <2>2
  <1>. QED BY <1>11, <1>12

\* The tick has passed: every list that is left still has its turn.
LEMMA NextTick ==
    ASSUME Wheel!Constants, NEW e \in Words, NEW j \in Words, NEW p, NEW k,
           Later(p, e, j), p # <<1, Wheel!Index(1, j)>>, k = (j + 1) % Wheel!Word
    PROVE  Wheel!InTime(p, e, k)
  <1>1. PICK d \in Nat, c \in Int : d = Wheel!Ahead(e, j) /\ c = Wheel!Ahead(e, k)
    BY AheadValue, Advance, Widths DEF Words
  <1>2. d > 0 => c = d - 1
    BY <1>1, Advance
  <1>6. CASE p = <<1, Wheel!Index(1, e)>> /\ d < TVR_SIZE
    <2>1. d # 0
      BY <1>1, <1>6, FirstVector
    <2>2. c < TVR_SIZE
      BY <1>2, <1>6, <2>1, Widths
    <2>. QED BY <1>1, <1>6, <2>2 DEF Wheel!InTime
  <1>7. ASSUME NEW n \in 2..5, p = <<n, Wheel!Index(n, e)>>, e % Wheel!Width(n) < d,
               d < Wheel!Word \div 2
        PROVE  Wheel!InTime(p, e, k)
    <2>1. e % Wheel!Width(n) \in Nat
      BY Widths, DivMod DEF Words
    <2>2. Wheel!Word \div 2 \in Nat
      BY Reach
    <2>3. e % Wheel!Width(n) <= c /\ c < Wheel!Word \div 2
      BY <1>2, <1>7, <2>1, <2>2
    <2>. QED BY <1>1, <1>7, <2>3 DEF Wheel!InTime
  <1>. QED BY <1>1, <1>6, <1>7 DEF Later

\* The list of tick j holds the timers that expire with j and those set into the past.
LEMMA DueNow ==
    ASSUME Wheel!Constants, NEW e \in Words, NEW j \in Words, NEW p, Later(p, e, j)
    PROVE  p = <<1, Wheel!Index(1, j)>> <=> ~Wheel!Before(j, e)
  <1>1. PICK m \in Nat \ {0} : /\ m = Wheel!Word /\ e \in 0..(m - 1) /\ j \in 0..(m - 1)
    BY Widths DEF Words
  <1>2. PICK h \in Nat, q \in Nat : /\ h = Wheel!Word \div 2 /\ q = Wheel!Word \div 4
                                    /\ 2 * h <= m /\ 4 * q <= m /\ m < 2 * h + 2 /\ m > 7
    BY <1>1, Reach
  <1>3. PICK d \in Nat : d = Wheel!Ahead(e, j) /\ d = IF e >= j THEN e - j ELSE e - j + m
    BY <1>1, AheadValue
  <1>4. Wheel!Before(j, e) <=> (IF j >= e THEN j - e ELSE j - e + m) >= h
    BY <1>1, <1>2, AheadValue DEF Wheel!Before, Wheel!Ahead
  <1>5. Wheel!Before(j, e) <=> d # 0 /\ m - d >= h
    BY <1>1, <1>2, <1>3, <1>4
  <1>6. CASE p = <<1, Wheel!Index(1, j)>> /\ d >= m - q
    BY <1>2, <1>5, <1>6
  <1>7. CASE p = <<1, Wheel!Index(1, e)>> /\ d < TVR_SIZE
    <2>1. TVR_SIZE \in Nat /\ TVR_SIZE < h
      BY <1>2, Reach, Widths
    <2>2. Wheel!Before(j, e) <=> d # 0
      BY <1>2, <1>5, <1>7, <2>1
    <2>3. p = <<1, Wheel!Index(1, j)>> <=> d = 0
      BY <1>3, <1>7, FirstVector
    <2>. QED BY <2>2, <2>3
  <1>8. ASSUME NEW n \in 2..5, p = <<n, Wheel!Index(n, e)>>, e % Wheel!Width(n) < d, d < h
        PROVE  p # <<1, Wheel!Index(1, j)>> /\ Wheel!Before(j, e)
    <2>1. e % Wheel!Width(n) \in Nat
      BY <1>1, Widths, DivMod
    <2>2. Wheel!Before(j, e)
      BY <1>2, <1>5, <1>8, <2>1
    <2>3. p[1] # 1 /\ <<1, Wheel!Index(1, j)>>[1] = 1
      BY <1>8
    <2>. QED BY <2>2, <2>3
  <1>. QED BY <1>1, <1>2, <1>3, <1>6, <1>7, <1>8 DEF Later

-------------------------------------------------------------------------------
(* The steps of the wheel *)

\* NULL, the list of the tick in progress and the lists of the vectors are different.
LEMMA Places ==
    ASSUME Wheel!Constants
    PROVE  /\ Null \notin Wheel!Slots /\ Null # Wheel!Work /\ Wheel!Work \notin Wheel!Slots
           /\ Null \notin Words
  <1>1. Null \notin Wheel!Slots /\ Null # Wheel!Work /\ Null \notin Words
    BY DEF Wheel!Constants, Words
  <1>2. ASSUME Wheel!Work \in Wheel!Slots PROVE FALSE
    <2>1. PICK n \in 1..5, i \in Nat : Wheel!Work = <<n, i>>
      <3>1. \A p \in Wheel!Slots : \E n \in 1..5, i \in Nat : p = <<n, i>>
        BY Widths DEF Wheel!Slots
      <3>. QED BY <1>2, <3>1
    <2>2. Len(Wheel!Work) = 1 /\ Len(<<n, i>>) = 2
      BY DEF Wheel!Work
    <2>. QED BY <2>1, <2>2
  <1>. QED BY <1>1, <1>2

\* init_timers_cpu: empty vectors are an empty queue.
LEMMA WheelInit ==
    ASSUME Wheel!Constants, Wheel!Init
    PROVE  Wheel!IInv /\ Wheel!Queue!Init
  <1>1. 0 \in Words /\ jiffies \in Words
    BY Widths DEF Wheel!Init, Wheel!Constants, Words
  <1>2. Wheel!TypeOK
    BY <1>1 DEF Wheel!Init, Wheel!TypeOK, Words
  <1>3. Wheel!Ahead(jiffies, timer_jiffies) = 0
    <2>1. jiffies - jiffies = 0 /\ timer_jiffies = jiffies
      BY <1>1, Widths DEF Words, Wheel!Init
    <2>. QED BY <2>1, <1>1, AheadValue, Widths DEF Words
  <1>4. Wheel!LagInv
    BY <1>3 DEF Wheel!LagInv, Wheel!Constants
  <1>5. Wheel!IInv
    BY <1>2, <1>4, Places DEF Wheel!IInv, Wheel!Init
  <1>6. Wheel!Queue!Init
    BY <1>1, Places DEF Wheel!Init, Wheel!Queue!Init, Wheel!Pending, Words
  <1>. QED BY <1>5, <1>6

\* The timer interrupt advances jiffies only, within MaxLag of the wheel.
LEMMA DoTimerStep ==
    ASSUME Wheel!Constants, Wheel!IInv, Wheel!DoTimer
    PROVE  Wheel!IInv' /\ Wheel!Queue!Tick
  <1>1. /\ Wheel!TypeOK /\ jiffies \in Words /\ timer_jiffies \in Words
    BY DEF Wheel!IInv, Wheel!TypeOK, Words
  <1>2. /\ jiffies' = (jiffies + 1) % Wheel!Word
        /\ UNCHANGED <<timer_jiffies, expires, where, run_pc>>
    BY DEF Wheel!DoTimer
  <1>3. jiffies' \in Words
    BY <1>1, <1>2, Advance
  <1>4. Wheel!TypeOK'
    BY <1>1, <1>2, <1>3 DEF Wheel!TypeOK, Words
  <1>5. Wheel!LagInv'
    <2>1. PICK d : d = Wheel!Ahead(jiffies, timer_jiffies)
      OBVIOUS
    <2>2. /\ MaxLag \in Nat /\ d # MaxLag /\ d \in (0..MaxLag) \cup {Wheel!Word - 1}
          /\ Wheel!Word \in Nat
      BY <2>1, Widths DEF Wheel!DoTimer, Wheel!Ahead, Wheel!IInv, Wheel!LagInv, Wheel!Constants
    <2>3. Wheel!Ahead(jiffies', timer_jiffies') = IF d = Wheel!Word - 1 THEN 0 ELSE d + 1
      BY <1>1, <1>2, <2>1, Advance
    <2>4. Wheel!Ahead(jiffies', timer_jiffies') \in 0..MaxLag
      BY <2>2, <2>3
    <2>. QED BY <2>4 DEF Wheel!LagInv
  <1>7. ASSUME NEW t \in Timer, where'[t] \in Wheel!Slots
        PROVE  Wheel!InTime(where'[t], expires'[t], timer_jiffies')
    BY <1>2, <1>7 DEF Wheel!IInv
  <1>8. Wheel!IInv'
    BY <1>4, <1>5, <1>7 DEF Wheel!IInv
  <1>9. Wheel!Queue!Tick
    BY <1>2 DEF Wheel!Queue!Tick, Wheel!Pending
  <1>. QED BY <1>8, <1>9

\* The steps of __run_timers that move no timer.
LEMMA NoMoveStep ==
    ASSUME Wheel!Constants, Wheel!IInv, UNCHANGED <<jiffies, timer_jiffies, expires, where>>,
           run_pc' \in {"out", "in", "fn"}
    PROVE  Wheel!IInv' /\ UNCHANGED Wheel!Queue!vars
  <1>1. Wheel!TypeOK' /\ Wheel!LagInv'
    BY DEF Wheel!IInv, Wheel!TypeOK, Wheel!LagInv
  <1>2. Wheel!IInv'
    BY <1>1 DEF Wheel!IInv
  <1>3. UNCHANGED Wheel!Queue!vars
    BY DEF Wheel!Queue!vars, Wheel!Pending
  <1>. QED BY <1>2, <1>3

\* A tick of the wheel is a tick of the queue: the cascades find every timer in time.
LEMMA ProcessTickStep ==
    ASSUME Wheel!Constants, Wheel!IInv, Wheel!ProcessTick
    PROVE  Wheel!IInv' /\ Wheel!Queue!Process
  <1>1. /\ Wheel!TypeOK /\ jiffies \in Words /\ timer_jiffies \in Words
        /\ expires \in [Timer -> Words]
    BY DEF Wheel!IInv, Wheel!TypeOK, Words
  <1>2. /\ timer_jiffies' = (timer_jiffies + 1) % Wheel!Word
        /\ UNCHANGED <<jiffies, expires, run_pc>>
        /\ ~Wheel!Before(jiffies, timer_jiffies)
        /\ \A t \in Timer : where[t] # Wheel!Work
    BY DEF Wheel!ProcessTick
  <1>3. PICK j \in Words, s \in {<<1, Wheel!Index(1, timer_jiffies)>>} :
          j = timer_jiffies /\ s = <<1, Wheel!Index(1, j)>>
    BY <1>1
  <1>4. \A t \in Timer : where'[t] = IF Wheel!CascadeAll[t] = s THEN Wheel!Work ELSE Wheel!CascadeAll[t]
    BY <1>3 DEF Wheel!ProcessTick
  <1>5. ASSUME NEW t \in Timer, where[t] \in Wheel!Slots
        PROVE  /\ Wheel!CascadeAll[t] \in Wheel!Slots
               /\ Later(Wheel!CascadeAll[t], expires[t], j)
    BY <1>1, <1>3, <1>5, CascadePlace DEF Wheel!IInv
  <1>6. ASSUME NEW t \in Timer, where[t] = Null
        PROVE  Wheel!CascadeAll[t] = Null
    <2>1. \A n : Null # <<n, Wheel!Index(n, timer_jiffies)>> \/ n \notin 1..5
      <3>1. timer_jiffies \in Nat
        BY <1>1, Widths DEF Words
      <3>. QED BY <3>1, IndexRange, Places
    <2>2. \A n \in 2..5 : \A w : w[t] = Null => Wheel!Cascade(n, w)[t] = Null
      BY <2>1 DEF Wheel!Cascade
    <2>. QED BY <1>6, <2>2 DEF Wheel!CascadeAll
  <1>7. \A t \in Timer : where[t] \in Wheel!Slots \/ where[t] = Null
    BY <1>1, <1>2 DEF Wheel!TypeOK
  <1>8. s \in Wheel!Slots /\ s # Null
    <2>1. j \in Nat
      BY Widths DEF Words
    <2>. QED BY <1>3, <2>1, IndexRange, Places
  <1>9. timer_jiffies' \in Words
    BY <1>1, <1>2, Advance
  <1>10. Wheel!TypeOK'
    <2>1. where' \in [Timer -> Wheel!Slots \cup {Wheel!Work, Null}]
      <3>1. \A t \in Timer : where'[t] \in Wheel!Slots \cup {Wheel!Work, Null}
        BY <1>4, <1>5, <1>6, <1>7
      <3>2. where' = [t \in Timer |-> where'[t]]
        BY DEF Wheel!ProcessTick
      <3>. QED BY <3>1, <3>2
    <2>. QED BY <1>1, <1>2, <1>9, <2>1 DEF Wheel!TypeOK, Words
  <1>11. Wheel!LagInv'
    <2>1. PICK d : d = Wheel!Ahead(jiffies, timer_jiffies)
      OBVIOUS
    <2>2. /\ MaxLag \in Nat /\ d \in (0..MaxLag) \cup {Wheel!Word - 1} /\ Wheel!Word \in Nat
          /\ ~(d >= Wheel!Word \div 2)
      BY <1>2, <2>1, Widths DEF Wheel!Before, Wheel!Ahead, Wheel!IInv, Wheel!LagInv, Wheel!Constants
    <2>3. Wheel!Ahead(jiffies', timer_jiffies') = IF d = 0 THEN Wheel!Word - 1 ELSE d - 1
      BY <1>1, <1>2, <2>1, Advance
    <2>4. d # Wheel!Word - 1
      BY <2>2, Reach
    <2>5. Wheel!Ahead(jiffies', timer_jiffies') \in (0..MaxLag) \cup {Wheel!Word - 1}
      BY <2>2, <2>3, <2>4
    <2>. QED BY <2>5 DEF Wheel!LagInv
  <1>12. ASSUME NEW t \in Timer, where'[t] \in Wheel!Slots
         PROVE  Wheel!InTime(where'[t], expires'[t], timer_jiffies')
    <2>1. where'[t] = Wheel!CascadeAll[t] /\ Wheel!CascadeAll[t] # s /\ where[t] \in Wheel!Slots
      BY <1>4, <1>6, <1>7, <1>12, Places
    <2>2. Later(Wheel!CascadeAll[t], expires[t], j)
      BY <1>5, <2>1
    <2>3. Wheel!InTime(Wheel!CascadeAll[t], expires[t], timer_jiffies')
      BY <1>1, <1>2, <1>3, <2>1, <2>2, NextTick
    <2>. QED BY <1>2, <2>1, <2>3
  <1>13. Wheel!IInv'
    BY <1>10, <1>11, <1>12 DEF Wheel!IInv
  <1>14. ASSUME NEW t \in Timer
         PROVE  /\ where'[t] = Null <=> where[t] = Null
                /\ where'[t] = Wheel!Work <=> where[t] # Null /\ ~Wheel!Before(timer_jiffies, expires[t])
    <2>1. CASE where[t] = Null
      BY <1>4, <1>6, <1>8, <2>1, Places
    <2>2. CASE where[t] \in Wheel!Slots
      <3>1. Wheel!CascadeAll[t] = s <=> ~Wheel!Before(timer_jiffies, expires[t])
        BY <1>1, <1>3, <1>5, <2>2, DueNow
      <3>. QED BY <1>4, <1>5, <2>2, <3>1, Places
    <2>. QED BY <1>7, <2>1, <2>2
  <1>15. Wheel!Queue!Process
    <2>1. {t \in Timer : where[t] = Wheel!Work} = {} /\ ~Wheel!Queue!Before(jiffies, timer_jiffies)
      BY <1>2 DEF Wheel!Queue!Before, Wheel!Before
    <2>2. UNCHANGED [t \in Timer |-> IF Wheel!Pending(t) THEN expires[t] ELSE Null]
      BY <1>2, <1>14 DEF Wheel!Pending
    <2>3. {t \in Timer : where'[t] = Wheel!Work}
            = {t \in Timer : /\ [u \in Timer |-> IF Wheel!Pending(u) THEN expires[u] ELSE Null][t] # Null
                             /\ ~Wheel!Queue!Before(timer_jiffies,
                                    [u \in Timer |-> IF Wheel!Pending(u) THEN expires[u] ELSE Null][t])}
      <3>1. ASSUME NEW t \in Timer
            PROVE  where'[t] = Wheel!Work <=>
                     /\ (IF Wheel!Pending(t) THEN expires[t] ELSE Null) # Null
                     /\ ~Wheel!Queue!Before(timer_jiffies, IF Wheel!Pending(t) THEN expires[t] ELSE Null)
        <4>1. expires[t] # Null
          BY <1>1, Places
        <4>. QED BY <1>14, <4>1 DEF Wheel!Pending, Wheel!Before, Wheel!Queue!Before
      <3>. QED BY <3>1
    <2>. QED BY <1>2, <2>1, <2>2, <2>3 DEF Wheel!Queue!Process
  <1>. QED BY <1>13, <1>15

\* detach_timer: the timer leaves its list, and the queue.
LEMMA Removed ==
    ASSUME Wheel!Constants, Wheel!IInv, NEW t \in Timer,
           where' = [where EXCEPT ![t] = Null], expires' = [expires EXCEPT ![t] = 0],
           UNCHANGED <<jiffies, timer_jiffies>>, run_pc' \in {"out", "in", "fn"}
    PROVE  Wheel!IInv' /\ Wheel!Queue!Set(t, Null)
  <1>1. /\ Wheel!TypeOK /\ expires \in [Timer -> Words]
        /\ where \in [Timer -> Wheel!Slots \cup {Wheel!Work, Null}]
    BY DEF Wheel!IInv, Wheel!TypeOK, Words
  <1>2. 0 \in Words
    BY Widths DEF Words
  <1>3. Wheel!TypeOK' /\ Wheel!LagInv'
    BY <1>1, <1>2 DEF Wheel!TypeOK, Words, Wheel!IInv, Wheel!LagInv
  <1>4. ASSUME NEW u \in Timer, where'[u] \in Wheel!Slots
        PROVE  Wheel!InTime(where'[u], expires'[u], timer_jiffies')
    <2>1. u # t
      BY <1>1, <1>4, Places
    <2>. QED BY <1>1, <1>4, <2>1 DEF Wheel!IInv
  <1>5. Wheel!IInv'
    BY <1>3, <1>4 DEF Wheel!IInv
  <1>6. Wheel!Queue!Set(t, Null)
    <2>1. [u \in Timer |-> IF Wheel!Pending(u) THEN expires[u] ELSE Null]'
            = [[u \in Timer |-> IF Wheel!Pending(u) THEN expires[u] ELSE Null] EXCEPT ![t] = Null]
      BY <1>1 DEF Wheel!Pending
    <2>2. {u \in Timer : where'[u] = Wheel!Work} = {u \in Timer : where[u] = Wheel!Work} \ {t}
      BY <1>1, Places
    <2>. QED BY <2>1, <2>2 DEF Wheel!Queue!Set
  <1>. QED BY <1>5, <1>6

\* A sum of a word and an offset
LEMMA ModOnce ==
    ASSUME NEW M \in Nat \ {0}, NEW a \in Int, -M <= a, a < 2 * M
    PROVE  a % M = IF a < 0 THEN a + M ELSE IF a < M THEN a ELSE a - M
  <1>1. CASE a < M
    <2>1. a % M = IF a >= 0 THEN a ELSE a + M
      BY <1>1, ModSmall
    <2>2. CASE a >= 0
      BY <1>1, <2>1, <2>2
    <2>3. CASE a < 0
      BY <2>1, <2>3
    <2>. QED BY <2>2, <2>3
  <1>2. CASE a >= M
    <2>1. PICK q \in Int, r \in Int : /\ q = a \div M /\ r = a % M
                                      /\ a = M * q + r /\ 0 <= r /\ r < M
      OBVIOUS
    <2>2. CASE q <= 0
      <3>1. M * q <= 0
        BY <2>2
      <3>. QED BY <1>2, <2>1, <3>1
    <2>3. CASE q >= 2
      <3>1. M * q >= 2 * M
        BY <2>3
      <3>. QED BY <1>2, <2>1, <3>1
    <2>4. CASE q = 1
      BY <1>2, <2>1, <2>4
    <2>. QED BY <2>2, <2>3, <2>4
  <1>. QED BY <1>1, <1>2

\* A timer that is set is less than half of the word ahead of the wheel, or not more than
\* a quarter behind.
LEMMA SetDistance ==
    ASSUME Wheel!Constants, Wheel!IInv, NEW o \in Offsets, NEW e, e = (jiffies + o) % Wheel!Word
    PROVE  /\ e \in Words
           /\ \/ Wheel!Ahead(e, timer_jiffies) < Wheel!Word \div 2
              \/ Wheel!Ahead(e, timer_jiffies) >= Wheel!Word - Wheel!Word \div 4
  <1>1. PICK m \in Nat \ {0} : m = Wheel!Word
    BY Widths
  <1>2. PICK h \in Nat, q \in Nat : /\ h = Wheel!Word \div 2 /\ q = Wheel!Word \div 4
                                    /\ 2 * h <= m /\ 4 * q <= m /\ m > 7
    BY <1>1, Reach
  <1>3. PICK i \in Int, j \in Int : /\ i = jiffies /\ j = timer_jiffies
                                    /\ i \in 0..(m - 1) /\ j \in 0..(m - 1)
    BY <1>1 DEF Wheel!IInv, Wheel!TypeOK
  <1>4. PICK d \in Int : /\ d = Wheel!Ahead(jiffies, timer_jiffies)
                         /\ d = IF i >= j THEN i - j ELSE i - j + m
    <2>1. i \in Words /\ j \in Words
      BY <1>1, <1>3 DEF Words
    <2>2. Wheel!Ahead(i, j) = IF i >= j THEN i - j ELSE i - j + m
      BY <1>1, <2>1, AheadValue
    <2>3. (IF i >= j THEN i - j ELSE i - j + m) \in Int
      BY <1>3
    <2>. QED BY <1>3, <2>2, <2>3
  <1>5. MaxLag \in Nat /\ MaxLag < q /\ (d \in 0..MaxLag \/ d = m - 1)
    BY <1>1, <1>2, <1>4 DEF Wheel!IInv, Wheel!LagInv, Wheel!Constants
  <1>6. o \in Int /\ o < h - MaxLag - 1 /\ o > -q
    BY <1>2 DEF Wheel!Constants
  <1>7. e = IF i + o < 0 THEN i + o + m ELSE IF i + o < m THEN i + o ELSE i + o - m
    <2>1. i + o \in Int /\ -m <= i + o /\ i + o < 2 * m
      BY <1>2, <1>3, <1>5, <1>6
    <2>2. e = (i + o) % m
      BY <1>1, <1>3
    <2>3. PICK x \in Int : x = i + o /\ -m <= x /\ x < 2 * m
      BY <2>1
    <2>4. x % m = IF x < 0 THEN x + m ELSE IF x < m THEN x ELSE x - m
      BY <2>3, ModOnce
    <2>5. e = x % m
      BY <2>2, <2>3
    <2>6. e = IF x < 0 THEN x + m ELSE IF x < m THEN x ELSE x - m
      BY <2>4, <2>5
    <2>. QED BY <1>1, <1>3, <1>6, <2>3, <2>6
  <1>8. e \in Int /\ e \in 0..(m - 1)
    BY <1>2, <1>3, <1>5, <1>6, <1>7
  <1>9. PICK a \in Int : a = Wheel!Ahead(e, timer_jiffies) /\ a = IF e >= j THEN e - j ELSE e - j + m
    <2>1. e \in Words /\ j \in Words
      BY <1>1, <1>3, <1>8 DEF Words
    <2>2. Wheel!Ahead(e, j) = IF e >= j THEN e - j ELSE e - j + m
      BY <1>1, <2>1, AheadValue
    <2>3. (IF e >= j THEN e - j ELSE e - j + m) \in Int
      BY <1>3, <1>8
    <2>. QED BY <1>3, <2>2, <2>3
  <1>10. a < h \/ a >= m - q
    BY <1>2, <1>3, <1>4, <1>5, <1>6, <1>7, <1>8, <1>9
  <1>. QED BY <1>1, <1>2, <1>8, <1>9, <1>10 DEF Words

\* A timer of the list in progress runs, and is no longer pending.
LEMMA RunHandlerStep ==
    ASSUME Wheel!Constants, Wheel!IInv, NEW t \in Timer, Wheel!RunHandler(t)
    PROVE  Wheel!IInv' /\ Wheel!Queue!Fire(t)
  <1>1. /\ Wheel!TypeOK /\ where[t] = Wheel!Work
        /\ where' = [where EXCEPT ![t] = Null] /\ expires' = [expires EXCEPT ![t] = 0]
        /\ UNCHANGED <<jiffies, timer_jiffies>> /\ run_pc' = "fn"
    BY DEF Wheel!IInv, Wheel!RunHandler
  <1>2. Wheel!IInv'
    BY <1>1, Removed
  <1>3. Wheel!Queue!Fire(t)
    BY <1>1, Removed DEF Wheel!Queue!Fire, Wheel!Queue!Set
  <1>. QED BY <1>2, <1>3

\* del_timer
LEMMA DelTimerStep ==
    ASSUME Wheel!Constants, Wheel!IInv, NEW t \in Timer, Wheel!DelTimer(t)
    PROVE  Wheel!IInv' /\ Wheel!Queue!Set(t, Null)
  <1>1. /\ where' = [where EXCEPT ![t] = Null] /\ expires' = [expires EXCEPT ![t] = 0]
        /\ UNCHANGED <<jiffies, timer_jiffies>> /\ run_pc' \in {"out", "in", "fn"}
    BY DEF Wheel!IInv, Wheel!TypeOK, Wheel!DelTimer
  <1>. QED BY <1>1, Removed

\* mod_timer, and add_timer
LEMMA ModTimerStep ==
    ASSUME Wheel!Constants, Wheel!IInv, NEW t \in Timer, NEW o \in Offsets, NEW e,
           e = (jiffies + o) % Wheel!Word, Wheel!ModTimer(t, e)
    PROVE  e \in Words /\ Wheel!IInv' /\ Wheel!Queue!Set(t, e)
  <1>1. /\ Wheel!TypeOK /\ timer_jiffies \in Words
        /\ expires \in [Timer -> Words] /\ where \in [Timer -> Wheel!Slots \cup {Wheel!Work, Null}]
    BY DEF Wheel!IInv, Wheel!TypeOK, Words
  <1>2. PICK p : p = Wheel!InternalAddTimer(e, timer_jiffies)
    OBVIOUS
  <1>3. /\ where' = [where EXCEPT ![t] = p] /\ expires' = [expires EXCEPT ![t] = e]
        /\ UNCHANGED <<jiffies, timer_jiffies, run_pc>>
    BY <1>2 DEF Wheel!ModTimer
  <1>4. e \in Words /\ p \in Wheel!Slots /\ Later(p, e, timer_jiffies)
    BY <1>1, <1>2, SetDistance, AddTimer
  <1>5. Wheel!InTime(p, e, timer_jiffies)
    <2>1. ASSUME NEW n \in 2..5, e % Wheel!Width(n) < Wheel!Ahead(e, timer_jiffies)
          PROVE  e % Wheel!Width(n) <= Wheel!Ahead(e, timer_jiffies)
      <3>1. e % Wheel!Width(n) \in Nat /\ Wheel!Ahead(e, timer_jiffies) \in Nat
        <4>1. Wheel!Width(n) \in Nat \ {0} /\ e \in Nat /\ Words \subseteq Nat
          BY <1>4, Widths DEF Words
        <4>. QED BY <1>1, <1>4, <4>1, AheadValue, DivMod
      <3>. QED BY <2>1, <3>1
    <2>. QED BY <1>4, <2>1 DEF Later, Wheel!InTime
  <1>6. Wheel!TypeOK' /\ Wheel!LagInv'
    BY <1>1, <1>3, <1>4 DEF Wheel!TypeOK, Words, Wheel!IInv, Wheel!LagInv
  <1>7. ASSUME NEW u \in Timer, where'[u] \in Wheel!Slots
        PROVE  Wheel!InTime(where'[u], expires'[u], timer_jiffies')
    <2>1. CASE u = t
      BY <1>1, <1>3, <1>5, <2>1
    <2>2. CASE u # t
      BY <1>1, <1>3, <1>7, <2>2 DEF Wheel!IInv
    <2>. QED BY <2>1, <2>2
  <1>8. Wheel!IInv'
    BY <1>6, <1>7 DEF Wheel!IInv
  <1>9. p # Null /\ p # Wheel!Work
    BY <1>4, Places
  <1>10. Wheel!Queue!Set(t, e)
    <2>1. [u \in Timer |-> IF Wheel!Pending(u) THEN expires[u] ELSE Null]'
            = [[u \in Timer |-> IF Wheel!Pending(u) THEN expires[u] ELSE Null] EXCEPT ![t] = e]
      BY <1>1, <1>3, <1>9 DEF Wheel!Pending
    <2>2. {u \in Timer : where'[u] = Wheel!Work} = {u \in Timer : where[u] = Wheel!Work} \ {t}
      BY <1>1, <1>3, <1>9
    <2>. QED BY <1>3, <2>1, <2>2 DEF Wheel!Queue!Set
  <1>. QED BY <1>4, <1>8, <1>10

\* Every step of the wheel keeps the invariant, and is a step of the queue or a stutter.
LEMMA WheelStep ==
    ASSUME Wheel!Constants, Wheel!IInv, [Wheel!Next]_(Wheel!vars)
    PROVE  Wheel!IInv' /\ [Wheel!Queue!Next]_(Wheel!Queue!vars)
  <1>. USE DEF Wheel!Queue!Next
  <1>1. CASE UNCHANGED Wheel!vars
    <2>1. UNCHANGED <<jiffies, timer_jiffies, expires, where>> /\ run_pc' \in {"out", "in", "fn"}
      BY <1>1 DEF Wheel!vars, Wheel!IInv, Wheel!TypeOK
    <2>. QED BY <2>1, NoMoveStep
  <1>2. CASE Wheel!RunTimerSoftirq \/ Wheel!HandlerReturns \/ Wheel!RunTimersEnds
    <2>1. UNCHANGED <<jiffies, timer_jiffies, expires, where>> /\ run_pc' \in {"out", "in", "fn"}
      BY <1>2 DEF Wheel!RunTimerSoftirq, Wheel!HandlerReturns, Wheel!RunTimersEnds
    <2>. QED BY <2>1, NoMoveStep
  <1>3. CASE Wheel!DoTimer
    BY <1>3, DoTimerStep
  <1>4. CASE Wheel!ProcessTick
    BY <1>4, ProcessTickStep
  <1>5. ASSUME NEW t \in Timer, Wheel!RunHandler(t)
        PROVE  Wheel!IInv' /\ [Wheel!Queue!Next]_(Wheel!Queue!vars)
    BY <1>5, RunHandlerStep
  <1>6. ASSUME NEW t \in Timer, Wheel!DelTimer(t)
        PROVE  Wheel!IInv' /\ [Wheel!Queue!Next]_(Wheel!Queue!vars)
    BY <1>6, DelTimerStep
  <1>7. ASSUME NEW t \in Timer, NEW o \in Offsets,
               Wheel!ModTimer(t, (jiffies + o) % Wheel!Word)
        PROVE  Wheel!IInv' /\ [Wheel!Queue!Next]_(Wheel!Queue!vars)
    <2>1. PICK e : e = (jiffies + o) % Wheel!Word
      OBVIOUS
    <2>2. e \in 0..(Wheel!Word - 1) /\ Wheel!IInv' /\ Wheel!Queue!Set(t, e)
      BY <1>7, <2>1, ModTimerStep DEF Words
    <2>3. Wheel!Queue!Set(t, (jiffies + o) % Wheel!Word)
      BY ONLY <2>1, <2>2, Zenon DEF Wheel!Queue!Set
    <2>. QED BY <2>2, <2>3, Zenon DEF Wheel!Queue!Set
  <1>. QED BY <1>1, <1>2, <1>3, <1>4, <1>5, <1>6, <1>7 DEF Wheel!Next

\* A pending timer is always in a list that comes to its turn in time, and __run_timers
\* is at most a tick ahead of jiffies: for vectors of any size.
THEOREM WheelInvariance ==
    ASSUME Wheel!Constants
    PROVE  Wheel!Spec => []Wheel!IInv
  <1>1. Wheel!Init => Wheel!IInv
    BY WheelInit
  <1>2. Wheel!IInv /\ [Wheel!Next]_(Wheel!vars) => Wheel!IInv'
    BY WheelStep
  <1>. QED BY <1>1, <1>2, PTL DEF Wheel!Spec

\* The vectors of kernel/timer.c implement the queue of TimerQueue: whatever the cascades
\* and the wrapping of jiffies, __run_timers runs with a tick exactly the timers that
\* expire with it and those that were set into the past.
THEOREM WheelImplementsQueue ==
    ASSUME Wheel!Constants
    PROVE  Wheel!Spec => Wheel!ImplementsTimerQueue
  <1>1. Wheel!Init => Wheel!Queue!Init
    BY WheelInit
  <1>2. Wheel!IInv /\ [Wheel!Next]_(Wheel!vars) => [Wheel!Queue!Next]_(Wheel!Queue!vars)
    BY WheelStep
  <1>. QED BY <1>1, <1>2, WheelInvariance, PTL
       DEF Wheel!Spec, Wheel!ImplementsTimerQueue, Wheel!Queue!Spec
===============================================================================
