------------------------------- MODULE TimerSync -------------------------------
(***************************************************************************)
(* kernel/timer.c on several CPUs: timers move between the bases of the    *)
(* CPUs while they are set, deleted and run.  timer->base says whose lock  *)
(* protects a timer; during a move it is NULL, and then nobody has it.     *)
(*                                                                         *)
(* A step is one section under a base's lock, which is why no lock is held *)
(* between steps, or one read of a timer without it.  When a timer expires *)
(* is left open (TimerWheel has that): any timer in the lists of a base    *)
(* may be the next that __run_timers finds.                                *)
(***************************************************************************)
EXTENDS Naturals, FiniteSets

CONSTANTS
    Cpu,
    Timer,
    Task,
    Null,
    CanDie,     \* the CPUs that may be unplugged
    MaxOps,     \* bound: calls that one task makes
    MaxRearm    \* bound: calls that the handlers make in all

ASSUME TimerSyncAssumption ==
    /\ Cpu \cap Task = {} /\ Null \notin Cpu \cup Task \cup Timer
    /\ CanDie \subseteq Cpu /\ MaxOps \in Nat /\ MaxRearm \in Nat

\* A task, or the softirq of a CPU while it is in a handler
Actor == Task \cup Cpu

VARIABLES
    base,     \* base[t]: timer->base
    linked,   \* linked[t]: the base whose lists timer t is in, or Null
    isPending,\* isPending[t]: timer_pending, that is timer->entry.next # NULL
    running,  \* running[c]: base->running_timer
    fn,       \* fn[c]: the timer whose handler runs on c
    pc,       \* pc[c]: __run_timers on c: "out", "loop", "fn"
    op,       \* op[a]: the call that actor a is in
    left,     \* left[a]: calls a may still make; the handlers share left[Null]
    online,   \* cpu_online_map
    migrated  \* migrate_timers has been called for the CPUs that are dead

timerVars == <<base, linked, isPending>>
cpuVars == <<running, fn, pc>>
hotVars == <<online, migrated>>
vars == <<timerVars, cpuVars, op, left, hotVars>>

Idle == [pc |-> "idle", t |-> Null, b |-> Null]

TypeOK ==
    /\ base \in [Timer -> Cpu \cup {Null}] /\ linked \in [Timer -> Cpu \cup {Null}]
    /\ isPending \in [Timer -> BOOLEAN]
    /\ running \in [Cpu -> Timer \cup {Null}] /\ fn \in [Cpu -> Timer \cup {Null}]
    /\ pc \in [Cpu -> {"out", "loop", "fn"}]
    /\ op \in [Actor -> [pc : {"idle", "mod", "del", "sync", "modLock", "delLock", "syncLock",
                               "relock", "deleted"},
                         t : Timer \cup {Null}, b : Cpu \cup {Null}]]
    /\ left \in [Task \cup {Null} -> 0..(MaxOps + MaxRearm)]
    /\ online \subseteq Cpu /\ migrated \in BOOLEAN

Init ==
    /\ base \in [Timer -> Cpu] /\ linked = [t \in Timer |-> Null]
    /\ isPending = [t \in Timer |-> FALSE]
    /\ running = [c \in Cpu |-> Null] /\ fn = [c \in Cpu |-> Null]
    /\ pc = [c \in Cpu |-> "out"]
    /\ op = [a \in Actor |-> Idle]
    /\ left = [u \in Task \cup {Null} |-> IF u = Null THEN MaxRearm ELSE MaxOps]
    /\ online = Cpu /\ migrated = FALSE

-------------------------------------------------------------------------------
(* The calls                                                               *)

\* Somebody is in del_timer_sync of t or relies on it having returned.
Deleting(t) == \E u \in Task : op[u].t = t /\ op[u].pc \in {"sync", "syncLock", "deleted"}

Payer(a) == IF a \in Task THEN a ELSE Null

\* Actor a begins a call.  A handler may do so while it runs.  Whoever calls
\* del_timer_sync prevents others from restarting the timer, except that its
\* own handler may still do it.
Begin(a, to, t) ==
    /\ op[a].pc = "idle" /\ left[Payer(a)] > 0
    /\ a \in Cpu => pc[a] = "fn" /\ to # "sync"
    /\ to = "mod" /\ ~(a \in Cpu /\ fn[a] = t) => ~Deleting(t)
    /\ to = "sync" => \A x \in Actor : op[x].t = t => op[x].pc \in {"del", "delLock", "sync", "syncLock", "deleted"}
                                                      \/ (x \in Cpu /\ fn[x] = t)
    /\ op' = [op EXCEPT ![a] = [pc |-> to, t |-> t, b |-> Null]]
    /\ left' = [left EXCEPT ![Payer(a)] = @ - 1]

ModTimer(a, t) == Begin(a, "mod", t) /\ UNCHANGED <<timerVars, cpuVars, hotVars>>
DelTimerSync(u, t) == Begin(u, "sync", t) /\ UNCHANGED <<timerVars, cpuVars, hotVars>>

\* del_timer looks without the lock first.
DelTimer(a, t) ==
    /\ isPending[t] /\ Begin(a, "del", t)
    /\ UNCHANGED <<timerVars, cpuVars, hotVars>>

\* add_timer_on: by the only user of a timer that is idle
AddTimerOn(u, t, c) ==
    /\ op[u].pc = "idle" /\ left[u] > 0 /\ c \in online
    /\ ~isPending[t] /\ \A k \in Cpu : running[k] # t
    /\ \A x \in Actor : op[x].t # t
    /\ base' = [base EXCEPT ![t] = c] /\ linked' = [linked EXCEPT ![t] = c]
    /\ isPending' = [isPending EXCEPT ![t] = TRUE]
    /\ left' = [left EXCEPT ![u] = @ - 1]
    /\ UNCHANGED <<cpuVars, op, hotVars>>

LockOf(from) == CASE from = "mod" -> "modLock" [] from = "del" -> "delLock" [] from = "sync" -> "syncLock"
ReadOf(from) == CASE from = "modLock" -> "mod" [] from = "delLock" -> "del" [] from = "syncLock" -> "sync"

\* lock_timer_base: read timer->base, and again while it is NULL
ReadBase(a) ==
    /\ op[a].pc \in {"mod", "del", "sync"} /\ base[op[a].t] # Null
    /\ op' = [op EXCEPT ![a].pc = LockOf(@), ![a].b = base[op[a].t]]
    /\ UNCHANGED <<timerVars, cpuVars, left, hotVars>>

\* ... and once more when the timer has another base by the time of the lock
BaseChanged(a) ==
    /\ op[a].pc \in {"modLock", "delLock", "syncLock"} /\ base[op[a].t] # op[a].b
    /\ op' = [op EXCEPT ![a].pc = ReadOf(@), ![a].b = Null]
    /\ UNCHANGED <<timerVars, cpuVars, left, hotVars>>

\* Actor a has the lock of the timer's base at place from.
Locks(a, from, t) == op[a].pc = from /\ op[a].t = t /\ base[t] = op[a].b

\* A handler is on its own CPU, a task on any.
MayBeOn(a, c) == c \in online /\ (a \in Cpu => a = c)

\* Plausible bug: a timer is moved although its handler runs.
ModTimerLockedMoves(a, t, c) ==
    /\ Locks(a, "modLock", t) /\ MayBeOn(a, c)
    /\ IF c = op[a].b
       THEN /\ linked' = [linked EXCEPT ![t] = op[a].b]
            /\ isPending' = [isPending EXCEPT ![t] = TRUE]
            /\ op' = [op EXCEPT ![a] = Idle]
            /\ UNCHANGED base
       ELSE /\ linked' = [linked EXCEPT ![t] = Null]
            /\ base' = [base EXCEPT ![t] = Null]
            /\ op' = [op EXCEPT ![a].pc = "relock", ![a].b = c]
            /\ UNCHANGED isPending
    /\ UNCHANGED <<cpuVars, left, hotVars>>

\* __mod_timer on CPU c, under the lock of the old base.  The timer moves to
\* the base of c unless its handler may be running on the old one; while it
\* moves it is in no list and its base is NULL.
ModTimerLocked(a, t, c) ==
    /\ Locks(a, "modLock", t) /\ MayBeOn(a, c)
    /\ IF c = op[a].b \/ running[op[a].b] = t
       THEN /\ linked' = [linked EXCEPT ![t] = op[a].b]
            /\ isPending' = [isPending EXCEPT ![t] = TRUE]
            /\ op' = [op EXCEPT ![a] = Idle]
            /\ UNCHANGED base
       ELSE /\ linked' = [linked EXCEPT ![t] = Null]
            /\ base' = [base EXCEPT ![t] = Null]
            /\ op' = [op EXCEPT ![a].pc = "relock", ![a].b = c]
            /\ UNCHANGED isPending
    /\ UNCHANGED <<cpuVars, left, hotVars>>

\* Plausible bug: the timer is linked again and its base stays NULL.
ModTimerRelockedNoBase(a) ==
    LET t == op[a].t IN
    /\ op[a].pc = "relock"
    /\ linked' = [linked EXCEPT ![t] = op[a].b]
    /\ isPending' = [isPending EXCEPT ![t] = TRUE]
    /\ op' = [op EXCEPT ![a] = Idle]
    /\ UNCHANGED <<base, cpuVars, left, hotVars>>

\* ... and under the lock of the new one.  Interrupts are off in between.
ModTimerRelocked(a) ==
    LET t == op[a].t IN
    /\ op[a].pc = "relock"
    /\ base' = [base EXCEPT ![t] = op[a].b] /\ linked' = [linked EXCEPT ![t] = op[a].b]
    /\ isPending' = [isPending EXCEPT ![t] = TRUE]
    /\ op' = [op EXCEPT ![a] = Idle]
    /\ UNCHANGED <<cpuVars, left, hotVars>>

Detach(t) ==
    IF isPending[t]
    THEN linked' = [linked EXCEPT ![t] = Null] /\ isPending' = [isPending EXCEPT ![t] = FALSE]
    ELSE UNCHANGED <<linked, isPending>>

DelTimerLocked(a, t) ==
    /\ Locks(a, "delLock", t)
    /\ Detach(t)
    /\ op' = [op EXCEPT ![a] = Idle]
    /\ UNCHANGED <<base, cpuVars, left, hotVars>>

\* Plausible bug: the handler is not waited for when the timer is pending again.
TryToDelPendingFirst(u, t) ==
    /\ Locks(u, "syncLock", t)
    /\ IF running[op[u].b] = t /\ ~isPending[t]
       THEN op' = [op EXCEPT ![u].pc = "sync", ![u].b = Null] /\ UNCHANGED <<linked, isPending>>
       ELSE op' = [op EXCEPT ![u].pc = "deleted"] /\ Detach(t)
    /\ UNCHANGED <<base, cpuVars, left, hotVars>>

\* try_to_del_timer_sync: not while the handler runs; del_timer_sync retries.
TryToDelTimerSync(u, t) ==
    /\ Locks(u, "syncLock", t)
    /\ IF running[op[u].b] = t
       THEN op' = [op EXCEPT ![u].pc = "sync", ![u].b = Null] /\ UNCHANGED <<linked, isPending>>
       ELSE op' = [op EXCEPT ![u].pc = "deleted"] /\ Detach(t)
    /\ UNCHANGED <<base, cpuVars, left, hotVars>>

\* The caller of del_timer_sync lets the timer be used again.
Reuse(u) ==
    /\ op[u].pc = "deleted"
    /\ op' = [op EXCEPT ![u] = Idle]
    /\ UNCHANGED <<timerVars, cpuVars, left, hotVars>>

CallStep(a) ==
    \/ ReadBase(a) \/ BaseChanged(a) \/ ModTimerRelocked(a)
    \/ \E t \in Timer :
          \/ DelTimerLocked(a, t) \/ TryToDelTimerSync(a, t)
          \/ \E c \in Cpu : ModTimerLocked(a, t, c)

-------------------------------------------------------------------------------
(* __run_timers                                                            *)

\* Under the lock: the next expired timer, up to the call of its handler
RunHandler(c, t) ==
    /\ c \in online /\ pc[c] # "fn" /\ linked[t] = c
    /\ running' = [running EXCEPT ![c] = t] /\ fn' = [fn EXCEPT ![c] = t]
    /\ pc' = [pc EXCEPT ![c] = "fn"]
    /\ linked' = [linked EXCEPT ![t] = Null] /\ isPending' = [isPending EXCEPT ![t] = FALSE]
    /\ UNCHANGED <<base, op, left, hotVars>>

\* running_timer still names the timer when its handler has returned.
HandlerReturns(c) ==
    /\ pc[c] = "fn" /\ op[c].pc = "idle"
    /\ pc' = [pc EXCEPT ![c] = "loop"] /\ fn' = [fn EXCEPT ![c] = Null]
    /\ UNCHANGED <<timerVars, running, op, left, hotVars>>

\* No expired timer is left.
RunTimersEnds(c) ==
    /\ pc[c] = "loop"
    /\ running' = [running EXCEPT ![c] = Null]
    /\ pc' = [pc EXCEPT ![c] = "out"]
    /\ UNCHANGED <<timerVars, fn, op, left, hotVars>>

-------------------------------------------------------------------------------
(* A CPU is unplugged: no softirq runs on it then, and nobody has           *)
(* interrupts off.                                                          *)

CpuDies(c) ==
    /\ online = Cpu /\ c \in CanDie /\ online # {c}
    /\ \A k \in Cpu : pc[k] = "out"
    /\ \A a \in Actor : op[a].pc # "relock"
    /\ online' = online \ {c}
    /\ UNCHANGED <<timerVars, cpuVars, op, left, migrated>>

\* Plausible bug: the timers change their lists and keep their base.
MigrateListsOnly(r) ==
    /\ online # Cpu /\ ~migrated /\ r \in online
    /\ linked' = [t \in Timer |-> IF linked[t] \in Cpu \ online THEN r ELSE linked[t]]
    /\ migrated' = TRUE
    /\ UNCHANGED <<base, isPending, cpuVars, op, left, online>>

\* migrate_timers, under both locks, on CPU r
MigrateTimers(r) ==
    LET moved == {t \in Timer : linked[t] \in Cpu \ online} IN
    /\ online # Cpu /\ ~migrated /\ r \in online
    /\ base' = [t \in Timer |-> IF t \in moved THEN r ELSE base[t]]
    /\ linked' = [t \in Timer |-> IF t \in moved THEN r ELSE linked[t]]
    /\ migrated' = TRUE
    /\ UNCHANGED <<isPending, cpuVars, op, left, online>>

Next ==
    \/ \E a \in Actor : CallStep(a)
    \/ \E a \in Actor, t \in Timer : ModTimer(a, t) \/ DelTimer(a, t)
    \/ \E u \in Task :
          \/ Reuse(u)
          \/ \E t \in Timer : DelTimerSync(u, t) \/ \E c \in Cpu : AddTimerOn(u, t, c)
    \/ \E c \in Cpu :
          \/ HandlerReturns(c) \/ RunTimersEnds(c) \/ CpuDies(c) \/ MigrateTimers(c)
          \/ \E t \in Timer : RunHandler(c, t)

Safety == Init /\ [][Next]_vars

\* Whoever is in a call goes on, a timer in the lists of a CPU that is up
\* expires some time, handlers return, and a dead CPU is cleaned up.
Spec ==
    /\ Safety
    /\ \A a \in Actor : WF_vars(CallStep(a))
    /\ \A c \in Cpu :
          /\ WF_vars(HandlerReturns(c)) /\ WF_vars(RunTimersEnds(c)) /\ WF_vars(MigrateTimers(c))
          /\ \A t \in Timer : WF_vars(RunHandler(c, t))
    /\ \A u \in Task : WF_vars(Reuse(u))

-------------------------------------------------------------------------------
(* Properties                                                              *)

RunsOn(t) == {c \in Cpu : fn[c] = t}

\* A timer is in the lists of the base that timer->base names, so that the
\* lock found through it is the right one (the BUG_ON of cascade); it is
\* pending exactly when it is in a list, except while it moves; and nobody's
\* timer is forgotten in the lists of a CPU that has been cleaned up.
\* The variables keep their types throughout.
BaseOwnsTimer ==
    /\ TypeOK
    /\ \A t \in Timer :
           /\ linked[t] # Null => base[t] = linked[t]
           /\ base[t] # Null => (isPending[t] <=> linked[t] # Null)
           /\ linked[t] \in Cpu \ online => ~migrated
           /\ base[t] = Null => Cardinality({a \in Actor : op[a].t = t /\ op[a].pc = "relock"}) = 1

\* "This also guarantees that the timer is serialized wrt itself": its
\* handler never runs on two CPUs, however the timer is moved.  And the
\* handler runs only where running_timer says so, which del_timer_sync reads
\* from the base the timer has by then.
SerializedWithItself ==
    \A t \in Timer :
        /\ Cardinality(RunsOn(t)) <= 1
        /\ \A c \in RunsOn(t) : running[c] = t /\ base[t] = c

\* "Upon exit the timer is not queued and the handler is not running on any
\* CPU", until the caller of del_timer_sync lets the timer be used again.
DeletedIsQuiet ==
    \A u \in Task : op[u].pc = "deleted" =>
        LET t == op[u].t IN ~isPending[t] /\ linked[t] = Null /\ RunsOn(t) = {}

\* del_timer_sync, which retries while the handler runs and spins while the
\* timer moves, comes to an end when the handlers stop setting the timer; and
\* a timer that is set runs or is deleted, also when the CPU it is set on dies.
TimerProgress ==
    /\ \A u \in Task : op[u].pc = "sync" ~> op[u].pc = "deleted"
    /\ \A t \in Timer : isPending[t] ~> ~isPending[t]

-------------------------------------------------------------------------------
(* The inductive invariant                                                 *)

Moves(a, t) == op[a].pc = "relock" /\ op[a].t = t

\* What an actor's call knows: its timer, the base it has read, and while it
\* moves the timer a base of a CPU that is up.
OpInv ==
    \A a \in Actor :
        /\ IF op[a].pc = "idle" THEN op[a].t = Null ELSE op[a].t \in Timer
        /\ op[a].pc \in {"modLock", "delLock", "syncLock"} => op[a].b \in Cpu
        /\ op[a].pc = "relock" => op[a].b \in online

\* timer->base is NULL exactly while one actor moves the timer.
MoveInv ==
    \A t \in Timer :
        /\ base[t] = Null <=> \E a \in Actor : Moves(a, t)
        /\ \A a, x \in Actor : Moves(a, t) /\ Moves(x, t) => a = x

\* The lists: what BaseOwnsTimer says of them.
LinkInv ==
    /\ \A t \in Timer :
           /\ linked[t] # Null => base[t] = linked[t]
           /\ base[t] # Null => (isPending[t] <=> linked[t] # Null)
           /\ linked[t] \in Cpu \ online => ~migrated
    /\ migrated => online # Cpu

\* __run_timers: a handler runs on a CPU that is up, and its timer stays with
\* the base of that CPU, which names it as running_timer.
RunInv ==
    \A c \in Cpu :
        /\ pc[c] = "fn" <=> fn[c] # Null
        /\ pc[c] = "out" => running[c] = Null
        /\ c \notin online => pc[c] = "out"
        /\ fn[c] # Null => running[c] = fn[c] /\ base[fn[c]] = c

\* While somebody deletes a timer synchronously only its own handler sets it.
SyncInv ==
    \A u \in Task, x \in Actor :
        /\ op[u].pc \in {"sync", "syncLock", "deleted"}
        /\ op[x].pc \in {"mod", "modLock", "relock"}
        /\ op[x].t = op[u].t
        => x \in Cpu /\ fn[x] = op[x].t

\* The conjunction that every step preserves.
IInv == TypeOK /\ OpInv /\ MoveInv /\ LinkInv /\ RunInv /\ SyncInv /\ DeletedIsQuiet
===============================================================================
