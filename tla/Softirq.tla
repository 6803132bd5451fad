-------------------------------- MODULE Softirq --------------------------------
(***************************************************************************)
(* kernel/softirq.c and the tasklets of include/linux/interrupt.h, on an   *)
(* SMP machine: the pending mask and the two tasklet lists of every CPU,   *)
(* __do_softirq with its bounded restarts, ksoftirqd, and the tasks that   *)
(* schedule, disable and kill tasklets, some of them with bottom halves    *)
(* off.  A CPU may die: its tasklets are then taken over.                  *)
(*                                                                         *)
(* A step is a region with interrupts off, one atomic operation on a       *)
(* tasklet, or one read of the pending mask.  Interrupts are on between    *)
(* steps, and HardIrq is one interrupt from irq_enter to irq_exit.         *)
(***************************************************************************)
EXTENDS Naturals, Sequences, FiniteSets

CONSTANTS
    Cpu,
    Tasklet,
    HiTasklet,           \* those scheduled with tasklet_hi_schedule
    Task,
    Null,
    MAX_SOFTIRQ_RESTART,
    CanDie,              \* the CPUs that may be unplugged
    MaxOps               \* bound: calls that one task makes

ASSUME SoftirqAssumption ==
    /\ IsFiniteSet(Cpu) /\ Cpu # {} /\ IsFiniteSet(Tasklet) /\ IsFiniteSet(Task)
    /\ HiTasklet \subseteq Tasklet /\ CanDie \subseteq Cpu
    /\ MAX_SOFTIRQ_RESTART \in Nat \ {0} /\ MaxOps \in Nat
    /\ Null \notin Cpu \cup Tasklet \cup Task

Nr == {"HI", "TASKLET"}

VARIABLES
    sched,   \* sched[t]: TASKLET_STATE_SCHED
    run,     \* run[t]: TASKLET_STATE_RUN
    count,   \* count[t]: t->count, the outstanding tasklet_disable calls
    vec,     \* vec[c][nr]: tasklet_vec and tasklet_hi_vec
    pending, \* pending[c]: local_softirq_pending
    soft,    \* soft[c]: the frame of __do_softirq on c
    kpc,     \* kpc[c]: where the ksoftirqd of c is
    kstate,  \* kstate[c]: the state of that task
    op,      \* op[u]: the call task u is in, and the CPU it has bottom halves off on
    left,    \* left[u]: calls it may still make
    online,  \* cpu_online_map
    hot      \* how far the unplugging of a CPU is, and which one

taskletVars == <<sched, run, count>>
cpuVars == <<vec, pending, soft>>
ksdVars == <<kpc, kstate>>
taskVars == <<op, left>>
hotVars == <<online, hot>>
vars == <<taskletVars, cpuVars, ksdVars, taskVars, hotVars>>

NoFrame == [pc |-> "none", todo |-> {}, nr |-> Null, list |-> <<>>, restart |-> 0]

TypeOK ==
    /\ sched \in [Tasklet -> BOOLEAN] /\ run \in [Tasklet -> BOOLEAN]
    /\ count \in [Tasklet -> Nat]
    /\ vec \in [Cpu -> [Nr -> Seq(Tasklet)]] /\ pending \in [Cpu -> SUBSET Nr]
    /\ soft \in [Cpu -> [pc : {"none", "next", "list", "count", "clear", "func", "requeue"},
                         todo : SUBSET Nr, nr : Nr \cup {Null}, list : Seq(Tasklet),
                         restart : 0..MAX_SOFTIRQ_RESTART]]
    /\ kpc \in [Cpu -> {"top", "sched", "loop", "ran", "out", "die", "exited"}]
    /\ kstate \in [Cpu -> {"RUNNING", "INTERRUPTIBLE"}]
    /\ op \in [Task -> [pc : {"idle", "push", "dwait", "disabled", "kill", "kwait", "kclear"},
                        t : Tasklet \cup {Null}, cpu : Cpu \cup {Null}]]
    /\ left \in [Task -> 0..MaxOps]
    /\ online \subseteq Cpu
    /\ hot \in [pc : {"up", "dead", "stop", "gone"}, cpu : Cpu \cup {Null}]

Init ==
    /\ sched = [t \in Tasklet |-> FALSE] /\ run = [t \in Tasklet |-> FALSE]
    /\ count = [t \in Tasklet |-> 0]
    /\ vec = [c \in Cpu |-> [n \in Nr |-> <<>>]] /\ pending = [c \in Cpu |-> {}]
    /\ soft = [c \in Cpu |-> NoFrame]
    /\ kpc = [c \in Cpu |-> "top"] /\ kstate = [c \in Cpu |-> "INTERRUPTIBLE"]
    /\ op = [u \in Task |-> [pc |-> "idle", t |-> Null, cpu |-> Null]]
    /\ left = [u \in Task |-> MaxOps]
    /\ online = Cpu /\ hot = [pc |-> "up", cpu |-> Null]

VecOf(t) == IF t \in HiTasklet THEN "HI" ELSE "TASKLET"

\* The lowest bit of a pending mask
FirstOf(mask) == IF "HI" \in mask THEN "HI" ELSE "TASKLET"

BhOff(c) == \E u \in Task : op[u].cpu = c
InInterrupt(c) == soft[c].pc # "none" \/ BhOff(c)

\* A thread may be scheduled on c: neither a softirq nor a section with
\* preemption off is in its way.
Preemptible(c) == c \in online /\ ~InInterrupt(c) /\ kpc[c] # "loop"

\* The calling task has a CPU to run on
OnCpu(u) == op[u].cpu # Null \/ \E c \in Cpu : Preemptible(c)

-------------------------------------------------------------------------------
(* __do_softirq                                                            *)

\* The beginning of a pass: take over the mask and clear it.
Frame(mask, restart) == [NoFrame EXCEPT !.pc = "next", !.todo = mask, !.restart = restart]

\* do_softirq on c in a thread, or nothing when no softirq is pending
DoSoftirq(c) ==
    IF pending[c] = {}
    THEN UNCHANGED <<soft, pending>>
    ELSE /\ soft' = [soft EXCEPT ![c] = Frame(pending[c], MAX_SOFTIRQ_RESTART)]
         /\ pending' = [pending EXCEPT ![c] = {}]

\* tasklet_action, tasklet_hi_action: take the whole list, interrupts off
TakeList(c) ==
    LET nr == FirstOf(soft[c].todo) IN
    /\ soft[c].pc = "next" /\ soft[c].todo # {}
    /\ soft' = [soft EXCEPT ![c].pc = "list", ![c].todo = @ \ {nr},
                            ![c].nr = nr, ![c].list = vec[c][nr]]
    /\ vec' = [vec EXCEPT ![c][nr] = <<>>]
    /\ UNCHANGED <<taskletVars, pending, ksdVars, taskVars, hotVars>>

Cur(c) == Head(soft[c].list)

ListEnd(c) ==
    /\ soft[c].pc = "list" /\ soft[c].list = <<>>
    /\ soft' = [soft EXCEPT ![c].pc = "next", ![c].nr = Null]
    /\ UNCHANGED <<taskletVars, vec, pending, ksdVars, taskVars, hotVars>>

\* Plausible bug: the function runs although another CPU has the tasklet locked.
TaskletTrylockIgnored(c) ==
    /\ soft[c].pc = "list" /\ soft[c].list # <<>>
    /\ soft' = [soft EXCEPT ![c].pc = "count"]
    /\ run' = [run EXCEPT ![Cur(c)] = TRUE]
    /\ UNCHANGED <<sched, count, vec, pending, ksdVars, taskVars, hotVars>>

TaskletTrylock(c) ==
    /\ soft[c].pc = "list" /\ soft[c].list # <<>>
    /\ soft' = [soft EXCEPT ![c].pc = IF run[Cur(c)] THEN "requeue" ELSE "count"]
    /\ run' = [run EXCEPT ![Cur(c)] = TRUE]
    /\ UNCHANGED <<sched, count, vec, pending, ksdVars, taskVars, hotVars>>

\* A disabled tasklet is unlocked and goes back to the list.
ReadCount(c) ==
    /\ soft[c].pc = "count"
    /\ soft' = [soft EXCEPT ![c].pc = IF count[Cur(c)] = 0 THEN "clear" ELSE "requeue"]
    /\ run' = [run EXCEPT ![Cur(c)] = count[Cur(c)] = 0]
    /\ UNCHANGED <<sched, count, vec, pending, ksdVars, taskVars, hotVars>>

\* test_and_clear_bit(TASKLET_STATE_SCHED), before the function is called
ClearSched(c) ==
    /\ soft[c].pc = "clear"
    /\ soft' = [soft EXCEPT ![c].pc = "func"]
    /\ sched' = [sched EXCEPT ![Cur(c)] = FALSE]
    /\ UNCHANGED <<run, count, vec, pending, ksdVars, taskVars, hotVars>>

\* The function schedules a tasklet, perhaps itself.
FuncSchedules(c, t) ==
    /\ soft[c].pc = "func" /\ ~sched[t]
    /\ sched' = [sched EXCEPT ![t] = TRUE]
    /\ vec' = [vec EXCEPT ![c][VecOf(t)] = <<t>> \o @]
    /\ pending' = [pending EXCEPT ![c] = @ \cup {VecOf(t)}]
    /\ UNCHANGED <<run, count, soft, ksdVars, taskVars, hotVars>>

FuncReturns(c) ==
    /\ soft[c].pc = "func"
    /\ run' = [run EXCEPT ![Cur(c)] = FALSE]
    /\ soft' = [soft EXCEPT ![c].pc = "list", ![c].list = Tail(@)]
    /\ UNCHANGED <<sched, count, vec, pending, ksdVars, taskVars, hotVars>>

Requeue(c) ==
    /\ soft[c].pc = "requeue"
    /\ vec' = [vec EXCEPT ![c][soft[c].nr] = <<Cur(c)>> \o @]
    /\ pending' = [pending EXCEPT ![c] = @ \cup {soft[c].nr}]
    /\ soft' = [soft EXCEPT ![c].pc = "list", ![c].list = Tail(@)]
    /\ UNCHANGED <<taskletVars, ksdVars, taskVars, hotVars>>

\* wakeup_softirqd
Wakeup(c) == kstate' = [kstate EXCEPT ![c] = "RUNNING"]

\* Plausible bug: after the last restart nobody is told of what is pending.
PassEndsNoWakeup(c) ==
    /\ soft[c].pc = "next" /\ soft[c].todo = {}
    /\ IF pending[c] # {} /\ soft[c].restart > 1
       THEN /\ soft' = [soft EXCEPT ![c] = Frame(pending[c], soft[c].restart - 1)]
            /\ pending' = [pending EXCEPT ![c] = {}]
       ELSE soft' = [soft EXCEPT ![c] = NoFrame] /\ UNCHANGED pending
    /\ UNCHANGED <<taskletVars, vec, ksdVars, taskVars, hotVars>>

\* The end of a pass: again, or leave the rest to ksoftirqd.
PassEnds(c) ==
    /\ soft[c].pc = "next" /\ soft[c].todo = {}
    /\ IF pending[c] # {} /\ soft[c].restart > 1
       THEN /\ soft' = [soft EXCEPT ![c] = Frame(pending[c], soft[c].restart - 1)]
            /\ pending' = [pending EXCEPT ![c] = {}]
            /\ UNCHANGED kstate
       ELSE /\ soft' = [soft EXCEPT ![c] = NoFrame] /\ UNCHANGED pending
            /\ IF pending[c] # {} THEN Wakeup(c) ELSE UNCHANGED kstate
    /\ UNCHANGED <<taskletVars, vec, kpc, taskVars, hotVars>>

SoftStep(c) ==
    \/ TakeList(c) \/ ListEnd(c) \/ TaskletTrylock(c) \/ ReadCount(c) \/ ClearSched(c)
    \/ FuncReturns(c) \/ Requeue(c) \/ PassEnds(c)

\* An interrupt whose handler schedules the tasklets T.  irq_exit runs the
\* softirqs unless it returns to one, or to a section with bottom halves off.
HardIrq(c, T) ==
    LET mask == pending[c] \cup {VecOf(t) : t \in T} IN
    /\ c \in online /\ \A t \in T : ~sched[t]
    /\ sched' = [t \in Tasklet |-> sched[t] \/ t \in T]
    /\ vec' = [vec EXCEPT ![c] = [n \in Nr |->
                   IF \E t \in T : VecOf(t) = n
                   THEN <<CHOOSE t \in T : VecOf(t) = n>> \o @[n] ELSE @[n]]]
    /\ IF InInterrupt(c) \/ mask = {}
       THEN pending' = [pending EXCEPT ![c] = mask] /\ UNCHANGED soft
       ELSE /\ soft' = [soft EXCEPT ![c] = Frame(mask, MAX_SOFTIRQ_RESTART)]
            /\ pending' = [pending EXCEPT ![c] = {}]
    /\ UNCHANGED <<run, count, ksdVars, taskVars, hotVars>>

-------------------------------------------------------------------------------
(* ksoftirqd of c.  When c has been unplugged it runs on another CPU, whose *)
(* mask it then reads.                                                      *)

\* The CPU that ksoftirqd/c is on
RunsOn(c, r) == r \in online /\ (c \in online => r = c) /\ ~InInterrupt(r)
ShouldStop(c) == hot = [pc |-> "stop", cpu |-> c]

\* Its state is TASK_INTERRUPTIBLE already when it reads the mask.
KsdTop(c) ==
    /\ kpc[c] = "top"
    /\ \E r \in Cpu : RunsOn(c, r) /\
         LET idle == pending[r] = {} IN
         /\ kpc' = [kpc EXCEPT ![c] = IF ShouldStop(c) THEN "exited"
                                      ELSE IF idle THEN "sched" ELSE "loop"]
         /\ kstate' = [kstate EXCEPT ![c] =
                IF idle /\ ~ShouldStop(c) THEN @ ELSE "RUNNING"]
    /\ UNCHANGED <<taskletVars, cpuVars, taskVars, hotVars>>

\* schedule returns once the task is runnable
KsdScheduled(c) ==
    /\ kpc[c] = "sched" /\ kstate[c] = "RUNNING" /\ \E r \in Cpu : RunsOn(c, r)
    /\ kpc' = [kpc EXCEPT ![c] = "loop"]
    /\ UNCHANGED <<taskletVars, cpuVars, kstate, taskVars, hotVars>>

KsdLoop(c) ==
    /\ kpc[c] = "loop"
    /\ \E r \in Cpu : RunsOn(c, r) /\
         IF pending[r] = {}
         THEN kpc' = [kpc EXCEPT ![c] = "out"] /\ UNCHANGED <<soft, pending>>
         ELSE IF c \notin online
              THEN kpc' = [kpc EXCEPT ![c] = "die"] /\ UNCHANGED <<soft, pending>>
              ELSE kpc' = [kpc EXCEPT ![c] = "ran"] /\ DoSoftirq(c)
    /\ UNCHANGED <<taskletVars, vec, kstate, taskVars, hotVars>>

\* cond_resched, the place where other threads of the CPU run
KsdResched(c) ==
    /\ kpc[c] = "ran" /\ \E r \in Cpu : RunsOn(c, r)
    /\ kpc' = [kpc EXCEPT ![c] = "loop"]
    /\ UNCHANGED <<taskletVars, cpuVars, kstate, taskVars, hotVars>>

KsdOut(c) ==
    /\ kpc[c] = "out" /\ \E r \in Cpu : RunsOn(c, r)
    /\ kpc' = [kpc EXCEPT ![c] = "top"]
    /\ kstate' = [kstate EXCEPT ![c] = "INTERRUPTIBLE"]
    /\ UNCHANGED <<taskletVars, cpuVars, taskVars, hotVars>>

\* wait_to_die
KsdDies(c) ==
    /\ kpc[c] = "die" /\ ShouldStop(c)
    /\ kpc' = [kpc EXCEPT ![c] = "exited"]
    /\ UNCHANGED <<taskletVars, cpuVars, kstate, taskVars, hotVars>>

KsdStep(c) ==
    \/ KsdTop(c) \/ KsdScheduled(c) \/ KsdLoop(c) \/ KsdResched(c) \/ KsdOut(c) \/ KsdDies(c)

-------------------------------------------------------------------------------
(* The calls of a task                                                     *)

\* Task u begins call pc on tasklet t.
Calls(u, pc, t) ==
    /\ op[u].pc = "idle" /\ left[u] > 0 /\ OnCpu(u)
    /\ op' = [op EXCEPT ![u].pc = pc, ![u].t = t]
    /\ left' = [left EXCEPT ![u] = @ - 1]

\* Task u goes on with its call on tasklet t, from one place to the next.
Goes(u, from, to, t) ==
    /\ op[u].pc = from /\ op[u].t = t /\ OnCpu(u)
    /\ op' = [op EXCEPT ![u].pc = to, ![u].t = IF to = "idle" THEN Null ELSE t]
    /\ UNCHANGED left

\* tasklet_schedule, tasklet_hi_schedule: claim the tasklet, or leave it to
\* the one who has claimed it.  The task may move to another CPU then.
TaskletSchedule(u, t) ==
    /\ Calls(u, "push", t) /\ ~sched[t]
    /\ sched' = [sched EXCEPT ![t] = TRUE]
    /\ UNCHANGED <<run, count, cpuVars, ksdVars, hotVars>>

\* __tasklet_schedule, __tasklet_hi_schedule and raise_softirq_irqoff
TaskletPush(u, c, t) ==
    /\ op[u].cpu = c \/ (op[u].cpu = Null /\ Preemptible(c))
    /\ Goes(u, "push", "idle", t)
    /\ vec' = [vec EXCEPT ![c][VecOf(t)] = <<t>> \o @]
    /\ pending' = [pending EXCEPT ![c] = @ \cup {VecOf(t)}]
    /\ IF InInterrupt(c) THEN UNCHANGED kstate ELSE Wakeup(c)
    /\ UNCHANGED <<taskletVars, soft, kpc, hotVars>>

\* tasklet_disable: tasklet_disable_nosync, then tasklet_unlock_wait
TaskletDisable(u, t) ==
    /\ Calls(u, "dwait", t)
    /\ count' = [count EXCEPT ![t] = @ + 1]
    /\ UNCHANGED <<sched, run, cpuVars, ksdVars, hotVars>>

TaskletDisabled(u, t) ==
    /\ Goes(u, "dwait", "disabled", t) /\ ~run[t]
    /\ UNCHANGED <<taskletVars, cpuVars, ksdVars, hotVars>>

TaskletEnable(u, t) ==
    /\ Goes(u, "disabled", "idle", t)
    /\ count' = [count EXCEPT ![t] = @ - 1]
    /\ UNCHANGED <<sched, run, cpuVars, ksdVars, hotVars>>

\* tasklet_kill, not from a section with bottom halves off: claim the
\* tasklet so that nobody can schedule it, wait for its function, let it go.
TaskletKill(u, t) ==
    /\ op[u].cpu = Null /\ Calls(u, "kill", t)
    /\ UNCHANGED <<taskletVars, cpuVars, ksdVars, hotVars>>

\* Plausible bug: the kill waits for the bit to clear and does not claim it.
KillWaitsOnly(u, t) ==
    /\ Goes(u, "kill", "kwait", t) /\ ~sched[t]
    /\ UNCHANGED <<taskletVars, cpuVars, ksdVars, hotVars>>

KillClaims(u, t) ==
    /\ Goes(u, "kill", "kwait", t) /\ ~sched[t]
    /\ sched' = [sched EXCEPT ![t] = TRUE]
    /\ UNCHANGED <<run, count, cpuVars, ksdVars, hotVars>>

KillUnlockWait(u, t) ==
    /\ Goes(u, "kwait", "kclear", t) /\ ~run[t]
    /\ UNCHANGED <<taskletVars, cpuVars, ksdVars, hotVars>>

KillClears(u, t) ==
    /\ Goes(u, "kclear", "idle", t)
    /\ sched' = [sched EXCEPT ![t] = FALSE]
    /\ UNCHANGED <<run, count, cpuVars, ksdVars, hotVars>>

LocalBhDisable(u, c) ==
    /\ op[u].pc = "idle" /\ op[u].cpu = Null /\ Preemptible(c)
    /\ op' = [op EXCEPT ![u].cpu = c]
    /\ UNCHANGED <<taskletVars, cpuVars, ksdVars, left, hotVars>>

\* Plausible bug: bottom halves are turned on without a look at the mask.
BhEnableOnly(u) ==
    /\ op[u].pc = "idle" /\ op[u].cpu # Null
    /\ op' = [op EXCEPT ![u].cpu = Null]
    /\ UNCHANGED <<taskletVars, cpuVars, ksdVars, left, hotVars>>

LocalBhEnable(u) ==
    /\ op[u].pc = "idle" /\ op[u].cpu # Null
    /\ op' = [op EXCEPT ![u].cpu = Null]
    /\ DoSoftirq(op[u].cpu)
    /\ UNCHANGED <<taskletVars, vec, ksdVars, left, hotVars>>

\* What a task does to end what it has begun
TaskStep(u) ==
    \/ LocalBhEnable(u)
    \/ \E t \in Tasklet :
          \/ TaskletDisabled(u, t) \/ TaskletEnable(u, t)
          \/ KillClaims(u, t) \/ KillUnlockWait(u, t) \/ KillClears(u, t)
          \/ \E c \in Cpu : TaskletPush(u, c, t)

-------------------------------------------------------------------------------
(* A CPU is unplugged                                                      *)

\* stop_machine: no CPU is in a softirq or has preemption off.
CpuDies(c) ==
    /\ hot.pc = "up" /\ c \in CanDie /\ online # {c}
    /\ \A k \in online : Preemptible(k)
    /\ online' = online \ {c}
    /\ hot' = [pc |-> "dead", cpu |-> c]
    /\ UNCHANGED <<taskletVars, cpuVars, ksdVars, taskVars>>

\* CPU_DEAD: kthread_stop of the ksoftirqd, which wakes it
KthreadStop ==
    /\ hot.pc = "dead"
    /\ hot' = [hot EXCEPT !.pc = "stop"]
    /\ Wakeup(hot.cpu)
    /\ UNCHANGED <<taskletVars, cpuVars, kpc, taskVars, online>>

\* takeover_tasklets, on CPU r
TakeoverTasklets(r) ==
    /\ hot.pc = "stop" /\ kpc[hot.cpu] = "exited" /\ Preemptible(r)
    /\ vec' = [vec EXCEPT ![r] = [n \in Nr |-> @[n] \o vec[hot.cpu][n]],
                          ![hot.cpu] = [n \in Nr |-> <<>>]]
    /\ pending' = [pending EXCEPT ![r] = Nr]
    /\ Wakeup(r)
    /\ hot' = [hot EXCEPT !.pc = "gone"]
    /\ UNCHANGED <<taskletVars, soft, kpc, taskVars, online>>

Next ==
    \/ \E c \in Cpu :
          \/ SoftStep(c) \/ KsdStep(c) \/ CpuDies(c) \/ TakeoverTasklets(c)
          \/ HardIrq(c, {})
          \/ \E t \in Tasklet : HardIrq(c, {t}) \/ FuncSchedules(c, t)
    \/ KthreadStop
    \/ \E u \in Task :
          \/ TaskStep(u)
          \/ \E t \in Tasklet : TaskletSchedule(u, t) \/ TaskletDisable(u, t) \/ TaskletKill(u, t)
          \/ \E c \in Cpu : LocalBhDisable(u, c)

\* A softirq that runs goes on.  Threads get the CPU again and again although
\* interrupts and softirqs take it from them: ksoftirqd and the tasks are
\* scheduled fairly, and they end what they have begun.
Fairness ==
    /\ \A c \in Cpu : WF_vars(SoftStep(c)) /\ SF_vars(KsdStep(c)) /\ SF_vars(TakeoverTasklets(c))
    /\ WF_vars(KthreadStop)
    /\ \A u \in Task : SF_vars(TaskStep(u))

Spec == Init /\ [][Next]_vars /\ Fairness

-------------------------------------------------------------------------------
(* Properties                                                              *)

Runs(c, t) == soft[c].pc = "func" /\ Cur(c) = t

\* What is left of the list of frame f, without a tasklet whose function has
\* been called
Rest(f) == IF f.pc = "func" THEN Tail(f.list) ELSE f.list

\* The lists of the CPUs: tasklet_vec, tasklet_hi_vec, and the one that runs
Places == Cpu \X {"HI", "TASKLET", "run"}
Queues == [p \in Places |-> IF p[2] = "run" THEN Rest(soft[p[1]]) ELSE vec[p[1]][p[2]]]

\* A task between its claim and its insertion, or one that kills the tasklet
HoldsClaim(u, t) == op[u].t = t /\ op[u].pc \in {"push", "kwait", "kclear"}

\* Who answers for a tasklet that is scheduled: a place in a list, or a task
InLists(t) ==
    UNION {{<<p, k>> : k \in {j \in DOMAIN Queues[p] : Queues[p][j] = t}} : p \in Places}
Claims(t) == InLists(t) \cup {<<u, 0>> : u \in {v \in Task : HoldsClaim(v, t)}}

\* A tasklet whose SCHED bit is set is claimed exactly once, one whose bit is
\* clear by nobody: t->next is never in two lists, the BUG() of
\* tasklet_action is not reached, and a kill never meets a queued tasklet.
\* The variables keep their types throughout.
ScheduledOnce ==
    /\ TypeOK
    /\ \A t \in Tasklet : Cardinality(Claims(t)) = IF sched[t] THEN 1 ELSE 0

\* "Tasklet is strictly serialized wrt itself", and it does not run between
\* the return of tasklet_disable and tasklet_enable, nor when tasklet_kill
\* lets go of it.
StrictlySerialized ==
    \A t \in Tasklet :
        LET on == {c \in Cpu : Runs(c, t)} IN
        /\ Cardinality(on) <= 1
        /\ (\E u \in Task : op[u].t = t /\ op[u].pc \in {"disabled", "kclear"}) => on = {}

\* Tasklets in a list of a CPU are never forgotten: the softirq is pending
\* there or about to take the list, or the CPU is dead and not yet cleaned
\* up.  And a pending softirq has somebody who will look: the softirq that
\* runs, the task that will turn bottom halves on, or a ksoftirqd that is
\* awake or has yet to read the mask.
NothingStranded ==
    \A c \in Cpu :
        /\ \A n \in Nr : vec[c][n] # <<>> =>
               \/ c \in online /\ n \in pending[c] \cup soft[c].todo
               \/ c = hot.cpu /\ hot.pc \in {"dead", "stop"}
        /\ c \in online /\ pending[c] # {} =>
               InInterrupt(c) \/ kstate[c] = "RUNNING" \/ kpc[c] = "top"

\* "If tasklet_schedule() is called, then tasklet is guaranteed to be
\* executed on some cpu at least once after this", also when it is disabled
\* for a while or when the CPU that has it dies, unless it is killed.
ScheduledRuns ==
    \A t \in Tasklet :
        (sched[t] /\ ~\E u \in Task : op[u].t = t /\ op[u].pc \in {"kwait", "kclear"})
            ~> (\E c \in Cpu : Runs(c, t))
-------------------------------------------------------------------------------
(* The inductive invariant                                                 *)

\* A softirq runs on a CPU that is online and has bottom halves on, one task at
\* a time has them off there, and a frame has a list as long as it runs one.
FrameInv ==
    /\ \A c \in Cpu :
          /\ soft[c].pc = "none" => soft[c].todo = {}
          /\ soft[c].pc # "none" => c \in online /\ ~BhOff(c)
          /\ soft[c].pc \in {"none", "next"} => soft[c].list = <<>>
          /\ soft[c].pc \notin {"none", "next"} => soft[c].nr \in Nr
          /\ soft[c].pc \notin {"none", "next", "list"} => soft[c].list # <<>>
          /\ BhOff(c) => c \in online
    /\ \A u, v \in Task : op[u].cpu = op[v].cpu /\ op[u].cpu # Null => u = v
    /\ hot.pc # "up" => hot.cpu \in Cpu \ online

InQueue(t) == \E p \in Places : \E k \in 1..Len(Queues[p]) : Queues[p][k] = t

\* The claims on a tasklet, place by place
ClaimInv ==
    \A t \in Tasklet :
        /\ \A p, q \in Places : \A j \in 1..Len(Queues[p]), k \in 1..Len(Queues[q]) :
              Queues[p][j] = t /\ Queues[q][k] = t => p = q /\ j = k
        /\ \A u, v \in Task : HoldsClaim(u, t) /\ HoldsClaim(v, t) => u = v
        /\ InQueue(t) => ~\E u \in Task : HoldsClaim(u, t)
        /\ sched[t] <=> InQueue(t) \/ \E u \in Task : HoldsClaim(u, t)

\* A frame that has set TASKLET_STATE_RUN and not yet cleared it
Locks(c, t) == soft[c].pc \in {"count", "clear", "func"} /\ Cur(c) = t

LockInv ==
    \A t \in Tasklet :
        /\ run[t] <=> \E c \in Cpu : Locks(c, t)
        /\ \A c, d \in Cpu : Locks(c, t) /\ Locks(d, t) => c = d

Disabler(t) == {u \in Task : op[u].t = t /\ op[u].pc \in {"dwait", "disabled"}}

\* t->count counts the tasks in tasklet_disable and after it.  No frame has got
\* past the test of the count of a tasklet that is disabled, nor is there one
\* that runs a tasklet whose kill has seen the RUN bit clear.
DisableInv ==
    \A t \in Tasklet :
        /\ count[t] = Cardinality(Disabler(t))
        /\ \A u \in Task, c \in Cpu : op[u].t = t =>
              /\ op[u].pc = "disabled" => ~(soft[c].pc \in {"clear", "func"} /\ Cur(c) = t)
              /\ op[u].pc = "kclear" => ~Runs(c, t)

\* The conjunction that every step preserves
IInv == TypeOK /\ FrameInv /\ ClaimInv /\ LockInv /\ DisableInv /\ NothingStranded
===============================================================================
