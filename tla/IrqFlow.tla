-------------------------------- MODULE IrqFlow --------------------------------
(***************************************************************************)
(* kernel/irq: one struct irq_desc, the flow handler that runs on it, and  *)
(* the drivers that request, disable, enable and free the line.  The chip  *)
(* is one of the MMSP2 (arch/arm/mach-mp2520f/irq.c): it has ack, mask and *)
(* unmask only, so disable() and shutdown() do nothing and a disabled line *)
(* is masked when the next interrupt arrives.                              *)
(*                                                                         *)
(* A step is one critical section of desc->lock, one call of a handler, or *)
(* what note_interrupt does without the lock.  The flow handler may be     *)
(* entered several times: on the CPUs of an SMP machine, or, on one CPU,   *)
(* nested, because handle_IRQ_event turns interrupts on.                   *)
(***************************************************************************)
EXTENDS Integers, Sequences, FiniteSets, SequencesExt

CONSTANTS
    Dev,             \* the drivers, each with one irqaction and one device
    Hw,              \* entries of the flow handler from the hardware
    Tasklet,         \* its entry from the resend tasklet
    Null,            \* NULL
    Flows,           \* the flow handlers a line may have: "level", "edge"
    Smp,             \* entries and tasks run in parallel
    CanStick,        \* note_interrupt may find the line stuck
    ConcurrentSetup, \* a driver may request the line while another frees it
    MaxHold          \* bound: outstanding disable calls of one driver

ASSUME FlowAssumption ==
    /\ Flows \subseteq {"level", "edge"} /\ MaxHold \in Nat
    /\ Smp \in BOOLEAN /\ CanStick \in BOOLEAN /\ ConcurrentSetup \in BOOLEAN
    /\ CanStick => ~Smp
    /\ IsFiniteSet(Dev) /\ Null \notin Dev

Entry == Hw \cup {Tasklet}

VARIABLES
    handle_irq, \* desc->handle_irq, set when the controller is initialised
    status,     \* desc->status: the set of its flags
    depth,      \* desc->depth
    chain,      \* desc->action: the linked actions, first one first
    gone,       \* gone[d]: the next pointer of an action that is unlinked
    mask,       \* the mask bit of the line in the controller
    latch,      \* its pending bit (SRCPEND)
    req,        \* req[d]: the device wants service
    resend,     \* the bit in irqs_resend
    pc,         \* pc[i]: where entry i of the flow handler is
    cur,        \* cur[i]: action in handle_IRQ_event
    stack,      \* the entries that are active, innermost last (UP only)
    drv,        \* drv[d]: what the driver is doing
    hold,       \* hold[d]: its disable calls that it has not undone
    quiet       \* quiet[d]: its disable_irq has returned

descVars == <<handle_irq, status, depth, chain, gone, resend>>
hwVars == <<mask, latch, req>>
flowVars == <<pc, cur, stack>>
drvVars == <<drv, hold, quiet>>
vars == <<descVars, hwVars, flowVars, drvVars>>

Init ==
    /\ handle_irq \in Flows
    /\ status = {"DISABLED"} /\ depth = 1
    /\ chain = <<>> /\ gone = [d \in Dev |-> Null]
    /\ mask = TRUE /\ latch = FALSE
    /\ req = [d \in Dev |-> FALSE]
    /\ resend = FALSE
    /\ pc = [i \in Entry |-> "out"]
    /\ cur = [i \in Entry |-> Null]
    /\ stack = <<>>
    /\ drv = [d \in Dev |-> "none"]
    /\ hold = [d \in Dev |-> 0]
    /\ quiet = [d \in Dev |-> FALSE]

Linked(d) == \E k \in DOMAIN chain : chain[k] = d

\* Where the walk along the chain finds the action of d
Position(d) == CHOOSE k \in DOMAIN chain : chain[k] = d

\* action->next
NextAction(d) ==
    IF ~Linked(d) THEN gone[d]
    ELSE IF Position(d) = Len(chain) THEN Null ELSE chain[Position(d) + 1]

-------------------------------------------------------------------------------
(* Who may run: on one CPU only the innermost entry, and no task under it. *)

MayRun(i) == Smp \/ (stack # <<>> /\ Last(stack) = i)
TaskMayRun == Smp \/ stack = <<>>

\* Interrupts are on in a task and inside handle_IRQ_event.
IrqsOn == Smp \/ (stack # <<>> => pc[Last(stack)] = "run")

Enter(i) ==
    /\ pc' = [pc EXCEPT ![i] = "entry"]
    /\ stack' = IF Smp THEN stack ELSE Append(stack, i)
    /\ UNCHANGED cur

Leave(i) ==
    /\ pc' = [pc EXCEPT ![i] = "out"]
    /\ cur' = [cur EXCEPT ![i] = Null]
    /\ stack' = IF Smp THEN stack ELSE Front(stack)

\* handle_IRQ_event begins with the first action of the chain.
RunChain(i) ==
    /\ pc' = [pc EXCEPT ![i] = "run"]
    /\ cur' = [cur EXCEPT ![i] = Head(chain)]
    /\ UNCHANGED stack

-------------------------------------------------------------------------------
(* The device, the controller and the CPU *)

Raise(d) ==
    /\ drv[d] \in {"reg", "sync"} /\ ~req[d]
    /\ req' = [req EXCEPT ![d] = TRUE]
    /\ latch' = TRUE
    /\ UNCHANGED <<descVars, mask, flowVars, drvVars>>

\* The line is active: a level as long as a device wants service.
Active == IF handle_irq = "level" THEN \E d \in Dev : req[d] ELSE latch

\* The interrupt is delivered to one CPU.
Deliver(h) ==
    /\ pc[h] = "out" /\ Active /\ ~mask /\ IrqsOn
    /\ \A k \in Hw : pc[k] # "entry"
    /\ Enter(h)
    /\ UNCHANGED <<descVars, hwVars, drvVars>>

\* resend_irqs: the tasklet calls the flow handler without an interrupt.
ResendIrqs ==
    /\ resend /\ pc[Tasklet] = "out" /\ TaskMayRun
    /\ resend' = FALSE
    /\ Enter(Tasklet)
    /\ UNCHANGED <<handle_irq, status, depth, chain, gone, hwVars, drvVars>>

-------------------------------------------------------------------------------
(* handle_level_irq *)

\* Plausible bug: the level flow does not look at IRQ_INPROGRESS.
LevelEntryReenters(i) ==
    /\ handle_irq = "level" /\ pc[i] = "entry" /\ MayRun(i)
    /\ mask' = TRUE /\ latch' = FALSE
    /\ IF "DISABLED" \in status \/ chain = <<>>
       THEN Leave(i) /\ status' = status \ {"REPLAY"}
       ELSE RunChain(i) /\ status' = (status \ {"REPLAY"}) \cup {"INPROGRESS"}
    /\ UNCHANGED <<handle_irq, depth, chain, gone, resend, req, drvVars>>

LevelEntry(i) ==
    /\ handle_irq = "level" /\ pc[i] = "entry" /\ MayRun(i)
    /\ mask' = TRUE /\ latch' = FALSE
    /\ \/ /\ "INPROGRESS" \in status
          /\ Leave(i)
          /\ UNCHANGED status
       \/ /\ "INPROGRESS" \notin status
          /\ IF "DISABLED" \in status \/ chain = <<>>
             THEN Leave(i) /\ status' = status \ {"REPLAY"}
             ELSE RunChain(i) /\ status' = (status \ {"REPLAY"}) \cup {"INPROGRESS"}
    /\ UNCHANGED <<handle_irq, depth, chain, gone, resend, req, drvVars>>

\* Plausible bug: the line stays masked if it was disabled meanwhile or not.
LevelExitMasked(i) ==
    /\ handle_irq = "level" /\ pc[i] = "ran" /\ MayRun(i)
    /\ status' = status \ {"INPROGRESS"}
    /\ Leave(i)
    /\ UNCHANGED <<handle_irq, depth, chain, gone, resend, hwVars, drvVars>>

LevelExit(i) ==
    /\ handle_irq = "level" /\ pc[i] = "ran" /\ MayRun(i)
    /\ status' = status \ {"INPROGRESS"}
    /\ mask' = ("DISABLED" \in status /\ mask)
    /\ Leave(i)
    /\ UNCHANGED <<handle_irq, depth, chain, gone, resend, latch, req, drvVars>>

-------------------------------------------------------------------------------
(* handle_edge_irq *)

\* The head of the do loop, with the flags st: unmask what an interrupt that
\* arrived meanwhile has masked, and call the handlers.  Without an action the
\* loop is left as it is, with IRQ_INPROGRESS set.
EdgeLoop(i, st) ==
    IF chain = <<>>
    THEN mask' = TRUE /\ status' = st /\ Leave(i)
    ELSE LET missed == {"PENDING", "MASKED"} \subseteq st /\ "DISABLED" \notin st
         IN  /\ mask' = (mask /\ ~missed)
             /\ status' = st \ (IF missed THEN {"PENDING", "MASKED"} ELSE {"PENDING"})
             /\ RunChain(i)

\* Plausible bug: an interrupt of a disabled line is not recorded.
EdgeEntryForgets(i) ==
    LET st == status \ {"REPLAY"} IN
    /\ handle_irq = "edge" /\ pc[i] = "entry" /\ MayRun(i)
    /\ latch' = FALSE
    /\ IF st \cap {"INPROGRESS", "DISABLED"} # {} \/ chain = <<>>
       THEN status' = st \cup {"MASKED"} /\ mask' = TRUE /\ Leave(i)
       ELSE EdgeLoop(i, st \cup {"INPROGRESS"})
    /\ UNCHANGED <<handle_irq, depth, chain, gone, resend, req, drvVars>>

EdgeEntry(i) ==
    LET st == status \ {"REPLAY"} IN
    /\ handle_irq = "edge" /\ pc[i] = "entry" /\ MayRun(i)
    /\ latch' = FALSE
    /\ IF st \cap {"INPROGRESS", "DISABLED"} # {} \/ chain = <<>>
       THEN status' = st \cup {"PENDING", "MASKED"} /\ mask' = TRUE /\ Leave(i)
       ELSE EdgeLoop(i, st \cup {"INPROGRESS"})
    /\ UNCHANGED <<handle_irq, depth, chain, gone, resend, req, drvVars>>

\* The condition of the do loop, and its end.
EdgeExit(i) ==
    /\ handle_irq = "edge" /\ pc[i] = "ran" /\ MayRun(i)
    /\ IF "PENDING" \in status /\ "DISABLED" \notin status
       THEN EdgeLoop(i, status)
       ELSE status' = status \ {"INPROGRESS"} /\ Leave(i) /\ UNCHANGED mask
    /\ UNCHANGED <<handle_irq, depth, chain, gone, resend, latch, req, drvVars>>

-------------------------------------------------------------------------------
(* handle_IRQ_event and note_interrupt *)

\* One handler serves its device; then the next action of the chain.
Handler(i) ==
    LET d == cur[i] IN
    /\ pc[i] = "run" /\ MayRun(i)
    /\ req' = [req EXCEPT ![d] = FALSE]
    /\ cur' = [cur EXCEPT ![i] = NextAction(d)]
    /\ pc' = [pc EXCEPT ![i] = IF NextAction(d) = Null THEN "ran" ELSE "run"]
    /\ UNCHANGED <<descVars, mask, latch, stack, drvVars>>

\* disable_irq_nosync: nested; chip->disable() is default_disable.
DisableNosync(d) ==
    /\ hold[d] < MaxHold
    /\ hold' = [hold EXCEPT ![d] = @ + 1]
    /\ depth' = depth + 1
    /\ status' = IF depth = 0 THEN status \cup {"DISABLED"} ELSE status

\* A handler disables its own line.
HandlerDisables(i) ==
    /\ pc[i] = "run" /\ MayRun(i) /\ drv[cur[i]] = "reg"
    /\ DisableNosync(cur[i])
    /\ UNCHANGED <<handle_irq, chain, gone, resend, hwVars, flowVars, drv, quiet>>

\* note_interrupt has counted 100000 interrupts, most of them unhandled: the
\* line is killed.  The counters are left out.  desc->lock is not held: the
\* update is one step because one CPU runs it with interrupts off, so CanStick
\* is for runs with Smp = FALSE.
KillIrq(i) ==
    /\ CanStick /\ pc[i] = "ran" /\ MayRun(i)
    /\ status' = status \cup {"DISABLED"}
    /\ depth' = 1
    /\ UNCHANGED <<handle_irq, chain, gone, resend, hwVars, flowVars, drvVars>>

-------------------------------------------------------------------------------
(* The driver interface *)

\* default_enable: unmask the line, clear IRQ_MASKED.  check_irq_resend then
\* stores the flags it has read before, IRQ_MASKED among them.
CheckIrqResend(st) ==
    /\ mask' = FALSE
    /\ IF "PENDING" \in st /\ "REPLAY" \notin st
       THEN status' = (st \ {"PENDING"}) \cup {"REPLAY"} /\ resend' = TRUE
       ELSE status' = st \ {"MASKED"} /\ UNCHANGED resend

\* enable_irq: depth 0 is the unbalanced enable that only warns.
Enable(d) ==
    /\ hold[d] > 0
    /\ hold' = [hold EXCEPT ![d] = @ - 1]
    /\ quiet' = [quiet EXCEPT ![d] = @ /\ hold[d] > 1]
    /\ IF depth = 1
       THEN CheckIrqResend(status \ {"DISABLED"})
       ELSE UNCHANGED <<mask, status, resend>>
    /\ depth' = IF depth = 0 THEN 0 ELSE depth - 1

EnableIrq(d) ==
    /\ drv[d] = "reg" /\ TaskMayRun
    /\ Enable(d)
    /\ UNCHANGED <<handle_irq, chain, gone, latch, req, flowVars, drv>>

\* A handler enables its own line again.
HandlerEnables(i) ==
    /\ pc[i] = "run" /\ MayRun(i) /\ drv[cur[i]] = "reg"
    /\ Enable(cur[i])
    /\ UNCHANGED <<handle_irq, chain, gone, latch, req, flowVars, drv>>

\* The first action resets the line; default_startup enables and unmasks it.
StartUp ==
    /\ status' = status \ {"INPROGRESS", "DISABLED", "MASKED"}
    /\ depth' = 0
    /\ mask' = FALSE

\* request_irq and setup_irq.  The first action of a line starts it up; a shared
\* one only joins the chain.  A mismatch of the flags changes nothing and is left
\* out, and so is the call of the handler that CONFIG_DEBUG_SHIRQ adds, here and
\* in free_irq: the device is silent then.
RequestIrq(d) ==
    /\ drv[d] = "none" /\ TaskMayRun
    /\ ConcurrentSetup \/ \A e \in Dev : drv[e] # "free"
    /\ chain' = Append(chain, d)
    /\ drv' = [drv EXCEPT ![d] = "reg"]
    /\ IF chain = <<>> THEN StartUp ELSE UNCHANGED <<status, depth, mask>>
    /\ UNCHANGED <<handle_irq, gone, resend, latch, req, flowVars, hold, quiet>>

\* disable_irq, and the synchronize_irq in it.
DisableIrq(d) ==
    /\ drv[d] = "reg" /\ TaskMayRun
    /\ DisableNosync(d)
    /\ drv' = [drv EXCEPT ![d] = "sync"]
    /\ UNCHANGED <<handle_irq, chain, gone, resend, hwVars, flowVars, quiet>>

\* Plausible bug: nobody waits for the handlers that run.
NoSynchronizeIrq == TRUE

\* synchronize_irq: on one CPU no handler can be running here.
SynchronizeIrq == ~Smp \/ "INPROGRESS" \notin status

DisableIrqReturns(d) ==
    /\ drv[d] = "sync" /\ TaskMayRun /\ SynchronizeIrq
    /\ drv' = [drv EXCEPT ![d] = "reg"]
    /\ quiet' = [quiet EXCEPT ![d] = TRUE]
    /\ UNCHANGED <<descVars, hwVars, flowVars, hold>>

\* free_irq unlinks the action.  A driver has silenced its device, and leaves
\* a line that others share enabled.
FreeIrq(d) ==
    /\ drv[d] = "reg" /\ TaskMayRun /\ (hold[d] = 0 \/ chain = <<d>>)
    /\ chain' = RemoveAt(chain, Position(d))
    /\ gone' = [gone EXCEPT ![d] = NextAction(d)]
    /\ status' = IF chain' = <<>> THEN status \cup {"DISABLED"} ELSE status
    /\ req' = [req EXCEPT ![d] = FALSE]
    /\ hold' = [hold EXCEPT ![d] = 0]
    /\ quiet' = [quiet EXCEPT ![d] = FALSE]
    /\ drv' = [drv EXCEPT ![d] = "free"]
    /\ UNCHANGED <<handle_irq, depth, resend, mask, latch, flowVars>>

\* After synchronize_irq the action is freed.
FreeIrqReturns(d) ==
    /\ drv[d] = "free" /\ TaskMayRun /\ SynchronizeIrq
    /\ drv' = [drv EXCEPT ![d] = "none"]
    /\ gone' = [gone EXCEPT ![d] = Null]
    /\ UNCHANGED <<handle_irq, status, depth, chain, resend, hwVars, flowVars, hold, quiet>>

-------------------------------------------------------------------------------
FlowStep(i) ==
    LevelEntry(i) \/ LevelExit(i) \/ EdgeEntry(i) \/ EdgeExit(i) \/ Handler(i)

Next ==
    \/ \E h \in Hw : Deliver(h)
    \/ ResendIrqs
    \/ \E i \in Entry : FlowStep(i) \/ HandlerDisables(i) \/ HandlerEnables(i) \/ KillIrq(i)
    \/ \E d \in Dev :
         \/ Raise(d) \/ RequestIrq(d) \/ DisableIrq(d) \/ DisableIrqReturns(d)
         \/ EnableIrq(d) \/ FreeIrq(d) \/ FreeIrqReturns(d)

Safety == Init /\ [][Next]_vars

(***************************************************************************)
(* Interrupts are delivered, handlers return, the tasklet runs and a       *)
(* driver inside the interrupt code goes on.                               *)
(***************************************************************************)
Fairness ==
    /\ WF_vars(\E h \in Hw : Deliver(h))
    /\ WF_vars(ResendIrqs)
    /\ \A i \in Entry : WF_vars(FlowStep(i))
    /\ \A d \in Dev : SF_vars(DisableIrqReturns(d)) /\ SF_vars(FreeIrqReturns(d))

Spec == Safety /\ Fairness

-------------------------------------------------------------------------------
Flags == {"DISABLED", "INPROGRESS", "PENDING", "REPLAY", "MASKED"}

\* The types of the fields of struct irq_desc; the chain holds each registered
\* action once, and a call depth that is not zero is IRQ_DISABLED.
TypeOK ==
    /\ handle_irq \in Flows
    /\ status \subseteq Flags /\ depth \in Nat
    /\ chain \in Seq(Dev) /\ IsInjective(chain)
    /\ \A d \in Dev : Linked(d) <=> drv[d] \in {"reg", "sync"}
    /\ gone \in [Dev -> Dev \cup {Null}]
    /\ mask \in BOOLEAN /\ latch \in BOOLEAN /\ req \in [Dev -> BOOLEAN] /\ resend \in BOOLEAN
    /\ pc \in [Entry -> {"out", "entry", "run", "ran"}]
    /\ cur \in [Entry -> Dev \cup {Null}]
    /\ stack \in Seq(Entry)
    /\ drv \in [Dev -> {"none", "reg", "sync", "free"}]
    /\ hold \in [Dev -> 0..MaxHold] /\ quiet \in [Dev -> BOOLEAN]
    /\ chain # <<>> => (depth > 0 <=> "DISABLED" \in status)

Running(i) == pc[i] \in {"run", "ran"}

\* IRQ_INPROGRESS: "IRQ handler active - do not enter": the handlers of a line
\* never run twice at a time, although the line is delivered again.
\* The variables keep their types throughout.
Serialized ==
    /\ TypeOK
    /\ \A i, j \in Entry : Running(i) /\ Running(j) => i = j
    /\ \A i \in Entry : Running(i) => "INPROGRESS" \in status

\* free_irq "does not return until any executing interrupts for this IRQ have
\* completed": the action a flow handler is at has not been freed.
FreeIsSync == \A i \in Entry : pc[i] = "run" => drv[cur[i]] # "none"

\* disable_irq "waits for any pending IRQ handlers for this interrupt to
\* complete", and "Enables and Disables are nested": whatever the other drivers
\* of a shared line do, no handler runs from its return to the enable_irq.
DisableHolds ==
    \A d \in Dev : quiet[d] => \A i \in Entry : ~Running(i)

\* A line that is enabled and has an action is not left masked: whoever masked
\* it is still there to unmask it.
NotLeftMasked ==
    (chain # <<>> /\ "DISABLED" \notin status /\ mask) => "INPROGRESS" \in status

\* An interrupt is not lost, whether it came while the line was disabled,
\* masked, or while the handlers ran: a device of a line that stays enabled is
\* served again and again.
NothingLost ==
    \A d \in Dev :
      <>[](drv[d] = "reg" /\ "DISABLED" \notin status) => []<>(~req[d])
-------------------------------------------------------------------------------
(* The inductive invariant                                                 *)

\* On several CPUs, no driver requests the line while another one frees it.
OrderlySetup == Smp => ~ConcurrentSetup

\* On one CPU the entries that are active are those of the stack, each once.
StackInv ==
    ~Smp => /\ \A i \in Entry : pc[i] # "out" <=> \E k \in 1..Len(stack) : stack[k] = i
            /\ \A j, k \in 1..Len(stack) : stack[j] = stack[k] => j = k

\* A set of actions that are not freed and that action->next does not leave
Reachable(R) ==
    \A d \in R : drv[d] # "none" /\ (NextAction(d) = Null \/ NextAction(d) \in R)

\* While handlers run the line has a driver, and all that a walk along the
\* chain can still reach is there, unlinked or not.
RunInv ==
    \A i \in Entry :
        /\ Running(i) => \E d \in Dev : drv[d] # "none"
        /\ pc[i] = "run" => \E R \in SUBSET Dev : cur[i] \in R /\ Reachable(R)

\* The disable calls that have not been undone, one by one
Tokens == {x \in Dev \X (1..MaxHold) : x[2] <= hold[x[1]]}

\* depth counts them, unless note_interrupt has killed the line.
HoldInv ==
    /\ \A d \in Dev :
          /\ hold[d] > 0 => drv[d] \in {"reg", "sync"}
          /\ drv[d] = "sync" \/ quiet[d] => hold[d] > 0
    /\ ~CanStick /\ chain # <<>> => depth = Cardinality(Tokens)

\* An enabled line with the edge flow is masked only by an interrupt that came
\* while the handlers ran, which the end of the loop will find.
MaskInv ==
    (handle_irq = "edge" /\ chain # <<>> /\ "DISABLED" \notin status /\ mask)
        => {"PENDING", "MASKED"} \subseteq status

\* The conjunction that every step preserves under OrderlySetup.
IInv ==
    /\ Serialized /\ StackInv /\ RunInv /\ HoldInv
    /\ ~CanStick => DisableHolds
    /\ MaskInv /\ NotLeftMasked
===============================================================================
