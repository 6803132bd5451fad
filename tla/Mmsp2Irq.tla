------------------------------- MODULE Mmsp2Irq -------------------------------
(***************************************************************************)
(* arch/arm/mach-mp2520f/irq.c: the interrupt controller of the MMSP2 and  *)
(* the two demultiplexers chained to it, for the four timers and for the   *)
(* sixteen sources of the four UARTs, with the level flow handler          *)
(* (kernel/irq/chip.c) that every source has.                              *)
(*                                                                         *)
(* There is one CPU.  It takes the pending, unmasked interrupt with the    *)
(* lowest number (entry-macro.S) whenever interrupts are on, and that is   *)
(* also inside the handler of a UART or of a device of the main            *)
(* controller, because those are not IRQF_DISABLED: a handler is           *)
(* interrupted by the demultiplexer that called it.  The stack holds what  *)
(* is active, innermost last.                                              *)
(*                                                                         *)
(* A source is its interrupt number, as in asm-arm/arch-mp25xxf/irqs.h.    *)
(* SRCPEND and INTPEND are always written together and are one set here.   *)
(* The hardware is external: a UART raises its bit of INTSTATREG while it  *)
(* wants service and its enable bit is set, and a pending bit is set again *)
(* for as long as its line is active.  A line that only latched edges      *)
(* would lose what arrives between the read of a status register and the   *)
(* write to INTPEND at the end of a demultiplexer.  The receive interrupt  *)
(* of a UART is taken to hang on UCON_RX_INT: UCON_RX_TIMEOUT, which the   *)
(* mask function leaves set, raises nothing by itself.                     *)
(*                                                                         *)
(* A driver registers and frees its source in a task.  The driver of the   *)
(* UARTs, alone, also disables and enables its lines: in a task, in its    *)
(* own handlers (stop_tx in mp25xxf_tx_int), and in the handler of another *)
(* of its lines (the line discipline, when the tty has low_latency set).   *)
(***************************************************************************)
EXTENDS Integers, Sequences, SequencesExt

CONSTANTS
    Source,     \* the interrupts that have a driver
    MaxEvents   \* bound: requests for service by the devices

IRQ_TIMER == 5
IRQ_UART == 10
IRQ_TIMER_0 == 32
IRQ_UART_TXD0 == 36
MainIrqs == 0 .. 31
Reserved == {3, 4, 21, 22}
TimerIrqs == IRQ_TIMER_0 .. 35
UartIrqs == IRQ_UART_TXD0 .. 51

ASSUME SourceAssumption ==
    /\ Source \subseteq
         (MainIrqs \ (Reserved \cup {IRQ_TIMER, IRQ_UART})) \cup TimerIrqs \cup UartIrqs
    /\ MaxEvents \in Nat

VARIABLES
    INTPEND,    \* the pending interrupts of the main controller
    INTMASK,    \* its masked interrupts
    TSTATUS,    \* the timers that have matched
    TINTEN,     \* the timers whose interrupt is enabled
    INTSTATREG, \* the UART sources that are pending
    UCON,       \* the enable bits of UCON and MCON that are set: <<port, type>>, and
                \* <<port, RX_TIMEOUT>>
    need,       \* need[s]: the device behind s wants service
    action,     \* the sources whose desc->action is set
    disabled,   \* the sources that are IRQ_DISABLED
    stack,      \* the active handlers, innermost last
    events,     \* how often a device has asked for service
    reopened    \* history: the sources that enable_irq has unmasked under their handler

chipVars == <<INTPEND, INTMASK, TSTATUS, TINTEN, INTSTATREG, UCON>>
descVars == <<action, disabled>>
vars == <<chipVars, need, descVars, stack, events, reopened>>

-------------------------------------------------------------------------------
(* The chips.                                                              *)

\* Plausible bug: ports counted from the interrupt number alone.
PortOfNumber(irq) == (irq % 16) \div 4

\* The values of an unsigned short
Short == 0 .. (65536 - 1)

\* port = ((irq & 0xf) >> 2) - 1, an unsigned short
port(irq) == (((irq % 16) \div 4) - 1) % 65536

type(irq) == irq % 4

\* UCON_RX_TIMEOUT, beside the bits of the four types
RX_TIMEOUT == 4
RxType == 1
ModemType == 3   \* its bit is in MCON

\* The enable bit that the hardware looks at for a UART source.
Wired(irq) == <<(irq - IRQ_UART_TXD0) \div 4, (irq - IRQ_UART_TXD0) % 4>>

\* chip->mask.  The timeout of the receiver stays enabled.
Mask(irq) ==
    /\ INTMASK' = IF irq \in MainIrqs THEN INTMASK \cup {irq} ELSE INTMASK
    /\ TINTEN' = TINTEN \ {irq}
    /\ UCON' = IF irq \in UartIrqs THEN UCON \ {<<port(irq), type(irq)>>} ELSE UCON

\* chip->unmask
Unmask(irq) ==
    /\ INTMASK' = INTMASK \ {irq}
    /\ TINTEN' = IF irq \in TimerIrqs THEN TINTEN \cup {irq} ELSE TINTEN
    /\ UCON' = IF irq \notin UartIrqs THEN UCON
               ELSE UCON \cup ({port(irq)} \X ({type(irq)} \cup
                                    (IF type(irq) = RxType THEN {RX_TIMEOUT} ELSE {})))

\* chip->ack.  The registers clear the bits that are written as ones.
Ack(irq) ==
    /\ INTPEND' = INTPEND \ {irq}
    /\ TSTATUS' = TSTATUS \ {irq}
    /\ INTSTATREG' = INTSTATREG \ {irq}

Enabled(s) ==
    /\ s \in MainIrqs => s \notin INTMASK
    /\ s \in TimerIrqs => s \in TINTEN
    /\ s \in UartIrqs => Wired(s) \in UCON

-------------------------------------------------------------------------------
(* mmsp2_init_irq: everything is masked and clear, and the two             *)
(* demultiplexers are chained, which unmasks their interrupts.             *)

Init ==
    /\ INTMASK = MainIrqs \ {IRQ_TIMER, IRQ_UART}
    /\ INTPEND = {} /\ TSTATUS = {} /\ INTSTATREG = {}
    /\ TINTEN = {} /\ UCON = {}
    /\ need = [s \in Source |-> FALSE]
    /\ action = {} /\ disabled = Source
    /\ stack = <<>>
    /\ events = 0
    /\ reopened = {}

Frame(h, irq, todo) == [h |-> h, irq |-> irq, todo |-> todo]
Top == Last(stack)
Pop == Front(stack)

InProgress(s) == \E k \in DOMAIN stack : stack[k].irq = s /\ stack[k].h \in {"run", "done"}

Deliverable == INTPEND \ INTMASK

\* Interrupts are on in a task and in a handler without IRQF_DISABLED.
InterruptsOn ==
    stack # <<>> => Top.h \in {"run", "done"} /\ Top.irq \notin TimerIrqs

Interrupted == InterruptsOn /\ Deliverable # {}

First(S) == CHOOSE n \in S : \A m \in S : n <= m

-------------------------------------------------------------------------------
(* handle_level_irq, and what it is called from.                           *)

\* The locked part before the handler; below is the stack of the callers.
\* A source that is in progress, is disabled or has no action stays masked.
HandleLevelIrq(irq, below) ==
    /\ Mask(irq) /\ Ack(irq)
    /\ stack' = IF irq \in action \ disabled /\ ~InProgress(irq)
                THEN Append(below, Frame("run", irq, {})) ELSE below
    /\ reopened' = reopened \ {irq}

\* __irq_svc and asm_do_IRQ.  A demultiplexer begins by reading its status
\* register.
TakeIrq ==
    /\ Interrupted
    /\ LET irq == First(Deliverable)
       IN  \/ /\ irq = IRQ_TIMER
              /\ stack' = Append(stack, Frame("timer", irq, TSTATUS))
              /\ UNCHANGED <<chipVars, reopened>>
           \/ /\ irq = IRQ_UART
              /\ stack' = Append(stack, Frame("uart", irq, INTSTATREG))
              /\ UNCHANGED <<chipVars, reopened>>
           \/ /\ irq \notin {IRQ_TIMER, IRQ_UART}
              /\ HandleLevelIrq(irq, stack)
    /\ UNCHANGED <<need, descVars, events>>

\* Writing a status register's own value ANDed with a bit clears that bit.
ClearParent(irq) ==
    /\ INTPEND' = INTPEND \ {irq}
    /\ stack' = Pop
    /\ UNCHANGED <<INTMASK, TSTATUS, TINTEN, INTSTATREG, UCON, reopened>>

\* mmsp2_timer_demux_handler: every timer of the mask, then the parent.
TimerDemux ==
    /\ stack # <<>> /\ Top.h = "timer"
    /\ \/ /\ Top.todo # {}
          /\ LET irq == First(Top.todo)
             IN  HandleLevelIrq(irq, Append(Pop, [Top EXCEPT !.todo = @ \ {irq}]))
       \/ Top.todo = {} /\ ClearParent(IRQ_TIMER)
    /\ UNCHANGED <<need, descVars, events>>

\* Plausible bug: the parent is left pending also when nothing is found.
UartDemuxNeverClears ==
    /\ stack # <<>> /\ Top.h = "uart"
    /\ \/ Top.todo # {} /\ HandleLevelIrq(First(Top.todo), Pop)
       \/ Top.todo = {} /\ stack' = Pop /\ UNCHANGED <<chipVars, reopened>>
    /\ UNCHANGED <<need, descVars, events>>

\* mmsp2_uart_demux_handler: the first source of the mask, and the loop is
\* left with the parent pending; the parent is cleared by the entry that
\* finds nothing.
UartDemux ==
    /\ stack # <<>> /\ Top.h = "uart"
    /\ \/ Top.todo # {} /\ HandleLevelIrq(First(Top.todo), Pop)
       \/ Top.todo = {} /\ ClearParent(IRQ_UART)
    /\ UNCHANGED <<need, descVars, events>>

\* handle_IRQ_event: the driver's handler removes the cause.
HandlerServes ==
    /\ stack # <<>> /\ Top.h = "run" /\ ~Interrupted
    /\ need' = [need EXCEPT ![Top.irq] = FALSE]
    /\ stack' = Append(Pop, [Top EXCEPT !.h = "done"])
    /\ UNCHANGED <<chipVars, descVars, events, reopened>>

\* The locked part of handle_level_irq after the handler: a source that has
\* been disabled meanwhile is left as it is.
LevelEnd ==
    /\ stack # <<>> /\ Top.h = "done" /\ ~Interrupted
    /\ \/ Top.irq \notin disabled /\ Unmask(Top.irq)
       \/ Top.irq \in disabled /\ UNCHANGED <<INTMASK, TINTEN, UCON>>
    /\ stack' = Pop
    /\ reopened' = reopened \ {Top.irq}
    /\ UNCHANGED <<INTPEND, TSTATUS, INTSTATREG, need, descVars, events>>

-------------------------------------------------------------------------------
(* The drivers.                                                            *)

\* setup_irq: the first action starts the line up, which unmasks it.
RequestIrq(s) ==
    /\ stack = <<>> /\ ~Interrupted
    /\ s \notin action
    /\ action' = action \cup {s} /\ disabled' = disabled \ {s}
    /\ Unmask(s)
    /\ UNCHANGED <<INTPEND, TSTATUS, INTSTATREG, need, stack, events, reopened>>

\* free_irq: shutdown of these chips does nothing, the source is masked when
\* its next interrupt finds no action.  A match of a timer without a driver
\* is nobody's.
FreeIrq(s) ==
    /\ stack = <<>> /\ ~Interrupted
    /\ s \in action
    /\ action' = action \ {s} /\ disabled' = disabled \cup {s}
    /\ need' = [need EXCEPT ![s] = @ /\ s \notin TimerIrqs]
    /\ UNCHANGED <<chipVars, stack, events, reopened>>

\* The UART driver is called in a task, or in the handler of a UART.
InUartDriver ==
    ~Interrupted /\ (stack # <<>> => Top.h = "run" /\ Top.irq \in UartIrqs)

\* disable_irq, which does not mask these chips and on one CPU does not wait.
\* The driver keeps its calls in pairs (tx_claimed).
DisableIrq(s) ==
    /\ InUartDriver
    /\ s \in UartIrqs \cap action /\ s \notin disabled
    /\ disabled' = disabled \cup {s}
    /\ UNCHANGED <<chipVars, need, action, stack, events, reopened>>

\* enable_irq unmasks the source, even if its handler is active.
EnableIrq(s) ==
    /\ InUartDriver
    /\ s \in UartIrqs \cap action /\ s \in disabled
    /\ disabled' = disabled \ {s}
    /\ Unmask(s)
    /\ reopened' = IF InProgress(s) THEN reopened \cup {s} ELSE reopened
    /\ UNCHANGED <<INTPEND, TSTATUS, INTSTATREG, need, action, stack, events>>

\* mp25xxf_uart_startup writes UCON of port p anew before it requests the
\* lines.  A line that is still requested then is one that the driver had
\* disabled when it shut the port down.
UartStartup(p) ==
    /\ stack = <<>> /\ ~Interrupted
    /\ \A s \in action \cap UartIrqs : Wired(s)[1] = p => s \in disabled
    /\ UCON' = {b \in UCON : b[1] = p => b[2] = ModemType} \cup {<<p, RX_TIMEOUT>>}
    /\ UNCHANGED <<INTPEND, INTMASK, TSTATUS, TINTEN, INTSTATREG, need, descVars, stack,
                   events, reopened>>

-------------------------------------------------------------------------------
(* The hardware.                                                           *)

\* A device wants service; for a timer that is a match.
DeviceAsks(s) ==
    /\ events < MaxEvents
    /\ ~need[s] \/ s \in TimerIrqs
    /\ events' = events + 1
    /\ need' = [need EXCEPT ![s] = s \in action \/ s \notin TimerIrqs]
    /\ TSTATUS' = IF s \in TimerIrqs THEN TSTATUS \cup {s} ELSE TSTATUS
    /\ UNCHANGED <<INTPEND, INTMASK, TINTEN, INTSTATREG, UCON, descVars, stack, reopened>>

UartRaises(s) ==
    /\ s \in UartIrqs /\ need[s] /\ Enabled(s) /\ s \notin INTSTATREG
    /\ INTSTATREG' = INTSTATREG \cup {s}
    /\ UNCHANGED <<INTPEND, INTMASK, TSTATUS, TINTEN, UCON, need, descVars, stack, events,
                   reopened>>

\* The lines of the main controller that are active.
Active ==
    {s \in Source \cap MainIrqs : need[s]}
        \cup (IF TSTATUS \cap TINTEN # {} THEN {IRQ_TIMER} ELSE {})
        \cup (IF INTSTATREG # {} THEN {IRQ_UART} ELSE {})

LineLatches(n) ==
    /\ n \in Active \ INTPEND
    /\ INTPEND' = INTPEND \cup {n}
    /\ UNCHANGED <<INTMASK, TSTATUS, TINTEN, INTSTATREG, UCON, need, descVars, stack, events,
                   reopened>>

-------------------------------------------------------------------------------
Cpu == TakeIrq \/ TimerDemux \/ UartDemux \/ HandlerServes \/ LevelEnd

Next ==
    \/ TakeIrq \/ TimerDemux \/ UartDemux \/ HandlerServes \/ LevelEnd
    \/ \E s \in Source :
          \/ RequestIrq(s) \/ FreeIrq(s) \/ DisableIrq(s) \/ EnableIrq(s)
          \/ DeviceAsks(s) \/ UartRaises(s)
    \/ \E p \in {Wired(s)[1] : s \in Source \cap UartIrqs} : UartStartup(p)
    \/ \E n \in MainIrqs : LineLatches(n)

\* The CPU and the hardware go on, and a handler returns although others interrupt
\* it; drivers and devices need not go on.
Fairness ==
    /\ WF_vars(Cpu) /\ SF_vars(HandlerServes)
    /\ \A s \in Source : WF_vars(UartRaises(s))
    /\ \A n \in MainIrqs : WF_vars(LineLatches(n))

Spec == Init /\ [][Next]_vars /\ Fairness

-------------------------------------------------------------------------------
\* The values the variables take.
TypeOK ==
    /\ INTPEND \subseteq MainIrqs /\ INTMASK \subseteq MainIrqs
    /\ TSTATUS \subseteq Source \cap TimerIrqs /\ TINTEN \subseteq TimerIrqs
    /\ INTSTATREG \subseteq Source \cap UartIrqs
    /\ UCON \subseteq Short \X (0 .. RX_TIMEOUT)
    /\ need \in [Source -> BOOLEAN]
    /\ action \subseteq Source /\ disabled \subseteq Source /\ reopened \subseteq Source
    /\ events \in 0 .. MaxEvents

\* The enable bits of a source whose driver is registered.  While its handler
\* is active it is masked at the hardware, unless enable_irq was called since:
\* the handler runs with interrupts on and its demultiplexer still pending, so
\* a source that the mask misses re-enters for ever.  When no handler is active
\* it is enabled, unless the driver has disabled the line: handle_level_irq,
\* enable_irq and setup_irq leave nobody masked that no one would unmask.
\* The variables keep their types throughout.
EnabledUnlessInProgress ==
    /\ TypeOK
    /\ \A s \in action :
          /\ InProgress(s) => (Enabled(s) <=> s \in reopened)
          /\ InProgress(s) \/ Enabled(s) \/ s \in disabled

\* A device that wants service and keeps its driver is served unless the
\* driver disables the line, and the CPU always comes back to its tasks: no
\* pending bit of a demultiplexer is left behind without a source, none is
\* cleared while a source needs it, and what was masked while the line was
\* disabled is delivered once it is enabled.
AllServed ==
    /\ \A s \in Source :
          (need[s] /\ s \in action \ disabled) ~> (~need[s] \/ s \notin action \ disabled)
    /\ []<>(stack = <<>> /\ Deliverable = {})

-------------------------------------------------------------------------------
(* The inductive invariant                                                 *)

\* Without the sources of UART 3, whose port() is not the one they are wired to.
WithoutUart3 == Source \cap (48 .. 51) = {}

Frames == [h : {"run", "done", "timer", "uart"}, irq : MainIrqs \cup Source, todo : SUBSET Source]

\* A driver's handler in frame f
Serves(f) == f.h \in {"run", "done"}

ActiveIn(st, s) == \E k \in 1 .. Len(st) : st[k].irq = s /\ Serves(st[k])

\* A handler belongs to a driver, of those in A, and none is active twice.
WellFormed(st, A) ==
    /\ st \in Seq(Frames)
    /\ \A k \in 1 .. Len(st) : Serves(st[k]) => st[k].irq \in A
    /\ \A j, k \in 1 .. Len(st) :
          Serves(st[j]) /\ Serves(st[k]) /\ st[j].irq = st[k].irq => j = k

\* The conjunction that every step preserves when Source is without UART 3.
IInv == WellFormed(stack, action) /\ EnabledUnlessInProgress
===============================================================================
