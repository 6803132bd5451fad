---------------------------- MODULE Mmsp2IrqProofs ----------------------------
(***************************************************************************)
(* TLAPS proofs about Mmsp2Irq for every set of sources without UART 3:    *)
(* main controller, timers and UARTs 0 to 2 in any combination.            *)
(***************************************************************************)
EXTENDS Mmsp2Irq, SequenceTheorems, WellFoundedInduction, TLAPS

\* The lowest pending interrupt is one of the pending ones.
LEMMA FirstIn ==
    ASSUME NEW S \in SUBSET Nat, S # {}
    PROVE  First(S) \in S
  <1>1. PICK n \in S : \A m \in S : ~(<<m, n>> \in OpToRel(<, Nat))
    BY WFMin, NatLessThanWellFounded
  <1>2. \A m \in S : n <= m
    <2>. SUFFICES ASSUME NEW m \in S, m < n PROVE FALSE
      OBVIOUS
    <2>1. <<m, n>> \in OpToRel(<, Nat)
      <3>1. <<m, n>> \in Nat \X Nat /\ <<m, n>>[1] = m /\ <<m, n>>[2] = n
        OBVIOUS
      <3>. QED BY <3>1 DEF OpToRel
    <2>. QED BY <2>1, <1>1
  <1>. QED BY <1>2 DEF First

\* What Front and Last leave of a sequence that is not empty.
LEMMA FrontLast ==
    ASSUME NEW S, NEW s \in Seq(S), s # <<>>
    PROVE  /\ Front(s) \in Seq(S) /\ Len(s) \in Nat \ {0} /\ Len(Front(s)) = Len(s) - 1
           /\ \A i \in 1 .. Len(s) - 1 : Front(s)[i] = s[i]
           /\ Last(s) = s[Len(s)] /\ Last(s) \in S
  <1>1. PICK n \in Nat : n = Len(s) /\ n # 0
    OBVIOUS
  <1>2. \A i \in 1 .. n : s[i] \in S
    BY <1>1
  <1>3. PICK m \in Nat : m = n - 1
    BY <1>1
  <1>4. /\ Front(s) \in Seq(S) /\ Len(Front(s)) = IF 1 <= m THEN m - 1 + 1 ELSE 0
        /\ \A i \in 1 .. m - 1 + 1 : Front(s)[i] = s[1 + i - 1]
    BY <1>1, <1>2, <1>3, SubSeqProperties DEF Front
  <1>5. Len(Front(s)) = m /\ \A i \in 1 .. m : Front(s)[i] = s[i]
    BY <1>4
  <1>6. Last(s) = s[n] /\ n \in 1 .. n
    BY <1>1 DEF Last
  <1>. QED BY <1>1, <1>2, <1>3, <1>4, <1>5, <1>6

\* A frame is pushed on the stack: it is active besides those that were.
LEMMA Push ==
    ASSUME NEW A, NEW st, WellFormed(st, A), NEW f \in Frames,
           Serves(f) => f.irq \in A /\ ~ActiveIn(st, f.irq)
    PROVE  /\ WellFormed(Append(st, f), A)
           /\ \A s : ActiveIn(Append(st, f), s) <=> ActiveIn(st, s) \/ (Serves(f) /\ f.irq = s)
  <1>. USE DEF WellFormed
  <1>1. PICK q : q = Append(st, f)
    OBVIOUS
  <1>2. /\ q \in Seq(Frames) /\ Len(st) \in Nat /\ Len(q) = Len(st) + 1 /\ q[Len(st) + 1] = f
        /\ \A i \in 1 .. Len(st) : q[i] = st[i]
    BY <1>1
  <1>3. \A k \in 1 .. Len(q) : (k = Len(st) + 1 /\ q[k] = f) \/ (k \in 1 .. Len(st) /\ q[k] = st[k])
    BY <1>2
  <1>4. \A k \in 1 .. Len(q) : Serves(q[k]) => q[k].irq \in A
    BY <1>3
  <1>5. \A j, k \in 1 .. Len(q) : Serves(q[j]) /\ Serves(q[k]) /\ q[j].irq = q[k].irq => j = k
    BY <1>3 DEF ActiveIn
  <1>6. ASSUME NEW s PROVE ActiveIn(q, s) <=> ActiveIn(st, s) \/ (Serves(f) /\ f.irq = s)
    <2>1. ActiveIn(q, s) => ActiveIn(st, s) \/ (Serves(f) /\ f.irq = s)
      BY <1>3 DEF ActiveIn
    <2>2. ActiveIn(st, s) => ActiveIn(q, s)
      <3>. SUFFICES ASSUME NEW k \in 1 .. Len(st), st[k].irq = s, Serves(st[k]) PROVE ActiveIn(q, s)
        BY DEF ActiveIn
      <3>1. k \in 1 .. Len(q) /\ q[k] = st[k]
        BY <1>2
      <3>. QED BY <3>1 DEF ActiveIn
    <2>3. Serves(f) /\ f.irq = s => ActiveIn(q, s)
      <3>1. Len(st) + 1 \in 1 .. Len(q)
        BY <1>2
      <3>. QED BY <3>1, <1>2 DEF ActiveIn
    <2>. QED BY <2>1, <2>2, <2>3
  <1>. QED BY <1>1, <1>2, <1>4, <1>5, <1>6

\* The innermost frame is popped: it was active nowhere else.
LEMMA PopTop ==
    ASSUME NEW A, NEW st, WellFormed(st, A), st # <<>>
    PROVE  /\ Last(st) \in Frames /\ WellFormed(Front(st), A)
           /\ \A s : ActiveIn(st, s) <=> ActiveIn(Front(st), s) \/ (Serves(Last(st)) /\ Last(st).irq = s)
           /\ Serves(Last(st)) => Last(st).irq \in A /\ ~ActiveIn(Front(st), Last(st).irq)
  <1>. USE DEF WellFormed
  <1>1. PICK q, l : q = Front(st) /\ l = Last(st)
    OBVIOUS
  <1>2. /\ q \in Seq(Frames) /\ Len(st) \in Nat \ {0} /\ Len(q) = Len(st) - 1
        /\ \A i \in 1 .. Len(st) - 1 : q[i] = st[i]
        /\ l = st[Len(st)] /\ l \in Frames
    BY <1>1, FrontLast
  <1>3. /\ \A k \in 1 .. Len(q) : k \in 1 .. Len(st) /\ k # Len(st) /\ q[k] = st[k]
        /\ \A k \in 1 .. Len(st) : k = Len(st) \/ k \in 1 .. Len(q)
        /\ Len(st) \in 1 .. Len(st)
    BY <1>2
  <1>4. /\ \A k \in 1 .. Len(q) : Serves(q[k]) => q[k].irq \in A
        /\ \A j, k \in 1 .. Len(q) : Serves(q[j]) /\ Serves(q[k]) /\ q[j].irq = q[k].irq => j = k
    BY <1>3
  <1>5. ASSUME NEW s PROVE ActiveIn(st, s) <=> ActiveIn(q, s) \/ (Serves(l) /\ l.irq = s)
    BY <1>2, <1>3 DEF ActiveIn
  <1>6. Serves(l) => l.irq \in A /\ ~ActiveIn(q, l.irq)
    BY <1>2, <1>3 DEF ActiveIn
  <1>. QED BY <1>1, <1>2, <1>4, <1>5, <1>6

-------------------------------------------------------------------------------
(* The chips *)

\* port() and type() name the enable bit that the hardware looks at, and no
\* two sources share it.
LEMMA UartBits ==
    /\ \A i \in 36 .. 47 : /\ <<port(i), type(i)>> = Wired(i) /\ Wired(i) \in Short \X (0 .. 3)
                           /\ port(i) \in Short /\ type(i) \in 0 .. 3
    /\ \A i, j \in 36 .. 47 : Wired(i) = Wired(j) => i = j
  <1>1. \A i \in 36 .. 47 : <<port(i), type(i)>> = Wired(i)
    BY DEF Wired, port, type, IRQ_UART_TXD0
  <1>2. \A i \in 36 .. 47 : Wired(i) \in Short \X (0 .. 3)
    <2>. SUFFICES ASSUME NEW i \in 36 .. 47 PROVE Wired(i) \in Short \X (0 .. 3)
      OBVIOUS
    <2>1. (i - 36) \div 4 \in 0 .. 2 /\ (i - 36) % 4 \in 0 .. 3
      OBVIOUS
    <2>2. 0 .. 2 \subseteq Short
      BY DEF Short
    <2>. QED BY <2>1, <2>2 DEF Wired, IRQ_UART_TXD0
  <1>3. \A i, j \in 36 .. 47 : Wired(i) = Wired(j) => i = j
    BY DEF Wired, IRQ_UART_TXD0
  <1>4. \A i \in 36 .. 47 : port(i) \in Short /\ type(i) \in 0 .. 3
    BY <1>1, <1>2
  <1>. QED BY <1>1, <1>2, <1>3, <1>4

\* A source belongs to one chip.
LEMMA SourceKind ==
    ASSUME WithoutUart3
    PROVE  \A s \in Source :
             \/ s \in MainIrqs /\ s \notin TimerIrqs /\ s \notin UartIrqs
             \/ s \notin MainIrqs /\ s \in TimerIrqs /\ s \notin UartIrqs
             \/ s \notin MainIrqs /\ s \notin TimerIrqs /\ s \in UartIrqs /\ s \in 36 .. 47
  BY SourceAssumption DEF WithoutUart3, MainIrqs, TimerIrqs, UartIrqs, IRQ_TIMER_0, IRQ_UART_TXD0

\* chip->mask disables its source and no other.
LEMMA MaskStep ==
    ASSUME WithoutUart3, TypeOK, NEW irq \in MainIrqs \cup Source, Mask(irq)
    PROVE  /\ INTMASK' \subseteq MainIrqs /\ TINTEN' \subseteq TimerIrqs
           /\ UCON' \subseteq Short \X (0 .. RX_TIMEOUT)
           /\ \A s \in Source : s # irq => (Enabled(s)' <=> Enabled(s))
           /\ irq \in Source => ~Enabled(irq)'
  <1>1. irq \in MainIrqs => irq \notin TimerIrqs /\ irq \notin UartIrqs
    BY DEF MainIrqs, TimerIrqs, UartIrqs, IRQ_TIMER_0, IRQ_UART_TXD0
  <1>2. INTMASK' \subseteq MainIrqs /\ TINTEN' \subseteq TimerIrqs /\ UCON' \subseteq Short \X (0 .. RX_TIMEOUT)
    BY DEF Mask, TypeOK
  <1>3. ASSUME NEW s \in Source, s # irq PROVE Enabled(s)' <=> Enabled(s)
    <2>1. CASE s \in MainIrqs /\ s \notin TimerIrqs /\ s \notin UartIrqs
      BY <2>1, <1>3 DEF Mask, Enabled
    <2>2. CASE s \in TimerIrqs /\ s \notin MainIrqs /\ s \notin UartIrqs
      BY <2>2, <1>3 DEF Mask, Enabled
    <2>3. CASE s \in UartIrqs /\ s \notin TimerIrqs /\ s \notin MainIrqs /\ s \in 36 .. 47
      <3>1. irq \in UartIrqs => irq \in 36 .. 47
        BY <1>1, SourceKind
      <3>2. irq \in UartIrqs => <<port(irq), type(irq)>> # Wired(s)
        BY <3>1, <2>3, <1>3, UartBits
      <3>. QED BY <3>2, <2>3 DEF Mask, Enabled
    <2>. QED BY <2>1, <2>2, <2>3, SourceKind
  <1>4. ASSUME irq \in Source PROVE ~Enabled(irq)'
    <2>1. CASE irq \in MainIrqs /\ irq \notin TimerIrqs /\ irq \notin UartIrqs
      BY <2>1, <1>1 DEF Mask, Enabled
    <2>2. CASE irq \in TimerIrqs /\ irq \notin MainIrqs /\ irq \notin UartIrqs
      BY <2>2 DEF Mask, Enabled
    <2>3. CASE irq \in UartIrqs /\ irq \notin TimerIrqs /\ irq \notin MainIrqs /\ irq \in 36 .. 47
      BY <2>3, UartBits DEF Mask, Enabled
    <2>. QED BY <1>4, <2>1, <2>2, <2>3, SourceKind
  <1>. QED BY <1>2, <1>3, <1>4

\* chip->unmask enables its source and no other.
LEMMA UnmaskStep ==
    ASSUME WithoutUart3, TypeOK, NEW irq \in Source, Unmask(irq)
    PROVE  /\ INTMASK' \subseteq MainIrqs /\ TINTEN' \subseteq TimerIrqs
           /\ UCON' \subseteq Short \X (0 .. RX_TIMEOUT)
           /\ \A s \in Source : s # irq => (Enabled(s)' <=> Enabled(s))
           /\ Enabled(irq)'
  <1>. DEFINE more == IF type(irq) = RxType THEN {RX_TIMEOUT} ELSE {}
              new == {port(irq)} \X ({type(irq)} \cup more)
  <1>1. irq \in UartIrqs => irq \in 36 .. 47 /\ <<port(irq), type(irq)>> = Wired(irq)
                            /\ port(irq) \in Short /\ type(irq) \in 0 .. 3
    BY SourceKind, UartBits
  <1>5. irq \in UartIrqs => /\ UCON' = UCON \cup new /\ new \subseteq Short \X (0 .. RX_TIMEOUT)
                            /\ <<port(irq), type(irq)>> \in new
                            /\ \A b \in new : b = <<port(irq), type(irq)>> \/ b[2] = 4
    <2>1. irq \in UartIrqs => UCON' = UCON \cup new
      BY DEF Unmask
    <2>2. irq \in UartIrqs => new \subseteq Short \X (0 .. RX_TIMEOUT)
      BY <1>1 DEF RX_TIMEOUT
    <2>3. \A b \in new : b = <<port(irq), type(irq)>> \/ b[2] = 4
      BY DEF RX_TIMEOUT
    <2>. QED BY <2>1, <2>2, <2>3
  <1>6. irq \notin UartIrqs => UCON' = UCON
    BY DEF Unmask
  <1>. HIDE DEF new
  <1>2. INTMASK' \subseteq MainIrqs /\ TINTEN' \subseteq TimerIrqs /\ UCON' \subseteq Short \X (0 .. RX_TIMEOUT)
    BY <1>5, <1>6 DEF Unmask, TypeOK
  <1>3. ASSUME NEW s \in Source, s # irq PROVE Enabled(s)' <=> Enabled(s)
    <2>1. CASE s \in MainIrqs /\ s \notin TimerIrqs /\ s \notin UartIrqs
      BY <2>1, <1>3 DEF Unmask, Enabled
    <2>2. CASE s \in TimerIrqs /\ s \notin MainIrqs /\ s \notin UartIrqs
      BY <2>2, <1>3 DEF Unmask, Enabled
    <2>3. CASE s \in UartIrqs /\ s \notin TimerIrqs /\ s \notin MainIrqs /\ s \in 36 .. 47
      <3>1. irq \in UartIrqs => <<port(irq), type(irq)>> # Wired(s)
        BY <1>1, <2>3, <1>3, UartBits
      <3>2. Wired(s)[2] # 4
        BY <2>3, UartBits
      <3>3. Wired(s) \in UCON' <=> Wired(s) \in UCON
        BY <1>5, <1>6, <3>1, <3>2
      <3>. QED BY <3>3, <2>3 DEF Enabled
    <2>. QED BY <2>1, <2>2, <2>3, SourceKind
  <1>4. Enabled(irq)'
    <2>1. CASE irq \in MainIrqs /\ irq \notin TimerIrqs /\ irq \notin UartIrqs
      BY <2>1 DEF Unmask, Enabled
    <2>2. CASE irq \in TimerIrqs /\ irq \notin MainIrqs /\ irq \notin UartIrqs
      BY <2>2 DEF Unmask, Enabled
    <2>3. CASE irq \in UartIrqs /\ irq \notin TimerIrqs /\ irq \notin MainIrqs /\ irq \in 36 .. 47
      BY <2>3, <1>1, <1>5 DEF Enabled
    <2>. QED BY <2>1, <2>2, <2>3, SourceKind
  <1>. QED BY <1>2, <1>3, <1>4

-------------------------------------------------------------------------------
(* The steps *)

\* Enable bits that fit the active handlers of stack st, with the sources D
\* disabled and R unmasked under their handler
Fits(st, A, D, R) ==
    \A s \in A : /\ ActiveIn(st, s) => (Enabled(s) <=> s \in R)
                 /\ ActiveIn(st, s) \/ Enabled(s) \/ s \in D

\* The invariant in terms of ActiveIn.
LEMMA InvParts ==
    ASSUME WellFormed(stack, action)
    PROVE  /\ \A s : InProgress(s) <=> ActiveIn(stack, s)
           /\ IInv <=> TypeOK /\ Fits(stack, action, disabled, reopened)
  <1>1. \A s : InProgress(s) <=> ActiveIn(stack, s)
    BY DEF InProgress, ActiveIn, Serves, WellFormed
  <1>. QED BY <1>1 DEF IInv, EnabledUnlessInProgress, Fits

\* The same after a step.
LEMMA InvPartsPrime ==
    ASSUME WellFormed(stack', action'), TypeOK',
           \A s \in action' : /\ ActiveIn(stack', s) => (Enabled(s)' <=> s \in reopened')
                              /\ ActiveIn(stack', s) \/ Enabled(s)' \/ s \in disabled'
    PROVE  IInv'
  <1>1. \A s : InProgress(s)' <=> ActiveIn(stack', s)
    BY DEF InProgress, ActiveIn, Serves, WellFormed
  <1>2. EnabledUnlessInProgress'
    BY <1>1 DEF EnabledUnlessInProgress
  <1>. QED BY <1>2 DEF IInv

\* handle_level_irq up to the handler, called on a stack with the same active
\* handlers: the source is masked, and its handler becomes active unless it
\* already is, or the line is disabled or has none.
LEMMA HandleLevelIrqInv ==
    ASSUME WithoutUart3, IInv, NEW irq \in MainIrqs \cup Source, NEW below,
           WellFormed(below, action), \A s : ActiveIn(below, s) <=> ActiveIn(stack, s),
           HandleLevelIrq(irq, below), UNCHANGED <<need, descVars, events>>
    PROVE  IInv'
  <1>1. /\ Mask(irq) /\ Ack(irq) /\ action \subseteq Source /\ TypeOK
        /\ WellFormed(stack, action) /\ reopened' = reopened \ {irq}
        /\ action' = action /\ disabled' = disabled /\ need' = need /\ events' = events
    BY DEF HandleLevelIrq, TypeOK, IInv, EnabledUnlessInProgress, descVars
  <1>2. TypeOK'
    BY <1>1, MaskStep DEF Ack, TypeOK
  <1>3. /\ \A s : InProgress(s) <=> ActiveIn(stack, s)
        /\ Fits(stack, action, disabled, reopened)
    BY <1>1, InvParts
  <1>4. CASE irq \in action \ disabled /\ ~InProgress(irq)
    <2>1. PICK f \in Frames : f = Frame("run", irq, {})
      BY DEF Frame, Frames
    <2>2. Serves(f) /\ f.irq = irq /\ stack' = Append(below, f)
      BY <1>4, <2>1 DEF Frame, Serves, HandleLevelIrq
    <2>3. /\ WellFormed(stack', action)
          /\ \A s : ActiveIn(stack', s) <=> ActiveIn(stack, s) \/ s = irq
      BY <1>3, <1>4, <2>2, Push
    <2>4. ASSUME NEW s \in action
          PROVE  /\ ActiveIn(stack', s) => (Enabled(s)' <=> s \in reopened')
                 /\ ActiveIn(stack', s) \/ Enabled(s)' \/ s \in disabled'
      BY <1>1, <1>3, <2>3, MaskStep DEF Fits
    <2>. QED BY <1>1, <1>2, <2>3, <2>4, InvPartsPrime
  <1>5. CASE ~(irq \in action \ disabled /\ ~InProgress(irq))
    <2>1. stack' = below /\ \A s : ActiveIn(stack', s) <=> ActiveIn(stack, s)
      BY <1>5 DEF HandleLevelIrq
    <2>2. ASSUME NEW s \in action
          PROVE  /\ ActiveIn(stack', s) => (Enabled(s)' <=> s \in reopened')
                 /\ ActiveIn(stack', s) \/ Enabled(s)' \/ s \in disabled'
      BY <1>1, <1>3, <1>5, <2>1, MaskStep DEF Fits
    <2>. QED BY <1>1, <1>2, <2>1, <2>2, InvPartsPrime
  <1>. QED BY <1>4, <1>5

\* The stack changes and the same handlers stay active, with the sources as
\* they were; a line may be disabled.
LEMMA SameActiveInv ==
    ASSUME IInv, WellFormed(stack', action), \A s : ActiveIn(stack', s) <=> ActiveIn(stack, s),
           UNCHANGED <<INTMASK, TINTEN, UCON, action, reopened>>, disabled \subseteq disabled',
           TypeOK'
    PROVE  IInv'
  <1>1. Fits(stack, action, disabled, reopened)
    BY InvParts DEF IInv
  <1>2. \A s : Enabled(s)' <=> Enabled(s)
    BY DEF Enabled
  <1>. QED BY <1>1, <1>2, InvPartsPrime DEF Fits

\* An interrupt is taken in a task or in a handler that has interrupts on.
LEMMA TakeIrqInv ==
    ASSUME WithoutUart3, IInv, TakeIrq
    PROVE  IInv'
  <1>. USE DEF IInv, EnabledUnlessInProgress
  <1>1. PICK irq : irq = First(Deliverable)
    OBVIOUS
  <1>2. irq \in MainIrqs
    <2>1. Deliverable \in SUBSET Nat /\ Deliverable # {} /\ Deliverable \subseteq MainIrqs
      BY DEF TakeIrq, Interrupted, Deliverable, TypeOK, MainIrqs
    <2>. QED BY <1>1, <2>1, FirstIn
  <1>3. ASSUME NEW f \in Frames, ~Serves(f), stack' = Append(stack, f), UNCHANGED <<chipVars, reopened>>
        PROVE  IInv'
    <2>1. /\ WellFormed(stack', action)
          /\ \A s : ActiveIn(stack', s) <=> ActiveIn(stack, s)
      BY <1>3, Push
    <2>2. TypeOK' /\ UNCHANGED <<INTMASK, TINTEN, UCON, action, disabled, reopened>>
      BY <1>3 DEF TakeIrq, chipVars, descVars, TypeOK
    <2>. QED BY <2>1, <2>2, SameActiveInv
  <1>4. CASE irq = IRQ_TIMER /\ stack' = Append(stack, Frame("timer", irq, TSTATUS))
             /\ UNCHANGED <<chipVars, reopened>>
    <2>1. Frame("timer", irq, TSTATUS) \in Frames /\ ~Serves(Frame("timer", irq, TSTATUS))
      BY <1>2 DEF Frame, Frames, Serves, TypeOK
    <2>. QED BY <1>3, <1>4, <2>1
  <1>5. CASE irq = IRQ_UART /\ stack' = Append(stack, Frame("uart", irq, INTSTATREG))
             /\ UNCHANGED <<chipVars, reopened>>
    <2>1. Frame("uart", irq, INTSTATREG) \in Frames /\ ~Serves(Frame("uart", irq, INTSTATREG))
      BY <1>2 DEF Frame, Frames, Serves, TypeOK
    <2>. QED BY <1>3, <1>5, <2>1
  <1>6. CASE HandleLevelIrq(irq, stack)
    BY <1>2, <1>6, HandleLevelIrqInv DEF TakeIrq
  <1>. QED BY <1>1, <1>4, <1>5, <1>6 DEF TakeIrq

\* A demultiplexer calls the flow handler of its first source, or clears the
\* parent and returns.
LEMMA DemuxInv ==
    ASSUME WithoutUart3, IInv, TimerDemux \/ UartDemux
    PROVE  IInv'
  <1>. USE DEF IInv, EnabledUnlessInProgress
  <1>1. /\ stack # <<>> /\ ~Serves(Top) /\ UNCHANGED <<need, descVars, events>>
    BY DEF TimerDemux, UartDemux, Serves
  <1>2. /\ Top \in Frames /\ WellFormed(Pop, action)
        /\ \A s : ActiveIn(Pop, s) <=> ActiveIn(stack, s)
    BY <1>1, PopTop DEF Top, Pop
  <1>3. ASSUME ClearParent(IRQ_TIMER) \/ ClearParent(IRQ_UART) PROVE IInv'
    <2>1. stack' = Pop /\ UNCHANGED <<INTMASK, TINTEN, UCON, action, disabled, reopened>>
      BY <1>1, <1>3 DEF ClearParent, descVars
    <2>2. TypeOK'
      BY <1>1, <1>3 DEF ClearParent, TypeOK, descVars
    <2>. QED BY <1>2, <2>1, <2>2, SameActiveInv
  <1>4. Top.todo # {} => First(Top.todo) \in Source
    <2>1. Top.todo \subseteq Source /\ Source \subseteq Nat
      BY <1>2, SourceAssumption DEF Frames, MainIrqs, TimerIrqs, UartIrqs, IRQ_TIMER_0, IRQ_UART_TXD0
    <2>. QED BY <2>1, FirstIn
  <1>5. CASE UartDemux
    <2>1. CASE Top.todo # {} /\ HandleLevelIrq(First(Top.todo), Pop)
      BY <1>1, <1>2, <1>4, <2>1, HandleLevelIrqInv
    <2>. QED BY <1>3, <1>5, <2>1 DEF UartDemux
  <1>6. CASE TimerDemux
    <2>1. CASE Top.todo # {}
      <3>1. PICK irq \in Source : irq = First(Top.todo)
        BY <1>4, <2>1
      <3>2. PICK f : f = [Top EXCEPT !.todo = @ \ {irq}]
        OBVIOUS
      <3>3. f \in Frames /\ ~Serves(f)
        BY <1>1, <1>2, <3>2 DEF Frames, Serves
      <3>4. /\ WellFormed(Append(Pop, f), action)
            /\ \A s : ActiveIn(Append(Pop, f), s) <=> ActiveIn(stack, s)
        BY <1>2, <3>3, Push
      <3>5. HandleLevelIrq(irq, Append(Pop, f))
        <4>1. Top.h = "timer" /\ ~(Top.todo = {})
          BY <1>6, <2>1 DEF TimerDemux
        <4>. QED BY <1>6, <2>1, <3>1, <3>2 DEF TimerDemux
      <3>. QED BY <1>1, <3>4, <3>5, HandleLevelIrqInv
    <2>2. CASE Top.todo = {}
      BY <1>3, <1>6, <2>2 DEF TimerDemux
    <2>. QED BY <2>1, <2>2
  <1>. QED BY <1>5, <1>6

\* The driver's handler runs; it stays active until the locked end.
LEMMA HandlerServesInv ==
    ASSUME IInv, HandlerServes
    PROVE  IInv'
  <1>. USE DEF IInv, EnabledUnlessInProgress
  <1>1. /\ stack # <<>> /\ Serves(Top) /\ UNCHANGED <<chipVars, action, disabled, events, reopened>>
        /\ stack' = Append(Pop, [Top EXCEPT !.h = "done"])
        /\ need' = [need EXCEPT ![Top.irq] = FALSE]
    BY DEF HandlerServes, Serves, descVars
  <1>2. /\ Top \in Frames /\ WellFormed(Pop, action)
        /\ \A s : ActiveIn(stack, s) <=> ActiveIn(Pop, s) \/ Top.irq = s
        /\ Top.irq \in action /\ ~ActiveIn(Pop, Top.irq)
    BY <1>1, PopTop DEF Top, Pop
  <1>3. PICK f : f = [Top EXCEPT !.h = "done"]
    OBVIOUS
  <1>4. f \in Frames /\ Serves(f) /\ f.irq = Top.irq
    BY <1>2, <1>3 DEF Frames, Serves
  <1>5. /\ WellFormed(stack', action)
        /\ \A s : ActiveIn(stack', s) <=> ActiveIn(stack, s)
    <2>1. stack' = Append(Pop, f) /\ (Serves(f) => f.irq \in action /\ ~ActiveIn(Pop, f.irq))
      BY <1>1, <1>2, <1>3, <1>4
    <2>2. /\ WellFormed(Append(Pop, f), action)
          /\ \A s : ActiveIn(Append(Pop, f), s) <=> ActiveIn(Pop, s) \/ (Serves(f) /\ f.irq = s)
      BY <1>2, <1>4, <2>1, Push
    <2>. QED BY <2>1, <2>2, <1>2, <1>4
  <1>6. TypeOK'
    BY <1>1 DEF TypeOK, chipVars
  <1>. QED BY <1>1, <1>5, <1>6, SameActiveInv DEF chipVars

\* The end of handle_level_irq: the handler is over, and the source is enabled
\* unless the line has been disabled.
LEMMA LevelEndInv ==
    ASSUME WithoutUart3, IInv, LevelEnd
    PROVE  IInv'
  <1>1. /\ stack # <<>> /\ Serves(Top) /\ stack' = Pop /\ reopened' = reopened \ {Top.irq}
        /\ action' = action /\ disabled' = disabled
        /\ UNCHANGED <<INTPEND, TSTATUS, INTSTATREG, need, events>>
    BY DEF LevelEnd, Serves, descVars
  <1>2. /\ WellFormed(stack, action) /\ TypeOK /\ Fits(stack, action, disabled, reopened)
        /\ action \subseteq Source
    BY InvParts DEF IInv, EnabledUnlessInProgress, TypeOK
  <1>3. /\ WellFormed(Pop, action)
        /\ \A s : ActiveIn(stack, s) <=> ActiveIn(Pop, s) \/ Top.irq = s
        /\ Top.irq \in action /\ ~ActiveIn(Pop, Top.irq)
    BY <1>1, <1>2, PopTop DEF Top, Pop
  <1>4. PICK irq \in Source : irq = Top.irq
    BY <1>2, <1>3
  <1>5. CASE irq \notin disabled /\ Unmask(irq)
    <2>1. TypeOK'
      BY <1>1, <1>2, <1>5, UnmaskStep DEF TypeOK
    <2>2. ASSUME NEW s \in action
          PROVE  /\ ActiveIn(stack', s) => (Enabled(s)' <=> s \in reopened')
                 /\ ActiveIn(stack', s) \/ Enabled(s)' \/ s \in disabled'
      BY <1>1, <1>2, <1>3, <1>4, <1>5, UnmaskStep DEF Fits
    <2>. QED BY <1>1, <1>3, <2>1, <2>2, InvPartsPrime
  <1>6. CASE irq \in disabled /\ UNCHANGED <<INTMASK, TINTEN, UCON>>
    <2>1. TypeOK' /\ \A s : Enabled(s)' <=> Enabled(s)
      BY <1>1, <1>2, <1>6 DEF TypeOK, Enabled
    <2>2. ASSUME NEW s \in action
          PROVE  /\ ActiveIn(stack', s) => (Enabled(s)' <=> s \in reopened')
                 /\ ActiveIn(stack', s) \/ Enabled(s)' \/ s \in disabled'
      BY <1>1, <1>2, <1>3, <1>4, <1>6, <2>1 DEF Fits
    <2>. QED BY <1>1, <1>3, <2>1, <2>2, InvPartsPrime
  <1>. QED BY <1>4, <1>5, <1>6 DEF LevelEnd

\* A driver comes or goes, or a port is started, in a task.
LEMMA DriverInv ==
    ASSUME WithoutUart3, IInv,
           \/ \E s \in Source : RequestIrq(s) \/ FreeIrq(s)
           \/ \E q \in {Wired(s)[1] : s \in Source \cap UartIrqs} : UartStartup(q)
    PROVE  IInv'
  <1>1. stack = <<>> /\ stack' = <<>>
    BY DEF RequestIrq, FreeIrq, UartStartup
  <1>2. WellFormed(stack', action') /\ \A x : ~ActiveIn(stack, x) /\ ~ActiveIn(stack', x)
    BY <1>1 DEF WellFormed, ActiveIn
  <1>3. TypeOK /\ action \subseteq Source /\ \A x \in action : Enabled(x) \/ x \in disabled
    BY <1>2, InvParts DEF IInv, EnabledUnlessInProgress, TypeOK, Fits
  <1>4. ASSUME NEW s \in Source, RequestIrq(s) PROVE IInv'
    <2>1. TypeOK'
      BY <1>3, <1>4, UnmaskStep DEF RequestIrq, TypeOK
    <2>2. \A x \in action' : Enabled(x)' \/ x \in disabled'
      BY <1>3, <1>4, UnmaskStep DEF RequestIrq
    <2>. QED BY <1>2, <2>1, <2>2, InvPartsPrime
  <1>5. ASSUME NEW s \in Source, FreeIrq(s) PROVE IInv'
    <2>1. TypeOK'
      BY <1>3, <1>5 DEF FreeIrq, TypeOK, chipVars
    <2>2. \A x \in action' : Enabled(x)' \/ x \in disabled'
      BY <1>3, <1>5 DEF FreeIrq, chipVars, Enabled
    <2>. QED BY <1>2, <2>1, <2>2, InvPartsPrime
  <1>6. ASSUME NEW u \in Source \cap UartIrqs, UartStartup(Wired(u)[1]) PROVE IInv'
    <2>1. PICK q \in Short : q = Wired(u)[1]
      <3>1. u \in 36 .. 47
        BY SourceKind
      <3>. QED BY <3>1, UartBits
    <2>2. /\ UCON' = {b \in UCON : b[1] = q => b[2] = ModemType} \cup {<<q, RX_TIMEOUT>>}
          /\ \A s \in action \cap UartIrqs : Wired(s)[1] = q => s \in disabled
          /\ UNCHANGED <<INTPEND, INTMASK, TSTATUS, TINTEN, INTSTATREG, need, action, disabled,
                         events, reopened>>
      BY <1>6, <2>1 DEF UartStartup, descVars
    <2>3. TypeOK'
      <3>1. <<q, RX_TIMEOUT>> \in Short \X (0 .. RX_TIMEOUT)
        BY DEF RX_TIMEOUT
      <3>2. UCON' \subseteq Short \X (0 .. RX_TIMEOUT)
        BY <1>3, <2>2, <3>1 DEF TypeOK
      <3>. QED BY <1>3, <2>2, <3>2 DEF TypeOK
    <2>4. ASSUME NEW s \in action PROVE Enabled(s)' \/ s \in disabled'
      <3>1. CASE s \in UartIrqs /\ Wired(s)[1] = q
        BY <2>2, <2>4, <3>1
      <3>2. CASE s \in UartIrqs /\ Wired(s)[1] # q
        <4>1. Wired(s) \in UCON => Wired(s) \in UCON'
          BY <2>2, <3>2
        <4>. QED BY <1>3, <2>2, <2>4, <4>1 DEF Enabled
      <3>3. CASE s \notin UartIrqs
        BY <1>3, <2>2, <2>4, <3>3 DEF Enabled
      <3>. QED BY <3>1, <3>2, <3>3
    <2>. QED BY <1>2, <2>2, <2>3, <2>4, InvPartsPrime
  <1>. QED BY <1>4, <1>5, <1>6

\* The UART driver disables or enables a line, under its handler or not.
LEMMA DisableInv ==
    ASSUME WithoutUart3, IInv, NEW s \in Source, DisableIrq(s) \/ EnableIrq(s)
    PROVE  IInv'
  <1>1. /\ WellFormed(stack, action) /\ TypeOK /\ Fits(stack, action, disabled, reopened)
        /\ action \subseteq Source /\ \A x : InProgress(x) <=> ActiveIn(stack, x)
    BY InvParts DEF IInv, EnabledUnlessInProgress, TypeOK
  <1>2. CASE DisableIrq(s)
    <2>1. /\ UNCHANGED <<INTMASK, TINTEN, UCON, action, reopened, stack>>
          /\ disabled \subseteq disabled'
      BY <1>2 DEF DisableIrq, chipVars
    <2>2. TypeOK'
      BY <1>1, <1>2 DEF DisableIrq, TypeOK, chipVars
    <2>. QED BY <1>1, <2>1, <2>2, SameActiveInv
  <1>3. CASE EnableIrq(s)
    <2>1. /\ Unmask(s) /\ disabled' = disabled \ {s}
          /\ reopened' = IF InProgress(s) THEN reopened \cup {s} ELSE reopened
          /\ UNCHANGED <<INTPEND, TSTATUS, INTSTATREG, need, action, stack, events>>
      BY <1>3 DEF EnableIrq
    <2>2. TypeOK'
      BY <1>1, <2>1, UnmaskStep DEF TypeOK
    <2>3. ASSUME NEW x \in action
          PROVE  /\ ActiveIn(stack', x) => (Enabled(x)' <=> x \in reopened')
                 /\ ActiveIn(stack', x) \/ Enabled(x)' \/ x \in disabled'
      BY <1>1, <2>1, UnmaskStep DEF Fits
    <2>. QED BY <1>1, <2>1, <2>2, <2>3, InvPartsPrime
  <1>. QED BY <1>2, <1>3

\* The hardware raises status and pending bits.
LEMMA HardwareInv ==
    ASSUME IInv, \/ \E s \in Source : DeviceAsks(s) \/ UartRaises(s)
                 \/ \E n \in MainIrqs : LineLatches(n)
    PROVE  IInv'
  <1>. USE DEF IInv, EnabledUnlessInProgress
  <1>1. UNCHANGED <<INTMASK, TINTEN, UCON, action, disabled, reopened, stack>>
    BY DEF DeviceAsks, UartRaises, LineLatches, descVars
  <1>2. TypeOK'
    <2>1. ASSUME NEW s \in Source, DeviceAsks(s) PROVE TypeOK'
      BY <2>1, SourceAssumption DEF DeviceAsks, TypeOK, descVars
    <2>2. ASSUME NEW s \in Source, UartRaises(s) PROVE TypeOK'
      BY <2>2 DEF UartRaises, TypeOK, descVars
    <2>3. ASSUME NEW n \in MainIrqs, LineLatches(n) PROVE TypeOK'
      BY <2>3 DEF LineLatches, TypeOK, descVars
    <2>. QED BY <2>1, <2>2, <2>3
  <1>. QED BY <1>1, <1>2, SameActiveInv

\* Every step preserves the invariant.
LEMMA NextInv == WithoutUart3 /\ IInv /\ [Next]_vars => IInv'
  <1>. SUFFICES ASSUME WithoutUart3, IInv, [Next]_vars PROVE IInv'
    OBVIOUS
  <1>1. CASE UNCHANGED vars
    <2>1. TypeOK'
      BY <1>1 DEF IInv, EnabledUnlessInProgress, TypeOK, vars, chipVars, descVars
    <2>. QED BY <1>1, <2>1, SameActiveInv DEF IInv, vars, chipVars, descVars
  <1>. QED BY <1>1, TakeIrqInv, DemuxInv, HandlerServesInv, LevelEndInv, DriverInv,
          DisableInv, HardwareInv DEF Next

\* Everything is masked, nothing is active and no driver is there at the start.
LEMMA InitInv == Init => IInv
  <1>. SUFFICES ASSUME Init PROVE IInv
    OBVIOUS
  <1>1. TypeOK
    BY SourceAssumption DEF Init, TypeOK
  <1>2. WellFormed(stack, action)
    BY DEF Init, WellFormed
  <1>. QED BY <1>1, <1>2 DEF Init, IInv, EnabledUnlessInProgress

\* While the handler of a source is active the source is masked unless
\* enable_irq was called since, and otherwise it is enabled unless its driver
\* has disabled it: for every set of sources without UART 3, however the
\* handlers nest and whatever lines they disable and enable.  For UART 3 it is
\* false: port() names another register.
THEOREM EnabledUnlessInProgressHolds ==
    ASSUME WithoutUart3
    PROVE  Spec => []EnabledUnlessInProgress
  <1>1. IInv /\ [Next]_vars => IInv'
    BY NextInv
  <1>2. IInv => EnabledUnlessInProgress
    BY DEF IInv
  <1>. QED BY <1>1, <1>2, InitInv, PTL DEF Spec
===============================================================================
