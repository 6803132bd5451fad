------------------------------ MODULE UartProofs ------------------------------
(***************************************************************************)
(* TLAPS proofs about Uart, for any finite number of users and any sizes   *)
(* of the ring and of the FIFO.                                            *)
(***************************************************************************)
EXTENDS Uart, FiniteSetTheorems, TLAPS

-------------------------------------------------------------------------------
(* Arithmetic and cardinality *)

LEMMA MinOfTwo ==
    ASSUME NEW a \in Nat, NEW b \in Nat
    PROVE  Min({a, b}) \in Nat /\ Min({a, b}) <= a /\ Min({a, b}) <= b
  <1>1. \E x \in {a, b} : \A y \in {a, b} : x <= y
    OBVIOUS
  <1>. QED BY <1>1 DEF Min

LEMMA MaxOfTwo ==
    ASSUME NEW a \in Int, NEW b \in Int
    PROVE  Max({a, b}) = IF a >= b THEN a ELSE b
  <1>1. \E x \in {a, b} : \A y \in {a, b} : x >= y
    OBVIOUS
  <1>. QED BY <1>1 DEF Max

\* One task enters or leaves a set of tasks, or neither.
LEMMA OneMoves ==
    ASSUME NEW S \in SUBSET Task, NEW R \in SUBSET Task, NEW t \in Task,
           \A u \in Task : u # t => (u \in R <=> u \in S)
    PROVE  /\ Cardinality(S) \in Nat
           /\ (t \in R <=> t \in S) => Cardinality(R) = Cardinality(S)
           /\ t \in R /\ t \notin S => Cardinality(R) = Cardinality(S) + 1
           /\ t \notin R /\ t \in S => Cardinality(R) = Cardinality(S) - 1
  <1>1. IsFiniteSet(S) /\ Cardinality(S) \in Nat
    BY FS_Subset, FS_CardinalityType, UartAssumption
  <1>2. (t \in R <=> t \in S) => R = S
    OBVIOUS
  <1>3. t \in R /\ t \notin S => R = S \cup {t}
    OBVIOUS
  <1>4. t \notin R /\ t \in S => R = S \ {t}
    OBVIOUS
  <1>5. t \notin S => Cardinality(S \cup {t}) = Cardinality(S) + 1
    BY <1>1, FS_AddElement
  <1>6. t \in S => Cardinality(S \ {t}) = Cardinality(S) - 1
    BY <1>1, FS_RemoveElement
  <1>. QED BY <1>1, <1>2, <1>3, <1>4, <1>5, <1>6

\* A set of tasks with a member is counted, and the empty set counts nothing.
LEMMA Members ==
    ASSUME NEW S \in SUBSET Task
    PROVE  /\ Cardinality(S) \in Nat
           /\ Cardinality(S) = 0 <=> S = {}
           /\ \A t : t \in S => Cardinality(S) >= 1
  <1>1. IsFiniteSet(S) /\ Cardinality(S) \in Nat
    BY FS_Subset, FS_CardinalityType, UartAssumption
  <1>2. Cardinality(S) = 0 <=> S = {}
    BY <1>1, FS_EmptySet
  <1>. QED BY <1>1, <1>2

-------------------------------------------------------------------------------
(* The initial states *)

LEMMA InitInv ==
    Init => IInv
  <1>. SUFFICES ASSUME Init PROVE IInv
    OBVIOUS
  <1>. USE UartAssumption
  <1>1. TypeOK
    <2>1. tx \in [act : BOOLEAN, depth : Nat] /\ rx \in [act : BOOLEAN, depth : Nat]
      BY DEF Init
    <2>2. pc \in [Task -> Label]
      BY DEF Init, Label
    <2>3. xmit \in 0..XmitSize /\ fifo \in 0..FifoSize
      BY DEF Init
    <2>4. hung \in [Task -> BOOLEAN]
      BY DEF Init
    <2>. QED BY <2>1, <2>2, <2>3, <2>4 DEF Init, TypeOK
  <1>5. RxClaim
    BY <1>1 DEF Init, RxClaim
  <1>2. MutexInv /\ RxInv /\ ToldInv /\ WaitInv
    BY DEF Init, MutexInv, RxInv, ToldInv, WaitInv, Starting, Ending, ShutDown
  <1>3. Waiting = {} /\ Counted = {}
    BY DEF Init, Waiting, Counted, Starting
  <1>4. CountInv
    BY <1>3, FS_EmptySet DEF Init, CountInv
  <1>. QED BY <1>2, <1>4, <1>5 DEF IInv

-------------------------------------------------------------------------------
(* The steps that change neither who has the port nor what he may expect *)

IrqType == [act : BOOLEAN, depth : Nat]
CpuType == Task \cup {Hup, Null, "start", "stop", "start_tx"}

LEMMA IrqOperations ==
    ASSUME NEW l \in IrqType
    PROVE  /\ Requested(l) \in IrqType /\ Enabled(Requested(l))
           /\ Freed(l) \in IrqType /\ ~Freed(l).act
           /\ EnableIrq(l) \in IrqType
           /\ DisableIrq(l) \in IrqType
           /\ DisableIrq(l).act = l.act /\ DisableIrq(l).depth = l.depth + 1
  <1>1. Requested(l) \in IrqType /\ Enabled(Requested(l))
    BY DEF IrqType, Requested, Enabled
  <1>2. Freed(l) \in IrqType /\ ~Freed(l).act
    BY DEF IrqType, Freed
  <1>3. l.depth \in Nat /\ l.act \in BOOLEAN
    BY DEF IrqType
  <1>4. (IF l.depth = 0 THEN 0 ELSE l.depth - 1) \in Nat /\ l.depth + 1 \in Nat
    BY <1>3
  <1>5. EnableIrq(l) \in IrqType
    BY <1>4 DEF IrqType, EnableIrq
  <1>6. DisableIrq(l) \in IrqType
    BY <1>4 DEF IrqType, DisableIrq
  <1>7. DisableIrq(l).act = l.act /\ DisableIrq(l).depth = l.depth + 1
    BY DEF IrqType, DisableIrq
  <1>. QED BY <1>1, <1>2, <1>5, <1>6, <1>7

LEMMA StartStopType ==
    ASSUME TypeOK, StartTx \/ StopTx \/ UNCHANGED txVars
    PROVE  tx' \in IrqType /\ tx_claimed' \in BOOLEAN
  <1>1. tx \in IrqType /\ tx_claimed \in BOOLEAN
    BY DEF TypeOK, IrqType
  <1>2. EnableIrq(tx) \in IrqType /\ DisableIrq(tx) \in IrqType
    BY <1>1, IrqOperations
  <1>. QED BY <1>1, <1>2 DEF StartTx, StopTx, txVars

LEMMA QuietInv ==
    ASSUME IInv,
           UNCHANGED <<mutex, pc, hpc, hung, calm, count, blocked_open, infotty, initialized,
                       io_error, rx, rx_claimed, normal_active, buf, closing>>,
           xmit' \in 0..XmitSize, fifo' \in 0..FifoSize, tx' \in IrqType,
           tx_claimed' \in BOOLEAN, tlet' \in BOOLEAN, x_char' \in BOOLEAN,
           rxfifo' \in BOOLEAN, flip' \in BOOLEAN, stopped' \in BOOLEAN, cpu' \in CpuType
    PROVE  IInv'
  <1>1. TypeOK'
    BY DEF IInv, RxClaim, TypeOK, IrqType, CpuType
  <1>2. RxClaim' /\ MutexInv' /\ RxInv'
    BY <1>1 DEF IInv, RxClaim, MutexInv, RxInv
  <1>3. ToldInv' /\ WaitInv'
    BY DEF IInv, ToldInv, WaitInv
  <1>4. CountInv'
    BY DEF IInv, CountInv, Waiting, Counted
  <1>. QED BY <1>2, <1>3, <1>4 DEF IInv

LEMMA QuietTypes ==
    ASSUME IInv
    PROVE  /\ xmit \in 0..XmitSize /\ fifo \in 0..FifoSize /\ tx \in IrqType
           /\ tx_claimed \in BOOLEAN /\ tlet \in BOOLEAN /\ x_char \in BOOLEAN
           /\ rxfifo \in BOOLEAN /\ flip \in BOOLEAN /\ stopped \in BOOLEAN /\ cpu \in CpuType
  BY DEF IInv, RxClaim, TypeOK, IrqType, CpuType

LEMMA TxIntInv ==
    ASSUME IInv, TxInt
    PROVE  IInv'
  <1>1. TypeOK
    BY DEF IInv, RxClaim
  <1>2. /\ UNCHANGED <<mutex, pc, hpc, hung, calm, count, blocked_open, infotty, initialized,
                       io_error, rx, rx_claimed, normal_active, buf, closing>>
        /\ UNCHANGED <<rxfifo, flip, stopped, cpu>>
    BY DEF TxInt, coreVars, ttyVars, rxVars, ctlVars
  <1>3. tx' \in IrqType /\ tx_claimed' \in BOOLEAN
    BY <1>1, StartStopType DEF TxInt, txVars
  <1>4. x_char' \in BOOLEAN
    BY QuietTypes DEF TxInt
  <1>5. /\ xmit \in Nat /\ fifo \in Nat /\ xmit <= XmitSize /\ fifo <= FifoSize
        /\ XmitSize \in Nat /\ FifoSize \in Nat
    BY QuietTypes, UartAssumption
  <1>6. PICK n \in Nat : n = Min({xmit, FifoSize - fifo}) /\ n <= xmit /\ n <= FifoSize - fifo
    <2>1. FifoSize - fifo \in Nat
      BY <1>5
    <2>. QED BY <2>1, <1>5, MinOfTwo
  <1>7. \/ UNCHANGED xmit /\ fifo' = fifo + 1 /\ UNCHANGED tlet /\ fifo < FifoSize
        \/ UNCHANGED <<xmit, fifo, tlet>>
        \/ xmit' = xmit - n /\ fifo' = fifo + n /\ tlet' = (tlet \/ xmit - n < WakeupChars)
    BY <1>6 DEF TxInt
  <1>8. tlet' \in BOOLEAN
    BY <1>7, QuietTypes
  <1>9. xmit' \in 0..XmitSize /\ fifo' \in 0..FifoSize
    BY <1>5, <1>6, <1>7
  <1>10. rxfifo' \in BOOLEAN /\ flip' \in BOOLEAN /\ stopped' \in BOOLEAN /\ cpu' \in CpuType
    BY <1>2, QuietTypes
  <1>. QED BY <1>2, <1>3, <1>4, <1>8, <1>9, <1>10, QuietInv

LEMMA RxIntInv ==
    ASSUME IInv, RxInt
    PROVE  IInv'
  <1>1. UNCHANGED <<mutex, pc, hpc, hung, calm, count, blocked_open, infotty, initialized,
                    io_error, rx, rx_claimed, normal_active, buf, closing, xmit, fifo, tx,
                    tx_claimed, tlet, x_char, stopped, cpu>>
    BY DEF RxInt, coreVars, infoVars, txVars, rxVars, ctlVars
  <1>2. rxfifo' \in BOOLEAN /\ flip' \in BOOLEAN
    BY DEF RxInt
  <1>. QED BY <1>1, <1>2, QuietTypes, QuietInv

LEMMA TaskletActionInv ==
    ASSUME IInv, TaskletAction
    PROVE  IInv'
  <1>1. UNCHANGED <<mutex, pc, hpc, hung, calm, count, blocked_open, infotty, initialized,
                    io_error, rx, rx_claimed, normal_active, buf, closing, xmit, fifo, tx,
                    tx_claimed, rxfifo, flip, x_char, stopped, cpu>>
    BY DEF TaskletAction, coreVars, ttyVars, hwVars, txVars, rxVars, ctlVars
  <1>2. tlet' \in BOOLEAN
    BY DEF TaskletAction
  <1>. QED BY <1>1, <1>2, QuietTypes, QuietInv

LEMMA LineInv ==
    ASSUME IInv, Line
    PROVE  IInv'
  <1>1. UNCHANGED <<mutex, pc, hpc, hung, calm, count, blocked_open, infotty, initialized,
                    io_error, rx, rx_claimed, normal_active, buf, closing, xmit, tx,
                    tx_claimed, tlet, flip, x_char, stopped, cpu>>
    BY DEF Line, coreVars, infoVars, ttyVars, txVars, rxVars, ctlVars
  <1>2. rxfifo' \in BOOLEAN
    BY QuietTypes DEF Line
  <1>3. fifo' \in 0..FifoSize
    BY QuietTypes, UartAssumption DEF Line
  <1>. QED BY <1>1, <1>2, <1>3, QuietTypes, QuietInv

LEMMA WriteInv ==
    ASSUME IInv, NEW t \in Task, Write(t)
    PROVE  IInv'
  <1>1. UNCHANGED <<mutex, pc, hpc, hung, calm, count, blocked_open, infotty, initialized,
                    io_error, rx, rx_claimed, normal_active, buf, closing, fifo, tx,
                    tx_claimed, tlet, flip, x_char, rxfifo, stopped>>
    BY DEF Write, coreVars, ttyVars, txVars, rxVars, hwVars
  <1>2. xmit' \in 0..XmitSize
    BY QuietTypes, UartAssumption DEF Write
  <1>3. cpu' \in CpuType
    BY DEF Write, CpuType
  <1>. QED BY <1>1, <1>2, <1>3, QuietTypes, QuietInv

LEMMA SendXcharInv ==
    ASSUME IInv, NEW t \in Task, SendXchar(t)
    PROVE  IInv'
  <1>1. UNCHANGED <<mutex, pc, hpc, hung, calm, count, blocked_open, infotty, initialized,
                    io_error, rx, rx_claimed, normal_active, buf, closing, xmit, fifo, tx,
                    tx_claimed, tlet, flip, rxfifo, stopped>>
    BY DEF SendXchar, coreVars, infoVars, ttyVars, txVars, rxVars
  <1>2. x_char' \in BOOLEAN /\ cpu' \in CpuType
    BY DEF SendXchar, CpuType
  <1>. QED BY <1>1, <1>2, QuietTypes, QuietInv

LEMMA FlowControlInv ==
    ASSUME IInv, NEW t \in Task, FlowControl(t)
    PROVE  IInv'
  <1>1. UNCHANGED <<mutex, pc, hpc, hung, calm, count, blocked_open, infotty, initialized,
                    io_error, rx, rx_claimed, normal_active, buf, closing, xmit, fifo, tx,
                    tx_claimed, tlet, flip, rxfifo, x_char>>
    BY DEF FlowControl, coreVars, infoVars, txVars, rxVars, hwVars
  <1>2. stopped' \in BOOLEAN /\ cpu' \in CpuType
    BY DEF FlowControl, StopTty, StartTty, CpuType
  <1>. QED BY <1>1, <1>2, QuietTypes, QuietInv

LEMMA ReceiveInv ==
    ASSUME IInv, Receive
    PROVE  IInv'
  <1>1. UNCHANGED <<mutex, pc, hpc, hung, calm, count, blocked_open, infotty, initialized,
                    io_error, rx, rx_claimed, normal_active, buf, closing, fifo, tx,
                    tx_claimed, tlet, rxfifo, x_char>>
    BY DEF Receive, coreVars, txVars, rxVars, hwVars
  <1>2. flip' \in BOOLEAN /\ stopped' \in BOOLEAN /\ cpu' \in CpuType
    BY QuietTypes DEF Receive, StopTty, StartTty, CpuType
  <1>3. xmit' = xmit \/ (xmit < XmitSize /\ xmit' = xmit + 1)
    BY DEF Receive
  <1>4. xmit' \in 0..XmitSize
    BY <1>3, QuietTypes, UartAssumption
  <1>. QED BY <1>1, <1>2, <1>4, QuietTypes, QuietInv

LEMMA StartOrStopInv ==
    ASSUME IInv, StartOrStop
    PROVE  IInv'
  <1>1. UNCHANGED <<mutex, pc, hpc, hung, calm, count, blocked_open, infotty, initialized,
                    io_error, rx, rx_claimed, normal_active, buf, closing, xmit, fifo, tlet,
                    flip, rxfifo, x_char, stopped>>
    BY DEF StartOrStop, coreVars, infoVars, ttyVars, rxVars, hwVars
  <1>2. tx' \in IrqType /\ tx_claimed' \in BOOLEAN
    BY StartStopType DEF StartOrStop, IInv, RxClaim
  <1>3. cpu' \in CpuType
    BY DEF StartOrStop, CpuType
  <1>. QED BY <1>1, <1>2, <1>3, QuietTypes, QuietInv

LEMMA StutterInv ==
    ASSUME IInv, UNCHANGED vars
    PROVE  IInv'
  <1>1. UNCHANGED <<mutex, pc, hpc, hung, calm, count, blocked_open, infotty, initialized,
                    io_error, rx, rx_claimed, normal_active, buf, closing, xmit, fifo, tx,
                    tx_claimed, tlet, flip, rxfifo, x_char, stopped, cpu>>
    BY DEF vars, coreVars, infoVars, ttyVars, txVars, rxVars, hwVars, ctlVars
  <1>. QED BY <1>1, QuietTypes, QuietInv

-------------------------------------------------------------------------------
(* One task moves *)

Moves(t, l) == \A u \in Task : pc'[u] = IF u = t THEN l ELSE pc[u]

LEMMA GotoMoves ==
    ASSUME TypeOK, NEW t \in Task, NEW l \in Label, Goto(t, l)
    PROVE  Moves(t, l) /\ pc' \in [Task -> Label]
  BY DEF TypeOK, Goto, Moves

WaitPc == {"blocked", "woken"}
CountedPc == Starting \cup {"open", "close"}

\* What a move does to the two counts.
LEMMA CountMove ==
    ASSUME NEW t \in Task, NEW l, Moves(t, l)
    PROVE  /\ Cardinality(Waiting) \in Nat /\ Cardinality(Counted) \in Nat
           /\ (pc[t] \in WaitPc <=> l \in WaitPc) => Cardinality(Waiting') = Cardinality(Waiting)
           /\ pc[t] \notin WaitPc /\ l \in WaitPc => Cardinality(Waiting') = Cardinality(Waiting) + 1
           /\ pc[t] \in WaitPc /\ l \notin WaitPc => Cardinality(Waiting') = Cardinality(Waiting) - 1
           /\ (pc[t] \in CountedPc <=> l \in CountedPc) => Cardinality(Counted') = Cardinality(Counted)
           /\ pc[t] \notin CountedPc /\ l \in CountedPc => Cardinality(Counted') = Cardinality(Counted) + 1
           /\ pc[t] \in CountedPc /\ l \notin CountedPc => Cardinality(Counted') = Cardinality(Counted) - 1
  <1>1. /\ Waiting \in SUBSET Task /\ Waiting' \in SUBSET Task
        /\ \A u \in Task : u # t => (u \in Waiting' <=> u \in Waiting)
        /\ t \in Waiting <=> pc[t] \in WaitPc
        /\ t \in Waiting' <=> l \in WaitPc
    BY DEF Moves, Waiting, WaitPc
  <1>2. /\ Counted \in SUBSET Task /\ Counted' \in SUBSET Task
        /\ \A u \in Task : u # t => (u \in Counted' <=> u \in Counted)
        /\ t \in Counted <=> pc[t] \in CountedPc
        /\ t \in Counted' <=> l \in CountedPc
    BY DEF Moves, Counted, CountedPc
  <1>3. /\ Cardinality(Waiting) \in Nat
        /\ (t \in Waiting' <=> t \in Waiting) => Cardinality(Waiting') = Cardinality(Waiting)
        /\ t \in Waiting' /\ t \notin Waiting => Cardinality(Waiting') = Cardinality(Waiting) + 1
        /\ t \notin Waiting' /\ t \in Waiting => Cardinality(Waiting') = Cardinality(Waiting) - 1
    BY <1>1, OneMoves
  <1>4. /\ Cardinality(Counted) \in Nat
        /\ (t \in Counted' <=> t \in Counted) => Cardinality(Counted') = Cardinality(Counted)
        /\ t \in Counted' /\ t \notin Counted => Cardinality(Counted') = Cardinality(Counted) + 1
        /\ t \notin Counted' /\ t \in Counted => Cardinality(Counted') = Cardinality(Counted) - 1
    BY <1>2, OneMoves
  <1>. QED BY <1>1, <1>2, <1>3, <1>4

\* The one who holds the mutex is alone with it.
LEMMA Sole ==
    ASSUME IInv, NEW t \in Task, pc[t] \in Starting \cup Ending
    PROVE  /\ mutex = t /\ t # Null /\ t # Hup /\ hpc # "kill"
           /\ \A u \in Task : u # t => pc[u] \notin Starting \cup Ending
  BY UartAssumption DEF IInv, MutexInv

LEMMA Free ==
    ASSUME IInv, mutex = Null
    PROVE  /\ hpc # "kill"
           /\ \A u \in Task : pc[u] \notin Starting \cup Ending
  BY UartAssumption DEF IInv, MutexInv

-------------------------------------------------------------------------------
(* uart_open *)

LEMMA TtyOpenInv ==
    ASSUME IInv, NEW t \in Task, TtyOpen(t)
    PROVE  IInv'
  <1>1. /\ TypeOK /\ pc[t] = "none" /\ Moves(t, "get") /\ pc' \in [Task -> Label]
        /\ hung' \in [Task -> BOOLEAN] /\ hung'[t] = FALSE
        /\ \A u \in Task : u # t => hung'[u] = hung[u]
    <2>1. TypeOK /\ "get" \in Label
      BY DEF IInv, RxClaim, Label
    <2>. QED BY <2>1, GotoMoves DEF TtyOpen, TypeOK
  <1>2. UNCHANGED <<coreVars, infoVars, closing, flip, txVars, rxVars, hwVars, mutex, hpc, cpu, calm>>
    BY DEF TtyOpen
  <1>3. UNCHANGED io_error \/ (io_error' = FALSE /\ \A u \in Task : pc[u] = "none")
    BY DEF TtyOpen, Files
  <1>4. TypeOK'
    <2>1. io_error' \in BOOLEAN /\ stopped' \in BOOLEAN
      BY <1>1 DEF TtyOpen, TypeOK
    <2>. QED BY <2>1, <1>1, <1>2 DEF TypeOK, coreVars, infoVars, txVars, rxVars, hwVars
  <1>5. RxClaim'
    BY <1>1, <1>2, <1>4 DEF IInv, RxClaim, Moves, rxVars
  <1>6. MutexInv'
    BY <1>1, <1>2 DEF IInv, MutexInv, Moves, Starting, Ending, ShutDown, coreVars, infoVars
  <1>7. RxInv'
    BY <1>1, <1>2 DEF IInv, RxInv, Moves, rxVars
  <1>8. ToldInv'
    BY <1>1, <1>2, <1>3 DEF IInv, ToldInv, Moves, Starting, infoVars
  <1>9. WaitInv'
    BY <1>1, <1>2 DEF IInv, WaitInv, Moves, ShutDown, infoVars
  <1>10. CountInv'
    BY <1>1, <1>2, CountMove DEF IInv, CountInv, WaitPc, CountedPc, Starting, coreVars
  <1>. QED BY <1>5, <1>6, <1>7, <1>8, <1>9, <1>10 DEF IInv

LEMMA UartGetInv ==
    ASSUME IInv, NEW t \in Task, UartGet(t)
    PROVE  IInv'
  <1>1. /\ TypeOK /\ pc[t] = "get" /\ mutex = Null /\ infotty' = TRUE
        /\ UNCHANGED <<blocked_open, normal_active, initialized, buf, xmit, tlet, stopped, closing,
                       flip, hung, tx, tx_claimed, rx, rx_claimed, x_char, fifo, rxfifo, hpc, calm>>
    BY DEF IInv, RxClaim, UartGet, txVars, rxVars, hwVars
  <1>2. hpc # "kill" /\ \A u \in Task : pc[u] \notin Starting \cup Ending
    BY <1>1, Free
  <1>3. {"close", "ready", "page"} \subseteq Label
    BY DEF Label
  <1>4. CASE hung[t]
    <2>1. Moves(t, "close") /\ pc' \in [Task -> Label] /\ cpu' = t /\ UNCHANGED <<mutex, count, io_error>>
      BY <1>1, <1>3, <1>4, GotoMoves DEF UartGet
    <2>2. TypeOK'
      BY <1>1, <2>1 DEF TypeOK
    <2>3. RxClaim' /\ RxInv'
      BY <1>1, <2>1, <2>2 DEF IInv, RxClaim, RxInv, Moves
    <2>4. MutexInv'
      BY <1>1, <1>2, <2>1 DEF IInv, MutexInv, Moves, Starting, Ending, ShutDown
    <2>5. ToldInv' /\ WaitInv'
      BY <1>1, <1>2, <2>1 DEF IInv, ToldInv, WaitInv, Moves, Starting, Ending, ShutDown
    <2>6. CountInv'
      BY <1>1, <1>4, <2>1, CountMove DEF IInv, CountInv, WaitPc
    <2>. QED BY <2>3, <2>4, <2>5, <2>6 DEF IInv
  <1>5. CASE ~hung[t]
    <2>1. PICK l \in {"ready", "page"} : Moves(t, l) /\ pc' \in [Task -> Label]
      BY <1>1, <1>3, <1>5, GotoMoves DEF UartGet
    <2>2. mutex' = t /\ count' = count + 1 /\ cpu' \in {t, Null} /\ t # Null /\ t # Hup
      BY <1>5, UartAssumption DEF UartGet
    <2>3. (initialized /\ UNCHANGED io_error) \/ io_error' = TRUE
      BY <1>5 DEF UartGet
    <2>4. TypeOK'
      <3>1. io_error' \in BOOLEAN
        BY <1>1, <2>3 DEF TypeOK
      <3>2. count' \in Nat /\ mutex' \in Task \cup {Hup, Null}
        BY <1>1, <2>2 DEF TypeOK
      <3>. QED BY <1>1, <2>1, <2>2, <3>1, <3>2 DEF TypeOK
    <2>5. RxClaim' /\ RxInv'
      BY <1>1, <2>1, <2>4 DEF IInv, RxClaim, RxInv, Moves
    <2>6. count' > 0
      BY <1>1, <2>2 DEF TypeOK
    <2>7. MutexInv'
      BY <1>1, <1>2, <2>1, <2>2, <2>6 DEF IInv, MutexInv, Moves, Starting, Ending, ShutDown
    <2>8. ToldInv' /\ WaitInv'
      BY <1>1, <1>2, <2>1, <2>3 DEF IInv, ToldInv, WaitInv, Moves, Starting, Ending, ShutDown
    <2>9. CountInv'
      BY <1>1, <2>1, <2>2, CountMove DEF IInv, CountInv, WaitPc, CountedPc, Starting
    <2>. QED BY <2>5, <2>7, <2>8, <2>9 DEF IInv
  <1>. QED BY <1>4, <1>5

LEMMA UartGetInterruptedInv ==
    ASSUME IInv, NEW t \in Task, UartGetInterrupted(t)
    PROVE  IInv'
  <1>1. /\ TypeOK /\ pc[t] = "get" /\ ~calm
        /\ UNCHANGED <<coreVars, infoVars, ttyVars, txVars, rxVars, hwVars, mutex, hpc, cpu, calm>>
    BY DEF IInv, RxClaim, UartGetInterrupted
  <1>2. Moves(t, "close") /\ pc' \in [Task -> Label]
    <2>1. "close" \in Label
      BY DEF Label
    <2>. QED BY <2>1, <1>1, GotoMoves DEF UartGetInterrupted
  <1>3. TypeOK'
    BY <1>1, <1>2 DEF TypeOK, coreVars, infoVars, ttyVars, txVars, rxVars, hwVars
  <1>4. RxClaim' /\ RxInv'
    BY <1>1, <1>2, <1>3 DEF IInv, RxClaim, RxInv, Moves, rxVars
  <1>5. MutexInv'
    BY <1>1, <1>2 DEF IInv, MutexInv, Moves, Starting, Ending, ShutDown, coreVars, infoVars
  <1>6. ToldInv' /\ WaitInv'
    BY <1>1, <1>2 DEF IInv, ToldInv, WaitInv, Moves, Starting, ShutDown, infoVars, ttyVars
  <1>7. CountInv'
    BY <1>1, <1>2, CountMove DEF IInv, CountInv, WaitPc, coreVars
  <1>. QED BY <1>4, <1>5, <1>6, <1>7 DEF IInv

\* A step of uart_startup before the interrupts are claimed.
LEMMA StartingInv ==
    ASSUME IInv, NEW t \in Task, pc[t] \in {"page", "reqtx", "reqrx"}, TypeOK',
           NEW l \in Label, Moves(t, l),
           (l \in Starting /\ UNCHANGED mutex) \/ (l = "close" /\ mutex' = Null),
           UNCHANGED <<count, blocked_open, infotty, initialized, io_error, hung, hpc, calm, rx_claimed>>,
           (l # "claim" /\ UNCHANGED rx) \/ (l = "claim" /\ ~rx.act /\ Enabled(rx'))
    PROVE  IInv'
  <1>1. pc[t] \in Starting /\ pc[t] \notin Ending /\ pc[t] # "claim"
    BY DEF Starting, Ending
  <1>2. /\ mutex = t /\ t # Null /\ t # Hup /\ hpc # "kill" /\ infotty /\ count > 0
        /\ \A u \in Task : u # t => pc[u] \notin Starting \cup Ending
    BY <1>1, Sole DEF IInv, MutexInv
  <1>3. l \notin Ending /\ l \notin ShutDown /\ l \notin {"blocked", "woken", "open"}
    BY DEF Starting, Ending, ShutDown
  <1>4. RxClaim' /\ RxInv'
    BY <1>1, <1>2 DEF IInv, RxClaim, RxInv, Moves, Starting, Enabled
  <1>5. MutexInv'
    BY <1>1, <1>2, <1>3, UartAssumption DEF IInv, MutexInv, Moves, Starting, Ending, ShutDown
  <1>6. ToldInv'
    BY <1>1, <1>3 DEF IInv, ToldInv, Moves
  <1>7. WaitInv'
    BY <1>1, <1>3 DEF IInv, WaitInv, Moves, Ending, ShutDown
  <1>8. CountInv'
    BY <1>1, CountMove DEF IInv, CountInv, WaitPc, CountedPc, Starting
  <1>. QED BY <1>4, <1>5, <1>6, <1>7, <1>8 DEF IInv

LEMMA StartupFailsMoves ==
    ASSUME TypeOK, NEW t \in Task, StartupFails(t)
    PROVE  /\ cpu' = t /\ pc' \in [Task -> Label]
           /\ \E l \in {"ready", "close"} :
                /\ Moves(t, l)
                /\ (l \in Starting /\ UNCHANGED mutex) \/ (l = "close" /\ mutex' = Null)
  <1>1. {"ready", "close"} \subseteq Label /\ "ready" \in Starting
    BY DEF Label, Starting
  <1>. QED BY <1>1, GotoMoves DEF StartupFails

LEMMA GetPageInv ==
    ASSUME IInv, NEW t \in Task, GetPage(t)
    PROVE  IInv'
  <1>1. /\ TypeOK /\ pc[t] = "page" /\ cpu' = Null
        /\ UNCHANGED <<coreVars, initialized, infotty, tlet, ttyVars, txVars, rxVars, hwVars, hpc, calm>>
    BY DEF IInv, RxClaim, GetPage
  <1>2. {"reqtx", "close"} \subseteq Label /\ "reqtx" \in Starting
    BY DEF Label, Starting
  <1>3. PICK l \in {"reqtx", "close"} :
          /\ Moves(t, l) /\ pc' \in [Task -> Label]
          /\ (l \in Starting /\ UNCHANGED mutex) \/ (l = "close" /\ mutex' = Null)
    BY <1>1, <1>2, GotoMoves DEF GetPage
  <1>4. buf' \in BOOLEAN
    BY <1>1 DEF TypeOK, GetPage
  <1>5. xmit' \in 0..XmitSize
    BY <1>1, UartAssumption DEF TypeOK, GetPage
  <1>6. TypeOK'
    BY <1>1, <1>3, <1>4, <1>5 DEF TypeOK, coreVars, ttyVars, txVars, rxVars, hwVars
  <1>7. UNCHANGED <<count, blocked_open, infotty, initialized, io_error, hung, hpc, calm, rx_claimed, rx>>
    BY <1>1 DEF coreVars, ttyVars, rxVars
  <1>. QED BY <1>1, <1>2, <1>3, <1>6, <1>7, StartingInv

LEMMA RequestTxInv ==
    ASSUME IInv, NEW t \in Task, RequestTx(t)
    PROVE  IInv'
  <1>1. /\ TypeOK /\ pc[t] = "reqtx"
        /\ UNCHANGED <<coreVars, infoVars, ttyVars, tx_claimed, rxVars, hwVars, hpc, calm>>
    BY DEF IInv, RxClaim, RequestTx
  <1>2. {"reqrx", "ready", "close"} \subseteq Label /\ "reqrx" \in Starting
    BY DEF Label, Starting
  <1>3. PICK l \in {"reqrx", "ready", "close"} :
          /\ Moves(t, l) /\ pc' \in [Task -> Label]
          /\ (l \in Starting /\ UNCHANGED mutex) \/ (l = "close" /\ mutex' = Null)
    BY <1>1, <1>2, GotoMoves, StartupFailsMoves DEF RequestTx
  <1>4. tx' \in IrqType
    BY <1>1, IrqOperations DEF RequestTx, TypeOK, IrqType
  <1>5. cpu' \in {t, Null}
    BY DEF RequestTx, StartupFails
  <1>6. TypeOK'
    BY <1>1, <1>3, <1>4, <1>5 DEF TypeOK, IrqType, coreVars, infoVars, ttyVars, rxVars, hwVars
  <1>7. UNCHANGED <<count, blocked_open, infotty, initialized, io_error, hung, hpc, calm, rx_claimed, rx>>
    BY <1>1 DEF coreVars, infoVars, ttyVars, rxVars
  <1>. QED BY <1>1, <1>2, <1>3, <1>6, <1>7, StartingInv

LEMMA RequestRxInv ==
    ASSUME IInv, NEW t \in Task, RequestRx(t)
    PROVE  IInv'
  <1>1. /\ TypeOK /\ pc[t] = "reqrx" /\ tx \in IrqType /\ rx \in IrqType
        /\ UNCHANGED <<coreVars, infoVars, ttyVars, tx_claimed, rx_claimed, hwVars, hpc, calm>>
    BY DEF IInv, RxClaim, RequestRx, TypeOK, IrqType
  <1>2. {"claim", "ready", "close"} \subseteq Label /\ "claim" \in Starting
    BY DEF Label, Starting
  <1>3. PICK l \in {"claim", "ready", "close"} :
          /\ Moves(t, l) /\ pc' \in [Task -> Label]
          /\ (l \in Starting /\ UNCHANGED mutex) \/ (l = "close" /\ mutex' = Null)
          /\ \/ l = "claim" /\ ~rx.act /\ rx' = Requested(rx) /\ UNCHANGED tx
             \/ l # "claim" /\ tx' = Freed(tx) /\ UNCHANGED rx
    <2>1. CASE ~rx.act /\ rx' = Requested(rx) /\ Goto(t, "claim") /\ UNCHANGED <<tx, mutex>>
      BY <1>1, <1>2, <2>1, GotoMoves
    <2>2. CASE tx' = Freed(tx) /\ StartupFails(t) /\ UNCHANGED rx
      BY <1>1, <1>2, <2>2, StartupFailsMoves
    <2>. QED BY <2>1, <2>2 DEF RequestRx
  <1>4. tx' \in IrqType /\ rx' \in IrqType /\ (l = "claim" => Enabled(rx'))
    BY <1>1, <1>3, IrqOperations
  <1>5. cpu' \in {t, Null}
    BY DEF RequestRx, StartupFails
  <1>6. TypeOK'
    BY <1>1, <1>3, <1>4, <1>5 DEF TypeOK, IrqType, coreVars, infoVars, ttyVars, hwVars
  <1>7. UNCHANGED <<count, blocked_open, infotty, initialized, io_error, hung, hpc, calm, rx_claimed>>
    BY <1>1 DEF coreVars, infoVars, ttyVars
  <1>. QED BY <1>1, <1>2, <1>3, <1>4, <1>6, <1>7, StartingInv

LEMMA ClaimInv ==
    ASSUME IInv, NEW t \in Task, Claim(t)
    PROVE  IInv'
  <1>1. /\ TypeOK /\ pc[t] = "claim" /\ cpu' = t
        /\ tx_claimed' = TRUE /\ rx_claimed' = TRUE /\ fifo' = 0 /\ rxfifo' = FALSE
        /\ initialized' = TRUE /\ io_error' = FALSE
        /\ UNCHANGED <<coreVars, infotty, buf, xmit, tlet, stopped, closing, flip, hung, tx, rx,
                       x_char, mutex, hpc, calm>>
    BY DEF IInv, RxClaim, Claim, StartupDone
  <1>2. Moves(t, "ready") /\ pc' \in [Task -> Label]
    <2>1. "ready" \in Label
      BY DEF Label
    <2>. QED BY <2>1, <1>1, GotoMoves DEF Claim
  <1>3. "claim" \in Starting /\ "ready" \in Starting
    BY DEF Starting
  <1>4. /\ mutex = t /\ hpc # "kill" /\ infotty /\ count > 0
        /\ \A u \in Task : u # t => pc[u] \notin Starting \cup Ending
    BY <1>1, <1>3, Sole DEF IInv, MutexInv
  <1>5. TypeOK'
    <2>1. fifo' \in 0..FifoSize /\ cpu' \in Task
      BY <1>1, UartAssumption
    <2>2. /\ tx_claimed' \in BOOLEAN /\ rx_claimed' \in BOOLEAN /\ rxfifo' \in BOOLEAN
          /\ initialized' \in BOOLEAN /\ io_error' \in BOOLEAN
      BY <1>1
    <2>3. UNCHANGED <<coreVars, infotty, buf, xmit, tlet, stopped, closing, flip, hung, tx, rx,
                      x_char, mutex, hpc, calm>>
      BY <1>1
    <2>. QED BY <1>1, <1>2, <2>1, <2>2, <2>3 DEF TypeOK, coreVars
  <1>6. RxClaim' /\ RxInv'
    BY <1>1, <1>2, <1>5 DEF IInv, RxClaim, RxInv, Moves
  <1>7. MutexInv'
    BY <1>1, <1>2, <1>4, UartAssumption DEF IInv, MutexInv, Moves, Starting, Ending, ShutDown, coreVars
  <1>8. ToldInv' /\ WaitInv'
    BY <1>1, <1>4 DEF ToldInv, WaitInv
  <1>9. CountInv'
    BY <1>1, <1>2, CountMove DEF IInv, CountInv, WaitPc, CountedPc, Starting, coreVars
  <1>. QED BY <1>6, <1>7, <1>8, <1>9 DEF IInv

\* OpenReturns, and what it leaves to its callers.
LEMMA OpenReturnsMoves ==
    ASSUME TypeOK, NEW t \in Task, OpenReturns(t)
    PROVE  /\ mutex' = Null /\ cpu' \in {t, Null} /\ pc' \in [Task -> Label]
           /\ normal_active' \in BOOLEAN
           /\ \E l \in {"open", "close"} : Moves(t, l) /\ (l = "open" => infotty /\ ~hung[t])
  <1>1. {"open", "close"} \subseteq Label
    BY DEF Label
  <1>2. normal_active' \in BOOLEAN
    BY DEF OpenReturns, TypeOK
  <1>. QED BY <1>1, <1>2, GotoMoves DEF OpenReturns

LEMMA BlockTilReadyInv ==
    ASSUME IInv, NEW t \in Task, BlockTilReady(t)
    PROVE  IInv'
  <1>1. /\ TypeOK /\ pc[t] = "ready"
        /\ UNCHANGED <<infoVars, ttyVars, txVars, rxVars, hwVars, hpc, calm>>
    BY DEF IInv, RxClaim, BlockTilReady
  <1>2. /\ mutex = t /\ t # Null /\ t # Hup /\ hpc # "kill" /\ infotty /\ count > 0
        /\ \A u \in Task : u # t => pc[u] \notin Starting \cup Ending
    <2>1. pc[t] \in Starting
      BY <1>1 DEF Starting
    <2>. QED BY <2>1, Sole DEF IInv, MutexInv
  <1>3. {"open", "close", "blocked"} \subseteq Label
    BY DEF Label
  <1>4. PICK l \in {"open", "close", "blocked"} :
          /\ Moves(t, l) /\ pc' \in [Task -> Label] /\ mutex' = Null /\ cpu' \in {t, Null}
          /\ normal_active' \in BOOLEAN
          /\ \/ l # "blocked" /\ UNCHANGED <<count, blocked_open>>
             \/ l = "blocked" /\ MustWait(t) /\ EnterBlocked
    <2>1. CASE OpenReturns(t) /\ UNCHANGED <<count, blocked_open>>
      BY <1>1, <2>1, OpenReturnsMoves
    <2>2. CASE /\ MustWait(t) /\ EnterBlocked /\ mutex' = Null /\ Goto(t, "blocked") /\ cpu' = Null
               /\ UNCHANGED normal_active
      BY <1>1, <1>3, <2>2, GotoMoves DEF TypeOK
    <2>. QED BY <2>1, <2>2 DEF BlockTilReady
  <1>5. count' \in Nat /\ blocked_open' \in Nat
    BY <1>1, <1>2, <1>4 DEF TypeOK, EnterBlocked
  <1>6. TypeOK'
    BY <1>1, <1>4, <1>5 DEF TypeOK, infoVars, ttyVars, txVars, rxVars, hwVars
  <1>7. RxClaim' /\ RxInv'
    BY <1>1, <1>4, <1>6 DEF IInv, RxClaim, RxInv, Moves, rxVars
  <1>8. MutexInv'
    BY <1>1, <1>2, <1>4, UartAssumption DEF IInv, MutexInv, Moves, Starting, Ending, ShutDown, infoVars
  <1>9. ToldInv'
    BY <1>1, <1>2, <1>4 DEF IInv, ToldInv, Moves, Starting, infoVars, ttyVars
  <1>10. WaitInv'
    BY <1>1, <1>2, <1>4 DEF IInv, WaitInv, Moves, Ending, ShutDown, infoVars, MustWait
  <1>11. CountInv'
    BY <1>1, <1>4, CountMove DEF IInv, CountInv, WaitPc, CountedPc, Starting, EnterBlocked, ttyVars
  <1>. QED BY <1>7, <1>8, <1>9, <1>10, <1>11 DEF IInv

LEMMA UnblockInv ==
    ASSUME IInv, NEW t \in Task, Unblock(t)
    PROVE  IInv'
  <1>1. /\ TypeOK /\ pc[t] \in {"blocked", "woken"} /\ mutex = Null
        /\ UNCHANGED <<infoVars, ttyVars, txVars, rxVars, hwVars, hpc, calm>>
    BY DEF IInv, RxClaim, Unblock
  <1>2. hpc # "kill" /\ \A u \in Task : pc[u] \notin Starting \cup Ending
    BY <1>1, Free
  <1>3. "blocked" \in Label
    BY DEF Label
  <1>4. PICK l \in {"open", "close", "blocked"} :
          /\ Moves(t, l) /\ pc' \in [Task -> Label] /\ mutex' = Null /\ cpu' \in {t, Null}
          /\ normal_active' \in BOOLEAN
          /\ \/ l = "blocked" /\ MustWait(t) /\ UNCHANGED <<count, blocked_open>>
             \/ l # "blocked" /\ (l = "open" => infotty /\ ~hung[t]) /\ LeaveBlocked
    <2>1. CASE /\ MustWait(t) /\ Goto(t, "blocked") /\ UNCHANGED <<coreVars, mutex, cpu>>
      <3>1. cpu' \in {t, Null}
        BY <2>1 DEF Unblock, Sched
      <3>. QED BY <1>1, <1>3, <2>1, <3>1, GotoMoves DEF TypeOK, coreVars
    <2>2. CASE LeaveBlocked /\ OpenReturns(t)
      BY <1>1, <2>2, OpenReturnsMoves
    <2>. QED BY <2>1, <2>2 DEF Unblock
  <1>5. blocked_open > 0
    <2>1. Waiting \in SUBSET Task /\ t \in Waiting
      BY <1>1 DEF Waiting
    <2>. QED BY <2>1, Members DEF IInv, CountInv
  <1>6. count' \in Nat /\ blocked_open' \in Nat
    BY <1>1, <1>4, <1>5 DEF TypeOK, LeaveBlocked
  <1>7. TypeOK'
    BY <1>1, <1>4, <1>6 DEF TypeOK, infoVars, ttyVars, txVars, rxVars, hwVars
  <1>8. RxClaim' /\ RxInv'
    BY <1>1, <1>4, <1>7 DEF IInv, RxClaim, RxInv, Moves, rxVars
  <1>9. MutexInv'
    BY <1>1, <1>2, <1>4, UartAssumption DEF IInv, MutexInv, Moves, Starting, Ending, ShutDown, infoVars
  <1>10. ToldInv'
    BY <1>1, <1>4 DEF IInv, ToldInv, Moves, Starting, infoVars, ttyVars
  <1>11. WaitInv'
    BY <1>1, <1>2, <1>4 DEF IInv, WaitInv, Moves, Ending, ShutDown, infoVars, MustWait
  <1>12. CountInv'
    BY <1>1, <1>4, CountMove DEF IInv, CountInv, WaitPc, CountedPc, Starting, LeaveBlocked, ttyVars
  <1>. QED BY <1>8, <1>9, <1>10, <1>11, <1>12 DEF IInv

-------------------------------------------------------------------------------
(* uart_close *)

LEMMA CloseFileInv ==
    ASSUME IInv, NEW t \in Task, CloseFile(t)
    PROVE  IInv'
  <1>1. /\ TypeOK /\ pc[t] = "open"
        /\ UNCHANGED <<coreVars, infoVars, ttyVars, txVars, rxVars, hwVars, mutex, hpc, cpu, calm>>
    BY DEF IInv, RxClaim, CloseFile
  <1>2. Moves(t, "close") /\ pc' \in [Task -> Label]
    <2>1. "close" \in Label
      BY DEF Label
    <2>. QED BY <2>1, <1>1, GotoMoves DEF CloseFile
  <1>3. TypeOK'
    BY <1>1, <1>2 DEF TypeOK, coreVars, infoVars, ttyVars, txVars, rxVars, hwVars
  <1>4. RxClaim' /\ RxInv'
    BY <1>1, <1>2, <1>3 DEF IInv, RxClaim, RxInv, Moves, rxVars
  <1>5. MutexInv'
    BY <1>1, <1>2 DEF IInv, MutexInv, Moves, Starting, Ending, ShutDown, coreVars, infoVars
  <1>6. ToldInv' /\ WaitInv'
    BY <1>1, <1>2 DEF IInv, ToldInv, WaitInv, Moves, Starting, ShutDown, infoVars, ttyVars
  <1>7. CountInv'
    BY <1>1, <1>2, CountMove DEF IInv, CountInv, WaitPc, CountedPc, coreVars, ttyVars
  <1>. QED BY <1>4, <1>5, <1>6, <1>7 DEF IInv

\* The count goes down by one: the repairs are for hangups and interrupted opens.
LEMMA NewCountValue ==
    ASSUME IInv, NEW t \in Task, pc[t] = "close"
    PROVE  NewCount \in Nat /\ (calm => NewCount = count - 1)
  <1>1. count \in Nat
    BY DEF IInv, RxClaim, TypeOK
  <1>2. Max({count - 1, 0}) = IF count - 1 >= 0 THEN count - 1 ELSE 0
    BY <1>1, MaxOfTwo
  <1>3. NewCount \in Nat
    BY <1>1, <1>2 DEF NewCount
  <1>4. ASSUME calm PROVE NewCount = count - 1
    <2>1. Counted \in SUBSET Files /\ Files \in SUBSET Task /\ Counted \in SUBSET Task /\ t \in Counted
      BY DEF Counted, Files, Starting
    <2>2. count = Cardinality(Counted)
      BY <1>4 DEF IInv, CountInv
    <2>3. count >= 1
      BY <2>1, <2>2, Members
    <2>4. IsFiniteSet(Files) /\ count <= Cardinality(Files)
      BY <2>1, <2>2, FS_Subset, UartAssumption
    <2>5. Cardinality(Files) = 1 => count = 1
      BY <1>1, <2>3, <2>4
    <2>. QED BY <1>1, <1>2, <2>3, <2>5 DEF NewCount
  <1>. QED BY <1>3, <1>4

LEMMA UartCloseInv ==
    ASSUME IInv, NEW t \in Task, UartClose(t)
    PROVE  IInv'
  <1>1. /\ TypeOK /\ pc[t] = "close" /\ mutex = Null
        /\ UNCHANGED <<blocked_open, normal_active, infoVars, io_error, stopped, flip, hung, txVars,
                       rxVars, hwVars, hpc, calm>>
    BY DEF IInv, RxClaim, UartClose
  <1>2. hpc # "kill" /\ \A u \in Task : pc[u] \notin Starting \cup Ending
    BY <1>1, Free
  <1>3. NewCount \in Nat /\ (calm => NewCount = count - 1)
    BY <1>1, NewCountValue
  <1>4. {"drain", "release"} \subseteq Label
    BY DEF Label
  <1>5. t # Null /\ t # Hup
    BY UartAssumption
  <1>6. PICK l \in {"drain", "release"} :
          /\ Moves(t, l) /\ pc' \in [Task -> Label] /\ cpu' \in {t, Null} /\ closing' \in BOOLEAN
          /\ \/ l = "release" /\ hung[t] /\ UNCHANGED <<mutex, count>>
             \/ l = "release" /\ UNCHANGED mutex /\ count' = NewCount
             \/ l = "drain" /\ mutex' = t /\ count' = 0 /\ count' = NewCount
    <2>1. CASE hung[t]
      BY <1>1, <1>4, <2>1, GotoMoves DEF UartClose, TypeOK
    <2>2. CASE ~hung[t] /\ NewCount > 0
      <3>1. /\ count' = NewCount /\ Goto(t, "release") /\ cpu' = Null /\ UNCHANGED <<mutex, closing>>
        BY <2>2 DEF UartClose
      <3>. QED BY <1>1, <1>4, <3>1, GotoMoves DEF TypeOK
    <2>3. CASE ~hung[t] /\ ~(NewCount > 0)
      <3>1. /\ count' = NewCount /\ mutex' = t /\ closing' = TRUE
            /\ Goto(t, "drain") /\ Unless(xmit + fifo > 0, t)
        BY <2>3 DEF UartClose
      <3>2. count' = 0
        BY <1>3, <2>3, <3>1
      <3>3. cpu' \in {t, Null}
        BY <3>1 DEF Unless
      <3>. QED BY <1>1, <1>4, <3>1, <3>2, <3>3, GotoMoves
    <2>. QED BY <2>1, <2>2, <2>3
  <1>7. TypeOK'
    <2>1. count' \in Nat /\ mutex' \in Task \cup {Hup, Null}
      BY <1>1, <1>3, <1>6 DEF TypeOK
    <2>. QED BY <1>1, <1>6, <2>1 DEF TypeOK, infoVars, txVars, rxVars, hwVars
  <1>8. RxClaim' /\ RxInv'
    BY <1>1, <1>6, <1>7 DEF IInv, RxClaim, RxInv, Moves, rxVars
  <1>9. MutexInv'
    BY <1>1, <1>2, <1>5, <1>6 DEF IInv, MutexInv, Moves, Starting, Ending, ShutDown, infoVars
  <1>10. ToldInv' /\ WaitInv'
    BY <1>1, <1>2, <1>6 DEF IInv, ToldInv, WaitInv, Moves, Starting, Ending, ShutDown, infoVars
  <1>11. CountInv'
    BY <1>1, <1>3, <1>6, CountMove DEF IInv, CountInv, WaitPc, CountedPc, Starting
  <1>. QED BY <1>8, <1>9, <1>10, <1>11 DEF IInv

\* The receiver stopped: what was enabled and claimed is disabled once.
LEMMA StopRxClaim ==
    ASSUME IInv, StopRx \/ UNCHANGED rxVars
    PROVE  /\ rx' \in IrqType /\ rx_claimed' \in BOOLEAN
           /\ rx_claimed' => UNCHANGED rx /\ rx_claimed
           /\ rx'.act /\ ~rx_claimed' => rx'.depth = 1 \/ (UNCHANGED rx /\ rx.act /\ ~rx_claimed)
  <1>1. rx \in IrqType /\ rx_claimed \in BOOLEAN /\ (rx_claimed => rx.act /\ rx.depth = 0)
    BY DEF IInv, RxClaim, TypeOK, IrqType, Enabled
  <1>2. DisableIrq(rx) \in IrqType /\ DisableIrq(rx).depth = rx.depth + 1
    BY <1>1, IrqOperations
  <1>3. CASE rx_claimed /\ StopRx
    <2>1. rx' = DisableIrq(rx) /\ rx_claimed' = FALSE
      BY <1>3 DEF StopRx
    <2>2. DisableIrq(rx).depth = 1
      BY <1>1, <1>2, <1>3
    <2>. QED BY <1>2, <2>1, <2>2
  <1>4. CASE ~rx_claimed /\ StopRx
    BY <1>1, <1>4 DEF StopRx
  <1>5. CASE UNCHANGED rxVars
    BY <1>1, <1>5 DEF rxVars
  <1>. QED BY <1>1, <1>3, <1>4, <1>5

LEMMA CloseStopRxInv ==
    ASSUME IInv, NEW t \in Task, CloseStopRx(t)
    PROVE  IInv'
  <1>1. /\ TypeOK /\ pc[t] = "drain"
        /\ UNCHANGED <<coreVars, infoVars, ttyVars, txVars, hwVars, mutex, hpc, calm>>
    BY DEF IInv, RxClaim, CloseStopRx
  <1>2. Moves(t, "wait") /\ pc' \in [Task -> Label] /\ cpu' \in {t, Null}
    <2>1. "wait" \in Label
      BY DEF Label
    <2>. QED BY <2>1, <1>1, GotoMoves DEF CloseStopRx, Unless
  <1>3. \A u \in Task : u # t => pc[u] \notin Starting \cup Ending
    BY <1>1, Sole DEF Ending
  <1>4. /\ rx' \in IrqType /\ rx_claimed' \in BOOLEAN
        /\ rx_claimed' => UNCHANGED rx /\ rx_claimed
        /\ rx'.act /\ ~rx_claimed' => rx'.depth = 1 \/ (UNCHANGED rx /\ rx.act /\ ~rx_claimed)
    BY StopRxClaim DEF CloseStopRx
  <1>5. TypeOK'
    BY <1>1, <1>2, <1>4 DEF TypeOK, IrqType, coreVars, infoVars, ttyVars, txVars, hwVars
  <1>6. RxClaim' /\ RxInv'
    BY <1>1, <1>2, <1>3, <1>4, <1>5 DEF IInv, RxClaim, RxInv, Moves, Starting, Enabled
  <1>7. MutexInv'
    BY <1>1, <1>2 DEF IInv, MutexInv, Moves, Starting, Ending, ShutDown, coreVars, infoVars
  <1>8. ToldInv' /\ WaitInv'
    BY <1>1, <1>2 DEF IInv, ToldInv, WaitInv, Moves, Starting, ShutDown, infoVars, ttyVars
  <1>9. CountInv'
    BY <1>1, <1>2, CountMove DEF IInv, CountInv, WaitPc, CountedPc, Starting, coreVars, ttyVars
  <1>. QED BY <1>6, <1>7, <1>8, <1>9 DEF IInv

\* The port is shut down: what was claimed is freed, the rest stays as it is.
LEMMA ShutdownRx ==
    ASSUME IInv, UartShutdown
    PROVE  /\ tx' \in IrqType /\ tx_claimed' \in BOOLEAN
           /\ rx' \in IrqType /\ rx_claimed' \in BOOLEAN
           /\ rx_claimed' => UNCHANGED rx /\ rx_claimed
           /\ rx'.act /\ ~rx_claimed' => UNCHANGED rx /\ ~rx_claimed
           /\ initialized' = FALSE /\ io_error' \in BOOLEAN
           /\ io_error' <=> io_error \/ infotty
  <1>1. /\ tx \in IrqType /\ tx_claimed \in BOOLEAN /\ rx \in IrqType /\ rx_claimed \in BOOLEAN
        /\ io_error \in BOOLEAN /\ infotty \in BOOLEAN
    BY DEF IInv, RxClaim, TypeOK, IrqType
  <1>2. /\ Freed(tx) \in IrqType /\ Freed(rx) \in IrqType /\ ~Freed(rx).act
    BY <1>1, IrqOperations
  <1>3. initialized' = FALSE /\ io_error' = (io_error \/ infotty)
    BY DEF UartShutdown
  <1>4. CASE initialized
    BY <1>1, <1>2, <1>3, <1>4 DEF UartShutdown, Shutdown
  <1>5. CASE ~initialized
    BY <1>1, <1>3, <1>5 DEF UartShutdown, txVars, rxVars
  <1>. QED BY <1>4, <1>5

LEMMA CloseShutdownInv ==
    ASSUME IInv, NEW t \in Task, CloseShutdown(t)
    PROVE  IInv'
  <1>1. /\ TypeOK /\ pc[t] = "wait" /\ UartShutdown
        /\ UNCHANGED <<coreVars, infotty, buf, xmit, tlet, stopped, closing, flip, hung, hwVars,
                       mutex, hpc, calm>>
    BY DEF IInv, RxClaim, CloseShutdown
  <1>2. Moves(t, "kill") /\ pc' \in [Task -> Label] /\ cpu' \in {t, Null}
    <2>1. "kill" \in Label
      BY DEF Label
    <2>. QED BY <2>1, <1>1, GotoMoves DEF CloseShutdown, Unless
  <1>3. \A u \in Task : u # t => pc[u] \notin Starting \cup Ending
    BY <1>1, Sole DEF Ending
  <1>4. /\ tx' \in IrqType /\ tx_claimed' \in BOOLEAN
        /\ rx' \in IrqType /\ rx_claimed' \in BOOLEAN
        /\ rx_claimed' => UNCHANGED rx /\ rx_claimed
        /\ rx'.act /\ ~rx_claimed' => UNCHANGED rx /\ ~rx_claimed
    BY <1>1, ShutdownRx
  <1>5. initialized' = FALSE /\ io_error' \in BOOLEAN /\ (io_error' <=> io_error \/ infotty)
    BY <1>1, ShutdownRx
  <1>6. TypeOK'
    <2>1. initialized' \in BOOLEAN
      BY <1>5
    <2>. QED BY <1>1, <1>2, <1>4, <1>5, <2>1 DEF TypeOK, IrqType, coreVars, hwVars
  <1>7. RxClaim' /\ RxInv'
    BY <1>1, <1>2, <1>3, <1>4, <1>6 DEF IInv, RxClaim, RxInv, Moves, Starting, Enabled
  <1>8. MutexInv'
    BY <1>1, <1>2, <1>5 DEF IInv, MutexInv, Moves, Starting, Ending, ShutDown, coreVars
  <1>9. ToldInv'
    BY <1>1, <1>2, <1>5 DEF IInv, ToldInv, Moves, Starting
  <1>10. WaitInv'
    BY <1>2 DEF WaitInv, Moves, ShutDown
  <1>11. CountInv'
    BY <1>1, <1>2, CountMove DEF IInv, CountInv, WaitPc, CountedPc, Starting, coreVars
  <1>. QED BY <1>7, <1>8, <1>9, <1>10, <1>11 DEF IInv

LEMMA CloseFreeBufInv ==
    ASSUME IInv, NEW t \in Task, CloseFreeBuf(t)
    PROVE  IInv'
  <1>1. /\ TypeOK /\ pc[t] = "kill" /\ buf' = FALSE /\ cpu' = t
        /\ UNCHANGED <<coreVars, initialized, infotty, xmit, tlet, ttyVars, txVars, rxVars, hwVars,
                       mutex, hpc, calm>>
    BY DEF IInv, RxClaim, CloseFreeBuf
  <1>2. Moves(t, "flush") /\ pc' \in [Task -> Label]
    <2>1. "flush" \in Label
      BY DEF Label
    <2>. QED BY <2>1, <1>1, GotoMoves DEF CloseFreeBuf
  <1>3. TypeOK'
    <2>1. buf' \in BOOLEAN /\ cpu' \in Task
      BY <1>1
    <2>. QED BY <1>1, <1>2, <2>1 DEF TypeOK, coreVars, ttyVars, txVars, rxVars, hwVars
  <1>4. RxClaim' /\ RxInv'
    BY <1>1, <1>2, <1>3 DEF IInv, RxClaim, RxInv, Moves, rxVars
  <1>5. MutexInv'
    BY <1>1, <1>2 DEF IInv, MutexInv, Moves, Starting, Ending, ShutDown, coreVars
  <1>6. ToldInv'
    BY <1>1, <1>2 DEF IInv, ToldInv, Moves, Starting, ttyVars
  <1>7. WaitInv'
    BY <1>2 DEF WaitInv, Moves, ShutDown
  <1>8. CountInv'
    BY <1>1, <1>2, CountMove DEF IInv, CountInv, WaitPc, CountedPc, Starting, coreVars, ttyVars
  <1>. QED BY <1>4, <1>5, <1>6, <1>7, <1>8 DEF IInv

LEMMA CloseFlushInv ==
    ASSUME IInv, NEW t \in Task, CloseFlush(t)
    PROVE  IInv'
  <1>1. /\ TypeOK /\ pc[t] = "flush"
        /\ xmit' = 0 /\ flip' = FALSE /\ closing' = FALSE /\ infotty' = FALSE
        /\ UNCHANGED <<coreVars, initialized, buf, tlet, io_error, stopped, hung, txVars, rxVars,
                       hwVars, mutex, hpc, calm>>
    BY DEF IInv, RxClaim, CloseFlush, Flush
  <1>2. Moves(t, "wake") /\ pc' \in [Task -> Label] /\ cpu' \in {t, Null}
    <2>1. "wake" \in Label
      BY DEF Label
    <2>. QED BY <2>1, <1>1, GotoMoves DEF CloseFlush, Unless
  <1>3. /\ ~initialized
        /\ \A u \in Task : u # t => pc[u] \notin Starting \cup Ending
    BY <1>1, Sole DEF IInv, MutexInv, Ending, ShutDown
  <1>4. TypeOK'
    <2>1. xmit' \in 0..XmitSize
      BY <1>1, UartAssumption
    <2>2. flip' \in BOOLEAN /\ closing' \in BOOLEAN /\ infotty' \in BOOLEAN
      BY <1>1
    <2>. QED BY <1>1, <1>2, <2>1, <2>2 DEF TypeOK, coreVars, txVars, rxVars, hwVars
  <1>5. RxClaim' /\ RxInv'
    BY <1>1, <1>2, <1>4 DEF IInv, RxClaim, RxInv, Moves, rxVars
  <1>6. MutexInv'
    BY <1>1, <1>2, <1>3 DEF IInv, MutexInv, Moves, Starting, Ending, ShutDown, coreVars
  <1>7. ToldInv'
    BY <1>1, <1>2, <1>3 DEF IInv, ToldInv, Moves, Starting
  <1>8. WaitInv'
    BY <1>2 DEF WaitInv, Moves, ShutDown
  <1>9. CountInv'
    BY <1>1, <1>2, CountMove DEF IInv, CountInv, WaitPc, CountedPc, Starting, coreVars
  <1>. QED BY <1>5, <1>6, <1>7, <1>8, <1>9 DEF IInv

LEMMA ReleaseInv ==
    ASSUME IInv, NEW t \in Task, Release(t)
    PROVE  IInv'
  <1>1. /\ TypeOK /\ pc[t] = "release"
        /\ UNCHANGED <<coreVars, infoVars, io_error, stopped, closing, hung, txVars, rxVars, hwVars,
                       mutex, hpc, cpu, calm>>
    BY DEF IInv, RxClaim, Release
  <1>2. Moves(t, "none") /\ pc' \in [Task -> Label]
    <2>1. "none" \in Label
      BY DEF Label
    <2>. QED BY <2>1, <1>1, GotoMoves DEF Release
  <1>3. TypeOK'
    <2>1. flip' \in BOOLEAN
      BY <1>1 DEF Release, TypeOK
    <2>. QED BY <1>1, <1>2, <2>1 DEF TypeOK, coreVars, infoVars, txVars, rxVars, hwVars
  <1>4. RxClaim' /\ RxInv'
    BY <1>1, <1>2, <1>3 DEF IInv, RxClaim, RxInv, Moves, rxVars
  <1>5. MutexInv'
    BY <1>1, <1>2 DEF IInv, MutexInv, Moves, Starting, Ending, ShutDown, coreVars, infoVars
  <1>6. ToldInv' /\ WaitInv'
    BY <1>1, <1>2 DEF IInv, ToldInv, WaitInv, Moves, Starting, ShutDown, infoVars
  <1>7. CountInv'
    BY <1>1, <1>2, CountMove DEF IInv, CountInv, WaitPc, CountedPc, Starting, coreVars
  <1>. QED BY <1>4, <1>5, <1>6, <1>7 DEF IInv

LEMMA CloseWakeInv ==
    ASSUME IInv, NEW t \in Task, CloseWake(t)
    PROVE  IInv'
  <1>1. /\ TypeOK /\ pc[t] = "wake" /\ normal_active' = FALSE /\ mutex' = Null /\ cpu' = Null
        /\ UNCHANGED <<count, blocked_open, infoVars, ttyVars, txVars, rxVars, hwVars, hpc, calm>>
    BY DEF IInv, RxClaim, CloseWake
  <1>2. /\ pc' \in [Task -> Label] /\ pc'[t] = "release"
        /\ \A u \in Task : u # t => pc'[u] = IF pc[u] = "blocked" THEN "woken" ELSE pc[u]
    BY <1>1 DEF CloseWake, WakeOpenWait, TypeOK, Label
  <1>3. /\ t # Null /\ t # Hup /\ hpc # "kill" /\ ~initialized
        /\ \A u \in Task : u # t => pc[u] \notin Starting \cup Ending
    BY <1>1, Sole DEF IInv, MutexInv, Ending, ShutDown
  <1>4. TypeOK'
    <2>1. normal_active' \in BOOLEAN
      BY <1>1
    <2>. QED BY <1>1, <1>2, <2>1 DEF TypeOK, infoVars, ttyVars, txVars, rxVars, hwVars
  <1>5. RxClaim' /\ RxInv'
    BY <1>1, <1>2, <1>4 DEF IInv, RxClaim, RxInv, rxVars
  <1>6. MutexInv'
    BY <1>1, <1>2, <1>3, UartAssumption DEF MutexInv, Starting, Ending, ShutDown
  <1>7. ToldInv'
    BY <1>1, <1>2 DEF IInv, ToldInv, Starting, infoVars, ttyVars
  <1>8. WaitInv'
    BY <1>2 DEF WaitInv
  <1>9. Waiting' = Waiting /\ Counted' = Counted
    BY <1>1, <1>2 DEF Waiting, Counted, Starting
  <1>10. CountInv'
    BY <1>1, <1>9 DEF IInv, CountInv, ttyVars
  <1>. QED BY <1>5, <1>6, <1>7, <1>8, <1>10 DEF IInv

-------------------------------------------------------------------------------
(* Hangup *)

LEMMA DoTtyHangupInv ==
    ASSUME IInv, DoTtyHangup
    PROVE  IInv'
  <1>1. /\ TypeOK /\ ~calm /\ hpc = "idle" /\ hpc' = "hangup" /\ xmit' = 0 /\ io_error' = FALSE
        /\ UNCHANGED <<coreVars, initialized, infotty, buf, tlet, stopped, closing, flip, txVars,
                       rxVars, hwVars, mutex, pc, calm>>
    BY DEF IInv, RxClaim, DoTtyHangup
  <1>2. /\ hung' \in [Task -> BOOLEAN]
        /\ \A u \in Task : pc[u] # "none" => hung'[u]
    BY <1>1 DEF DoTtyHangup, TypeOK
  <1>3. TypeOK'
    <2>1. io_error' \in BOOLEAN /\ cpu' \in {Hup, Null}
      BY <1>1 DEF DoTtyHangup, Unless
    <2>2. xmit' \in 0..XmitSize
      BY <1>1, UartAssumption
    <2>. QED BY <1>1, <1>2, <2>1, <2>2 DEF TypeOK, coreVars, txVars, rxVars, hwVars
  <1>4. RxClaim' /\ RxInv'
    BY <1>1, <1>3 DEF IInv, RxClaim, RxInv, rxVars
  <1>5. MutexInv'
    BY <1>1 DEF IInv, MutexInv, coreVars
  <1>6. ToldInv'
    BY <1>1, <1>2 DEF ToldInv, Starting
  <1>7. WaitInv'
    BY <1>1 DEF IInv, WaitInv
  <1>8. CountInv'
    BY <1>1 DEF IInv, CountInv, Waiting, Counted, coreVars
  <1>. QED BY <1>4, <1>5, <1>6, <1>7, <1>8 DEF IInv

LEMMA UartHangupInv ==
    ASSUME IInv, UartHangup
    PROVE  IInv'
  <1>1. /\ TypeOK /\ hpc = "hangup" /\ mutex = Null /\ ~calm
        /\ UNCHANGED <<coreVars, infotty, buf, tlet, stopped, closing, flip, hung, hwVars, pc, calm>>
    BY DEF IInv, RxClaim, CountInv, UartHangup
  <1>2. \A u \in Task : pc[u] \notin Starting \cup Ending
    BY <1>1, Free
  <1>3. Waiting' = Waiting /\ Counted' = Counted
    BY <1>1 DEF Waiting, Counted
  <1>4. CountInv'
    BY <1>1, <1>3 DEF IInv, CountInv, coreVars
  <1>5. CASE normal_active
    <2>1. xmit' = 0 /\ UartShutdown /\ mutex' = Hup /\ hpc' = "kill" /\ cpu' \in {Hup, Null}
      BY <1>5 DEF UartHangup, Unless
    <2>2. /\ tx' \in IrqType /\ tx_claimed' \in BOOLEAN
          /\ rx' \in IrqType /\ rx_claimed' \in BOOLEAN
          /\ rx_claimed' => UNCHANGED rx /\ rx_claimed
          /\ rx'.act /\ ~rx_claimed' => UNCHANGED rx /\ ~rx_claimed
      BY <2>1, ShutdownRx
    <2>3. initialized' = FALSE /\ io_error' \in BOOLEAN /\ (io_error' <=> io_error \/ infotty)
      BY <2>1, ShutdownRx
    <2>4. TypeOK'
      <3>1. initialized' \in BOOLEAN
        BY <2>3
      <3>2. xmit' \in 0..XmitSize
        BY <2>1, UartAssumption
      <3>. QED BY <1>1, <2>1, <2>2, <2>3, <3>1, <3>2 DEF TypeOK, IrqType, coreVars, hwVars
    <2>5. RxClaim' /\ RxInv'
      BY <1>1, <1>2, <2>2, <2>4 DEF IInv, RxClaim, RxInv, Starting, Enabled
    <2>6. MutexInv'
      BY <1>1, <1>2, <2>1, <2>3, UartAssumption DEF MutexInv, ShutDown, Ending
    <2>7. ToldInv' /\ WaitInv'
      BY <1>1, <2>1, <2>3 DEF IInv, ToldInv, WaitInv
    <2>. QED BY <1>4, <2>5, <2>6, <2>7 DEF IInv
  <1>6. CASE ~normal_active
    <2>1. /\ hpc' = "idle" /\ cpu' = Null
          /\ UNCHANGED <<xmit, io_error, initialized, txVars, rxVars, mutex>>
      BY <1>6 DEF UartHangup
    <2>2. TypeOK'
      BY <1>1, <2>1 DEF TypeOK, coreVars, txVars, rxVars, hwVars
    <2>3. RxClaim' /\ RxInv'
      BY <1>1, <2>1, <2>2 DEF IInv, RxClaim, RxInv, rxVars
    <2>4. MutexInv'
      BY <1>1, <2>1 DEF IInv, MutexInv, coreVars
    <2>5. ToldInv' /\ WaitInv'
      BY <1>1, <2>1 DEF IInv, ToldInv, WaitInv
    <2>. QED BY <1>4, <2>3, <2>4, <2>5 DEF IInv
  <1>. QED BY <1>5, <1>6

LEMMA HangupEndsInv ==
    ASSUME IInv, HangupEnds
    PROVE  IInv'
  <1>1. /\ TypeOK /\ hpc = "kill" /\ buf' = FALSE /\ infotty' = FALSE /\ count' = 0
        /\ normal_active' = FALSE /\ mutex' = Null /\ hpc' = "idle" /\ cpu' = Null /\ ~calm
        /\ UNCHANGED <<blocked_open, initialized, xmit, tlet, ttyVars, txVars, rxVars, hwVars, calm>>
    BY DEF IInv, RxClaim, CountInv, HangupEnds
  <1>2. /\ pc' \in [Task -> Label]
        /\ \A u \in Task : pc'[u] = IF pc[u] = "blocked" THEN "woken" ELSE pc[u]
    BY <1>1 DEF HangupEnds, WakeOpenWait, TypeOK, Label
  <1>3. ~initialized /\ mutex = Hup /\ \A u \in Task : pc[u] \notin Starting \cup Ending
    BY <1>1, UartAssumption DEF IInv, MutexInv
  <1>4. TypeOK'
    <2>1. buf' \in BOOLEAN /\ infotty' \in BOOLEAN /\ normal_active' \in BOOLEAN /\ count' \in Nat
      BY <1>1
    <2>. QED BY <1>1, <1>2, <2>1 DEF TypeOK, ttyVars, txVars, rxVars, hwVars
  <1>5. RxClaim' /\ RxInv'
    BY <1>1, <1>2, <1>4 DEF IInv, RxClaim, RxInv, rxVars
  <1>6. MutexInv'
    BY <1>1, <1>2, <1>3, UartAssumption DEF MutexInv, Starting, Ending, ShutDown
  <1>7. ToldInv'
    BY <1>1, <1>2, <1>3 DEF IInv, ToldInv, Starting, ttyVars
  <1>8. WaitInv'
    BY <1>2 DEF WaitInv
  <1>9. Waiting' = Waiting
    BY <1>2 DEF Waiting
  <1>10. CountInv'
    BY <1>1, <1>9 DEF IInv, CountInv
  <1>. QED BY <1>5, <1>6, <1>7, <1>8, <1>10 DEF IInv

-------------------------------------------------------------------------------
(* The theorems *)

LEMMA TaskInv ==
    ASSUME IInv, NEW t \in Task,
           \/ TtyOpen(t) \/ Opening(t) \/ UartGetInterrupted(t) \/ Unblock(t)
           \/ Write(t) \/ SendXchar(t) \/ FlowControl(t) \/ CloseFile(t) \/ Closing(t)
    PROVE  IInv'
  <1>1. ASSUME Opening(t) PROVE IInv'
    BY <1>1, UartGetInv, GetPageInv, RequestTxInv, RequestRxInv, ClaimInv, BlockTilReadyInv
       DEF Opening
  <1>2. ASSUME Closing(t) PROVE IInv'
    BY <1>2, UartCloseInv, CloseStopRxInv, CloseShutdownInv, CloseFreeBufInv, CloseFlushInv,
       CloseWakeInv, ReleaseInv DEF Closing
  <1>. QED BY <1>1, <1>2, TtyOpenInv, UartGetInterruptedInv, UnblockInv, WriteInv, SendXcharInv,
              FlowControlInv, CloseFileInv

LEMMA NextInv ==
    ASSUME IInv, [Next]_vars
    PROVE  IInv'
  <1>1. ASSUME Interrupt PROVE IInv'
    BY <1>1, TxIntInv, RxIntInv, TaskletActionInv, LineInv DEF Interrupt
  <1>. QED BY <1>1, TaskInv, ReceiveInv, StartOrStopInv, DoTtyHangupInv, UartHangupInv,
              HangupEndsInv, StutterInv DEF Next

\* The inductive invariant of the port: who holds the mutex and what he has done, the
\* receive interrupt against its flag, who has been told of a port that is down, who is to
\* wake the opens that sleep, and the two counts.
THEOREM Invariance ==
    Safety => []IInv
  <1>1. Init => IInv
    BY InitInv
  <1>2. IInv /\ [Next]_vars => IInv'
    BY NextInv
  <1>. QED BY <1>1, <1>2, PTL DEF Safety

\* The flag rx_claimed and the interrupt agree whatever the order of opens, closes and
\* hangups: stop_rx, which disables, and shutdown, which frees, never meet a claimed
\* interrupt that is not enabled; and state->count and blocked_open are never negative.
THEOREM RxClaimHolds ==
    Safety => []RxClaim
  <1>1. IInv => RxClaim
    BY DEF IInv
  <1>. QED BY <1>1, Invariance, PTL

\* Nobody uses a port that is down without TTY_IO_ERROR, although the close of an
\* interrupted open shuts it down under him and a hangup clears the flag.
THEOREM UserToldHolds ==
    Safety => []UserTold
  <1>1. IInv => UserTold
    BY DEF IInv, ToldInv, UserTold, Using
  <1>. QED BY <1>1, Invariance, PTL

\* No open goes on sleeping for the carrier of a port that was shut down: uart_close and
\* uart_hangup wake it before they release the mutex.
THEOREM OpenWaitsForPortHolds ==
    Safety => []OpenWaitsForPort
  <1>1. ASSUME IInv PROVE OpenWaitsForPort
    <2>. SUFFICES ASSUME NEW t \in Task, pc[t] = "blocked", mutex = Null
                  PROVE  initialized /\ infotty
      BY DEF OpenWaitsForPort
    <2>1. hpc # "kill" /\ \A u \in Task : pc[u] \notin ShutDown
      BY <1>1, Free DEF Ending, ShutDown
    <2>. QED BY <1>1, <2>1 DEF IInv, WaitInv
  <1>. QED BY <1>1, Invariance, PTL

\* The only steps that take a port down are the two shutdowns.
LEMMA TakenDown ==
    ASSUME IInv, [Next]_vars, initialized, ~initialized'
    PROVE  UartHangup \/ \E t \in Task : CloseShutdown(t)
  <1>1. CASE Interrupt
    BY <1>1 DEF Interrupt, TxInt, RxInt, TaskletAction, Line, infoVars
  <1>2. CASE Receive \/ StartOrStop
    BY <1>2 DEF Receive, StartOrStop, infoVars
  <1>3. ASSUME NEW t \in Task,
               \/ TtyOpen(t) \/ UartGetInterrupted(t) \/ Unblock(t)
               \/ Write(t) \/ SendXchar(t) \/ FlowControl(t) \/ CloseFile(t)
        PROVE  FALSE
    BY <1>3 DEF TtyOpen, UartGetInterrupted, Unblock, Write, SendXchar, FlowControl, CloseFile, infoVars
  <1>4. ASSUME NEW t \in Task, Opening(t) PROVE FALSE
    BY <1>4 DEF Opening, UartGet, GetPage, RequestTx, RequestRx, Claim, StartupDone, BlockTilReady, infoVars
  <1>5. ASSUME NEW t \in Task, Closing(t) PROVE CloseShutdown(t)
    BY <1>5 DEF Closing, UartClose, CloseStopRx, CloseFreeBuf, CloseFlush, CloseWake, Release, infoVars
  <1>6. CASE DoTtyHangup \/ HangupEnds
    BY <1>6 DEF DoTtyHangup, HangupEnds
  <1>7. CASE UNCHANGED vars
    BY <1>7 DEF vars, infoVars
  <1>. QED BY <1>1, <1>2, <1>3, <1>4, <1>5, <1>6, <1>7 DEF Next

\* As long as nobody hangs the tty up and no signal interrupts the wait for the mutex, a
\* port is shut down only when it has no more users (Documentation/serial/driver), whatever
\* opens are blocked, fail or wait for the mutex.  uart_set_info, uart_do_autoconfig and
\* uart_suspend_port, which shut it down under a user, are not modelled.
THEOREM ShutdownWhenUnusedHolds ==
    Safety => ShutdownWhenUnused
  <1>1. ASSUME IInv, [Next]_vars, calm, initialized, ~initialized', NEW u \in Task, Using(u)
        PROVE  FALSE
    <2>1. ~UartHangup
      BY <1>1 DEF IInv, CountInv, UartHangup
    <2>2. PICK t \in Task : CloseShutdown(t)
      BY <1>1, <2>1, TakenDown
    <2>3. pc[t] \in Ending
      BY <2>2 DEF CloseShutdown, Ending
    <2>4. count = 0 /\ count = Cardinality(Counted)
      BY <1>1, <2>3 DEF IInv, MutexInv, CountInv
    <2>5. u \in Counted /\ Counted \in SUBSET Task
      BY <1>1 DEF Using, Counted
    <2>. QED BY <2>4, <2>5, Members
  <1>2. IInv /\ [Next]_vars => [calm /\ initialized /\ ~initialized' => \A t \in Task : ~Using(t)]_vars
    BY <1>1
  <1>. QED BY <1>2, Invariance, PTL DEF Safety, ShutdownWhenUnused

===============================================================================
