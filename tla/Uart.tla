---------------------------------- MODULE Uart ----------------------------------
(***************************************************************************)
(* One MMSP2 serial port: drivers/serial/serial_core.c (open, close,       *)
(* hangup, write, start, stop) on drivers/serial/mp25xxf_uart.c (startup,  *)
(* shutdown, start_tx, stop_tx, stop_rx and the two interrupt handlers).   *)
(*                                                                         *)
(* The kernel is not preemptible and there is one CPU: a task runs from    *)
(* one place where it sleeps to the next, and only interrupts and softirqs *)
(* come in between.  A step is such a run, cut again where an interrupt    *)
(* could see the difference; cpu says what the running task still has to   *)
(* do before anybody else is scheduled.  Characters are counted.  CTS/RTS  *)
(* flow control and XOFF by a throttled reader are left out.               *)
(***************************************************************************)
EXTENDS Integers, FiniteSets, FiniteSetsExt

CONSTANTS
    Task,       \* the users; each opens the port once at a time
    Hup,        \* the task that hangs the tty up
    Null,       \* NULL, or nobody
    XmitSize,   \* bound: characters the ring xmit holds
    FifoSize,   \* bound: characters the transmit FIFO holds
    WakeupChars \* WAKEUP_CHARS, scaled with XmitSize

ASSUME UartAssumption ==
    /\ XmitSize \in Nat \ {0} /\ FifoSize \in Nat \ {0} /\ WakeupChars \in Nat
    /\ IsFiniteSet(Task) /\ Hup \notin Task /\ Null \notin Task \cup {Hup}

VARIABLES
    \* struct uart_state, struct uart_info
    mutex, count, blocked_open, initialized, normal_active, infotty, buf, xmit, tlet,
    \* struct tty_struct, and the f_op of each file
    io_error, stopped, closing, flip, hung,
    \* struct mp25xxf_uart_port, its two interrupt lines and the hardware
    tx_claimed, rx_claimed, tx, rx, x_char, fifo, rxfifo,
    \* control; calm: nobody hangs the tty up, no signal ends the wait for the mutex
    pc, hpc, cpu, calm

coreVars == <<count, blocked_open, normal_active>>
infoVars == <<initialized, infotty, buf, xmit, tlet>>
ttyVars == <<io_error, stopped, closing, flip, hung>>
txVars == <<tx_claimed, tx>>
rxVars == <<rx_claimed, rx>>
hwVars == <<x_char, fifo, rxfifo>>
ctlVars == <<mutex, pc, hpc, cpu, calm>>
vars == <<coreVars, infoVars, ttyVars, txVars, rxVars, hwVars, ctlVars>>

Init ==
    /\ mutex = Null /\ count = 0 /\ blocked_open = 0
    /\ initialized = FALSE /\ normal_active = FALSE /\ infotty = FALSE
    /\ buf = FALSE /\ xmit = 0 /\ tlet = FALSE
    /\ io_error = FALSE /\ stopped = FALSE /\ closing = FALSE /\ flip = FALSE
    /\ hung = [t \in Task |-> FALSE]
    /\ tx_claimed = FALSE /\ rx_claimed = FALSE
    /\ tx = [act |-> FALSE, depth |-> 1] /\ rx = [act |-> FALSE, depth |-> 1]
    /\ x_char = FALSE /\ fifo = 0 /\ rxfifo = FALSE
    /\ pc = [t \in Task |-> "none"] /\ hpc = "idle" /\ cpu = Null
    /\ calm \in BOOLEAN

\* The files of the tty, tty->count of them.
Files == {t \in Task : pc[t] # "none"}

\* Plausible bug: the wakeup is forgotten.
WakeNobody == pc

\* wake_up_interruptible(&info->open_wait)
WakeOpenWait == [t \in Task |-> IF pc[t] = "blocked" THEN "woken" ELSE pc[t]]

\* Whoever runs goes on until it sleeps.
Sched == cpu = Null
Runs(a) == cpu \in {Null, a}
Unless(sleeps, a) == cpu' = IF sleeps THEN Null ELSE a

Goto(t, l) == pc' = [pc EXCEPT ![t] = l]

-------------------------------------------------------------------------------
(* The interrupt lines (kernel/irq/manage.c, see IrqFlow) *)

Requested(l) == [act |-> TRUE, depth |-> 0]
Freed(l) == [l EXCEPT !.act = FALSE]
Enabled(l) == l.act /\ l.depth = 0
EnableIrq(l) == [l EXCEPT !.depth = IF @ = 0 THEN 0 ELSE @ - 1]
DisableIrq(l) == [l EXCEPT !.depth = @ + 1]

-------------------------------------------------------------------------------
(* mp25xxf_uart.c: start, stop and the interrupts *)

StartTx ==
    /\ tx' = IF tx_claimed THEN tx ELSE EnableIrq(tx)
    /\ tx_claimed' = TRUE

StopTx ==
    /\ tx' = IF tx_claimed THEN DisableIrq(tx) ELSE tx
    /\ tx_claimed' = FALSE

\* Plausible bug: the flag is not cleared.
StopRxKeepsClaim ==
    /\ rx' = IF rx_claimed THEN DisableIrq(rx) ELSE rx
    /\ UNCHANGED rx_claimed

StopRx ==
    /\ rx' = IF rx_claimed THEN DisableIrq(rx) ELSE rx
    /\ rx_claimed' = FALSE

\* mp25xxf_uart_shutdown
Shutdown ==
    /\ tx' = IF tx_claimed THEN Freed(tx) ELSE tx
    /\ rx' = IF rx_claimed THEN Freed(rx) ELSE rx
    /\ tx_claimed' = FALSE /\ rx_claimed' = FALSE

\* mp25xxf_tx_int: the x_char first, then nothing, or as much as the FIFO takes.
TxInt ==
    /\ Enabled(tx) /\ fifo < FifoSize
    /\ \/ /\ x_char
          /\ x_char' = FALSE /\ fifo' = fifo + 1
          /\ UNCHANGED <<xmit, tlet, txVars>>
       \/ /\ ~x_char /\ (xmit = 0 \/ stopped)
          /\ StopTx
          /\ UNCHANGED <<x_char, fifo, xmit, tlet>>
       \/ /\ ~x_char /\ xmit > 0 /\ ~stopped
          /\ LET n == Min({xmit, FifoSize - fifo}) IN
             /\ xmit' = xmit - n /\ fifo' = fifo + n
             /\ tlet' = (tlet \/ xmit - n < WakeupChars)
             /\ IF xmit = n THEN StopTx ELSE UNCHANGED txVars
          /\ UNCHANGED x_char
    /\ UNCHANGED <<coreVars, initialized, infotty, buf, ttyVars, rxVars, rxfifo, ctlVars>>

\* mp25xxf_rx_int: the characters go to the flip buffer of info->tty.
RxInt ==
    /\ Enabled(rx) /\ rxfifo
    /\ rxfifo' = FALSE /\ flip' = TRUE
    /\ UNCHANGED <<coreVars, infoVars, io_error, stopped, closing, hung, txVars, rxVars,
                   x_char, fifo, ctlVars>>

\* uart_tasklet_action: wakes the writers of info->tty.
TaskletAction ==
    /\ tlet /\ tlet' = FALSE
    /\ UNCHANGED <<coreVars, initialized, infotty, buf, xmit, ttyVars, txVars, rxVars, hwVars, ctlVars>>

\* The hardware: a character is sent, or arrives.
Line ==
    /\ \/ fifo > 0 /\ fifo' = fifo - 1 /\ UNCHANGED rxfifo
       \/ ~rxfifo /\ rxfifo' = TRUE /\ UNCHANGED fifo
    /\ UNCHANGED <<coreVars, infoVars, ttyVars, txVars, rxVars, x_char, ctlVars>>

-------------------------------------------------------------------------------
(* Writing, and the line discipline *)

Using(t) == pc[t] = "open" /\ ~hung[t]

\* uart_write, its first critical section.  tty_write has looked at TTY_IO_ERROR
\* before it slept for its turn or for room: the flag may be stale here.
Write(t) ==
    /\ Using(t) /\ Sched /\ buf
    /\ xmit' \in xmit .. XmitSize
    /\ cpu' = "start"
    /\ UNCHANGED <<coreVars, initialized, infotty, buf, tlet, ttyVars, txVars, rxVars, hwVars,
                   mutex, pc, hpc, calm>>

\* uart_send_xchar without the lock, for TCXONC.
SendXchar(t) ==
    /\ Using(t) /\ Sched
    /\ x_char' = TRUE /\ cpu' = "start_tx"
    /\ UNCHANGED <<coreVars, infoVars, ttyVars, txVars, rxVars, fifo, rxfifo, mutex, pc, hpc, calm>>

StopTty == ~stopped /\ stopped' = TRUE /\ cpu' = "stop"
StartTty == stopped /\ stopped' = FALSE /\ cpu' = "start"

\* TCXONC.
FlowControl(t) ==
    /\ Using(t) /\ Sched
    /\ StopTty \/ StartTty
    /\ UNCHANGED <<coreVars, infoVars, io_error, closing, flip, hung, txVars, rxVars, hwVars, mutex, pc, hpc, calm>>

\* flush_to_ldisc in the events thread: a character is echoed with uart_put_char
\* and uart_flush_chars, or it is STOP_CHAR or START_CHAR.  While the port is
\* closing the line discipline only looks for these two.
Receive ==
    /\ flip /\ Sched
    /\ flip' = FALSE
    /\ \/ /\ ~closing
          /\ xmit' = IF buf /\ xmit < XmitSize THEN xmit + 1 ELSE xmit
          /\ cpu' = "start" /\ UNCHANGED stopped
       \/ (StopTty \/ StartTty) /\ UNCHANGED xmit
       \/ UNCHANGED <<xmit, stopped, cpu>>
    /\ UNCHANGED <<coreVars, initialized, infotty, buf, tlet, io_error, closing, hung,
                   txVars, rxVars, hwVars, mutex, pc, hpc, calm>>

\* uart_start, uart_stop, and the end of uart_send_xchar, under port->lock.
StartOrStop ==
    /\ \/ /\ cpu = "start"
          /\ IF xmit > 0 /\ buf /\ ~stopped THEN StartTx ELSE UNCHANGED txVars
       \/ cpu = "stop" /\ StopTx
       \/ cpu = "start_tx" /\ StartTx
    /\ cpu' = Null
    /\ UNCHANGED <<coreVars, infoVars, ttyVars, rxVars, hwVars, mutex, pc, hpc, calm>>

-------------------------------------------------------------------------------
(* uart_open *)

\* tty_open; a tty nobody has open is a new one.
TtyOpen(t) ==
    /\ pc[t] = "none" /\ Sched
    /\ Goto(t, "get")
    /\ hung' = [hung EXCEPT ![t] = FALSE]
    /\ IF Files = {} THEN io_error' = FALSE /\ stopped' = FALSE ELSE UNCHANGED <<io_error, stopped>>
    /\ UNCHANGED <<coreVars, infoVars, closing, flip, txVars, rxVars, hwVars, mutex, hpc, cpu, calm>>

\* uart_get.  A file that was hung up meanwhile leaves info->tty behind.
UartGet(t) ==
    /\ pc[t] = "get" /\ Sched /\ mutex = Null
    /\ infotty' = TRUE
    /\ IF hung[t]
       THEN Goto(t, "close") /\ cpu' = t /\ UNCHANGED <<mutex, count, io_error>>
       ELSE /\ mutex' = t /\ count' = count + 1
            /\ IF initialized
               THEN Goto(t, "ready") /\ cpu' = t /\ UNCHANGED io_error
               ELSE Goto(t, "page") /\ cpu' = Null /\ io_error' = TRUE
    /\ UNCHANGED <<blocked_open, normal_active, initialized, buf, xmit, tlet, stopped, closing, flip, hung, txVars,
                   rxVars, hwVars, hpc, calm>>

\* mutex_lock_interruptible fails, and uart_close is called all the same.
UartGetInterrupted(t) ==
    /\ pc[t] = "get" /\ Sched /\ mutex # Null /\ ~calm
    /\ Goto(t, "close")
    /\ UNCHANGED <<coreVars, infoVars, ttyVars, txVars, rxVars, hwVars, mutex, hpc, cpu, calm>>

\* An error is forgotten for CAP_SYS_ADMIN; the port stays uninitialized.
StartupFails(t) ==
    /\ cpu' = t
    /\ \/ Goto(t, "ready") /\ UNCHANGED mutex
       \/ Goto(t, "close") /\ mutex' = Null

\* uart_startup: the page for the ring, unless it is still there.
GetPage(t) ==
    /\ pc[t] = "page" /\ Sched /\ cpu' = Null
    /\ \/ buf' = TRUE /\ xmit' = (IF buf THEN xmit ELSE 0) /\ Goto(t, "reqtx") /\ UNCHANGED mutex
       \/ ~buf /\ Goto(t, "close") /\ mutex' = Null /\ UNCHANGED <<buf, xmit>>
    /\ UNCHANGED <<coreVars, initialized, infotty, tlet, ttyVars, txVars, rxVars, hwVars, hpc, calm>>

\* The first request_irq of the driver's startup: -EBUSY, or -ENOMEM.
RequestTx(t) ==
    /\ pc[t] = "reqtx" /\ Sched
    /\ \/ ~tx.act /\ tx' = Requested(tx) /\ Goto(t, "reqrx") /\ cpu' = Null /\ UNCHANGED mutex
       \/ StartupFails(t) /\ UNCHANGED tx
    /\ UNCHANGED <<coreVars, infoVars, ttyVars, tx_claimed, rxVars, hwVars, hpc, calm>>

\* The second one, and free_irq of the first when it fails.
RequestRx(t) ==
    /\ pc[t] = "reqrx" /\ Sched
    /\ \/ ~rx.act /\ rx' = Requested(rx) /\ Goto(t, "claim") /\ cpu' = Null /\ UNCHANGED <<tx, mutex>>
       \/ tx' = Freed(tx) /\ StartupFails(t) /\ UNCHANGED rx
    /\ UNCHANGED <<coreVars, infoVars, ttyVars, tx_claimed, rx_claimed, hwVars, hpc, calm>>

StartupDone == initialized' = TRUE /\ io_error' = FALSE

\* The flags are set and the FIFOs reset; uart_startup goes on.
Claim(t) ==
    /\ pc[t] = "claim" /\ Sched
    /\ tx_claimed' = TRUE /\ rx_claimed' = TRUE
    /\ fifo' = 0 /\ rxfifo' = FALSE
    /\ StartupDone
    /\ Goto(t, "ready") /\ cpu' = t
    /\ UNCHANGED <<coreVars, infotty, buf, xmit, tlet, stopped, closing, flip, hung, tx, rx,
                   x_char, mutex, hpc, calm>>

\* The end of uart_block_til_ready and of uart_open: a signal makes it fail too.
OpenReturns(t) ==
    /\ mutex' = Null
    /\ \/ infotty /\ ~hung[t] /\ Goto(t, "open") /\ normal_active' = TRUE /\ cpu' = Null
       \/ Goto(t, "close") /\ cpu' = t /\ UNCHANGED normal_active

\* The carrier is waited for: neither CLOCAL nor O_NONBLOCK.
MustWait(t) == infotty /\ ~hung[t] /\ initialized /\ ~io_error

\* A blocked open is not a user of the port.
EnterBlocked == blocked_open' = blocked_open + 1 /\ count' = count - 1
\* Plausible bug: the open is not counted again.
LeaveNotCounted == blocked_open' = blocked_open - 1 /\ UNCHANGED count
LeaveBlocked == blocked_open' = blocked_open - 1 /\ count' = count + 1

BlockTilReady(t) ==
    /\ pc[t] = "ready" /\ Runs(t)
    /\ \/ OpenReturns(t) /\ UNCHANGED <<count, blocked_open>>
       \/ /\ MustWait(t)
          /\ EnterBlocked
          /\ mutex' = Null /\ Goto(t, "blocked") /\ cpu' = Null
          /\ UNCHANGED normal_active
    /\ UNCHANGED <<infoVars, ttyVars, txVars, rxVars, hwVars, hpc, calm>>

\* Out of schedule() and with the mutex: woken by a close or a hangup, to look
\* again or to leave, or by a signal, to leave with an error.
Unblock(t) ==
    /\ pc[t] \in {"blocked", "woken"} /\ Sched /\ mutex = Null
    /\ \/ /\ pc[t] = "woken" /\ MustWait(t)
          /\ Goto(t, "blocked")
          /\ UNCHANGED <<coreVars, mutex, cpu>>
       \/ /\ LeaveBlocked
          /\ OpenReturns(t)
          /\ pc[t] = "blocked" => pc'[t] = "close"
    /\ UNCHANGED <<infoVars, ttyVars, txVars, rxVars, hwVars, hpc, calm>>

-------------------------------------------------------------------------------
(* uart_close *)

\* close(2) of a user, hung up or not.
CloseFile(t) ==
    /\ pc[t] = "open" /\ Sched
    /\ Goto(t, "close")
    /\ UNCHANGED <<coreVars, infoVars, ttyVars, txVars, rxVars, hwVars, mutex, hpc, cpu, calm>>

\* The count, with the repairs that are only logged.
NewCount == IF Cardinality(Files) = 1 /\ count # 1 THEN 0 ELSE Max({count - 1, 0})

UartClose(t) ==
    /\ pc[t] = "close" /\ Runs(t) /\ mutex = Null
    /\ IF hung[t]
       THEN Goto(t, "release") /\ cpu' = Null /\ UNCHANGED <<mutex, count, closing>>
       ELSE /\ count' = NewCount
            /\ IF NewCount > 0
               THEN Goto(t, "release") /\ cpu' = Null /\ UNCHANGED <<mutex, closing>>
               ELSE /\ mutex' = t /\ closing' = TRUE
                    /\ Goto(t, "drain") /\ Unless(xmit + fifo > 0, t)
    /\ UNCHANGED <<blocked_open, normal_active, infoVars, io_error, stopped, flip, hung, txVars,
                   rxVars, hwVars, hpc, calm>>

\* tty_wait_until_sent ends: the buffer is empty, or time is up, or a signal.
\* Then the receiver is stopped.
CloseStopRx(t) ==
    /\ pc[t] = "drain" /\ Runs(t)
    /\ IF initialized THEN StopRx ELSE UNCHANGED rxVars
    /\ Goto(t, "wait") /\ Unless(initialized /\ fifo > 0, t)
    /\ UNCHANGED <<coreVars, infoVars, ttyVars, txVars, hwVars, mutex, hpc, calm>>

\* Plausible bug: TTY_IO_ERROR is not set.
UartShutdownSilent ==
    /\ initialized' = FALSE
    /\ IF initialized THEN Shutdown ELSE UNCHANGED <<txVars, rxVars>>
    /\ UNCHANGED io_error

\* The first half of uart_shutdown, up to tasklet_kill.
UartShutdown ==
    /\ io_error' = (io_error \/ infotty)
    /\ initialized' = FALSE
    /\ IF initialized THEN Shutdown ELSE UNCHANGED <<txVars, rxVars>>

\* uart_wait_until_sent ends, whether the FIFO is empty or not.
CloseShutdown(t) ==
    /\ pc[t] = "wait" /\ Runs(t)
    /\ UartShutdown
    /\ Goto(t, "kill") /\ Unless(tlet, t)
    /\ UNCHANGED <<coreVars, infotty, buf, xmit, tlet, stopped, closing, flip, hung, hwVars,
                   mutex, hpc, calm>>

\* tasklet_kill has waited for the tasklet; the buffer is freed ...
CloseFreeBuf(t) ==
    /\ pc[t] = "kill" /\ Runs(t) /\ ~tlet
    /\ buf' = FALSE
    /\ cpu' = t /\ Goto(t, "flush")
    /\ UNCHANGED <<coreVars, initialized, infotty, xmit, tlet, ttyVars, txVars, rxVars, hwVars,
                   mutex, hpc, calm>>

\* uart_flush_buffer, tty_ldisc_flush, and the tty is let go of.
Flush == xmit' = 0 /\ flip' = FALSE /\ closing' = FALSE /\ infotty' = FALSE

\* ... and the ring and the line discipline flushed; close_delay is for
\* the opens that are blocked.
CloseFlush(t) ==
    /\ pc[t] = "flush"
    /\ Flush
    /\ Goto(t, "wake") /\ Unless(blocked_open > 0, t)
    /\ UNCHANGED <<coreVars, initialized, buf, tlet, io_error, stopped, hung, txVars, rxVars,
                   hwVars, mutex, hpc, calm>>

CloseWake(t) ==
    /\ pc[t] = "wake" /\ Runs(t)
    /\ normal_active' = FALSE /\ mutex' = Null /\ cpu' = Null
    /\ pc' = [WakeOpenWait EXCEPT ![t] = "release"]
    /\ UNCHANGED <<count, blocked_open, infoVars, ttyVars, txVars, rxVars, hwVars, hpc, calm>>

\* release_dev; the last file takes the tty and its buffers along.
Release(t) ==
    /\ pc[t] = "release" /\ Sched
    /\ hpc # "idle" => Files # {t}
    /\ Goto(t, "none")
    /\ flip' = (flip /\ Files # {t})
    /\ UNCHANGED <<coreVars, infoVars, io_error, stopped, closing, hung, txVars, rxVars, hwVars,
                   mutex, hpc, cpu, calm>>

-------------------------------------------------------------------------------
(* Hangup, in the task that calls vhangup *)

\* do_tty_hangup of a tty that is not a console: all files are hung up, the
\* buffer is flushed, the flags of the tty are cleared.
DoTtyHangup ==
    /\ hpc = "idle" /\ ~calm /\ Sched /\ \E t \in Task : Using(t)
    /\ hung' = [t \in Task |-> hung[t] \/ pc[t] # "none"]
    /\ xmit' = 0 /\ io_error' = FALSE
    /\ hpc' = "hangup" /\ Unless(mutex # Null, Hup)
    /\ UNCHANGED <<coreVars, initialized, infotty, buf, tlet, stopped, closing, flip, txVars,
                   rxVars, hwVars, mutex, pc, calm>>

UartHangup ==
    /\ hpc = "hangup" /\ Runs(Hup) /\ mutex = Null
    /\ IF normal_active
       THEN xmit' = 0 /\ UartShutdown /\ mutex' = Hup /\ hpc' = "kill" /\ Unless(tlet, Hup)
       ELSE hpc' = "idle" /\ cpu' = Null
            /\ UNCHANGED <<xmit, io_error, initialized, txVars, rxVars, mutex>>
    /\ UNCHANGED <<coreVars, infotty, buf, tlet, stopped, closing, flip, hung, hwVars, pc, calm>>

HangupEnds ==
    /\ hpc = "kill" /\ Runs(Hup) /\ ~tlet
    /\ buf' = FALSE /\ infotty' = FALSE
    /\ count' = 0 /\ normal_active' = FALSE
    /\ pc' = WakeOpenWait
    /\ mutex' = Null /\ hpc' = "idle" /\ cpu' = Null
    /\ UNCHANGED <<blocked_open, initialized, xmit, tlet, ttyVars, txVars, rxVars, hwVars, calm>>

-------------------------------------------------------------------------------
Interrupt == TxInt \/ RxInt \/ TaskletAction \/ Line

Opening(t) ==
    \/ UartGet(t) \/ GetPage(t) \/ RequestTx(t) \/ RequestRx(t) \/ Claim(t) \/ BlockTilReady(t)
Closing(t) ==
    \/ UartClose(t) \/ CloseStopRx(t) \/ CloseShutdown(t) \/ CloseFreeBuf(t)
    \/ CloseFlush(t) \/ CloseWake(t) \/ Release(t)

Next ==
    \/ Interrupt \/ Receive \/ StartOrStop
    \/ \E t \in Task :
         \/ TtyOpen(t) \/ Opening(t) \/ UartGetInterrupted(t) \/ Unblock(t)
         \/ Write(t) \/ SendXchar(t) \/ FlowControl(t) \/ CloseFile(t) \/ Closing(t)
    \/ DoTtyHangup \/ UartHangup \/ HangupEnds

Safety == Init /\ [][Next]_vars

-------------------------------------------------------------------------------
\* The places where a task may be: mutexes, requests and sleeps cut the calls there.
Label == {"none", "get", "page", "reqtx", "reqrx", "claim", "ready", "blocked", "woken", "open",
          "close", "drain", "wait", "kill", "flush", "wake", "release"}

\* Types.  state->count is never negative, although uart_close is prepared for it.
TypeOK ==
    /\ mutex \in Task \cup {Hup, Null} /\ count \in Nat /\ blocked_open \in Nat
    /\ initialized \in BOOLEAN /\ normal_active \in BOOLEAN /\ infotty \in BOOLEAN
    /\ buf \in BOOLEAN /\ tlet \in BOOLEAN /\ io_error \in BOOLEAN /\ stopped \in BOOLEAN
    /\ closing \in BOOLEAN /\ flip \in BOOLEAN /\ x_char \in BOOLEAN /\ rxfifo \in BOOLEAN
    /\ tx_claimed \in BOOLEAN /\ rx_claimed \in BOOLEAN /\ calm \in BOOLEAN
    /\ xmit \in 0..XmitSize /\ fifo \in 0..FifoSize
    /\ tx \in [act : BOOLEAN, depth : Nat] /\ rx \in [act : BOOLEAN, depth : Nat]
    /\ hung \in [Task -> BOOLEAN]
    /\ pc \in [Task -> Label]
    /\ hpc \in {"idle", "hangup", "kill"}
    /\ cpu \in Task \cup {Hup, Null, "start", "stop", "start_tx"}

\* stop_rx and shutdown go by rx_claimed, not by the state of the interrupt.  The two
\* agree whatever the order of opens, closes and hangups: claimed is enabled, and a line
\* that is requested but not claimed was disabled exactly once - except while startup is
\* between request_irq and rx_claimed = 1.
\* The variables keep their types throughout.
RxClaim ==
    /\ TypeOK
    /\ rx_claimed => Enabled(rx)
    /\ rx.act /\ ~rx_claimed => rx.depth = 1 \/ \E t \in Task : pc[t] = "claim"

\* Nobody uses a port that was shut down without TTY_IO_ERROR to tell him, even when the
\* port is shut down under him by the close of an interrupted open, and although a hangup
\* clears the flag.
UserTold == \A t \in Task : Using(t) => initialized \/ io_error

\* An open sleeps for the carrier only while the port is up: whoever shuts it down wakes
\* the sleepers before the mutex is free again, so no open waits for a port that is gone.
OpenWaitsForPort ==
    \A t \in Task : pc[t] = "blocked" /\ mutex = Null => initialized /\ infotty

\* shutdown "will only be called when there are no more users of this port"
\* (Documentation/serial/driver), blocked and failing opens notwithstanding.  Not so after
\* a hangup that an open survives, or after an interrupted open; and this is about opens
\* and closes only: uart_set_info (TIOCSSERIAL), uart_do_autoconfig (TIOCSERCONFIG) and
\* uart_suspend_port shut the port down under a user too, and are not modelled.
ShutdownWhenUnused ==
    [][calm /\ initialized /\ ~initialized' => \A t \in Task : ~Using(t)]_vars

\* shutdown is to "free any interrupt resources" (Documentation/serial/driver).  The driver
\* frees only the interrupts that are claimed at that time, so this does not hold.
ShutdownFreesIrqs ==
    [][initialized /\ ~initialized' => ~tx'.act /\ ~rx'.act]_vars

-------------------------------------------------------------------------------
(***************************************************************************)
(* The inductive invariant                                                 *)
(***************************************************************************)

\* A task between uart_get and the end of uart_open, or in uart_close after the
\* last user, holds state->mutex.
Starting == {"page", "reqtx", "reqrx", "claim", "ready"}
Ending == {"drain", "wait", "kill", "flush", "wake"}
ShutDown == {"kill", "flush", "wake"}

\* Who holds the mutex, and what he has done with the port.
MutexInv ==
    /\ \A t \in Task : mutex = t <=> pc[t] \in Starting \cup Ending
    /\ mutex = Hup <=> hpc = "kill"
    /\ \A t \in Task : pc[t] \in Starting => infotty /\ count > 0
    /\ \A t \in Task : pc[t] \in Ending => count = 0
    /\ \A t \in Task : pc[t] \in ShutDown => ~initialized
    /\ hpc = "kill" => ~initialized

\* The receive interrupt while the mutex is held by startup.
RxInv == \A t \in Task : pc[t] = "claim" => Enabled(rx)

\* Whoever is or becomes a user of the port finds it up, or TTY_IO_ERROR set.
ToldInv ==
    \A t \in Task :
        pc[t] \in Starting \cup {"blocked", "woken", "open"} /\ ~hung[t] =>
            (initialized /\ infotty) \/ io_error

\* Somebody who has shut the port down is going to wake the opens that sleep.
WaitInv ==
    \A t \in Task : pc[t] = "blocked" =>
        \/ initialized /\ infotty
        \/ \E u \in Task : pc[u] \in ShutDown
        \/ hpc = "kill"

\* The opens that uart_block_til_ready has taken out of the count.
Waiting == {t \in Task : pc[t] \in {"blocked", "woken"}}
\* The opens and users that uart_close has still to take out of it.
Counted == {t \in Task : pc[t] \in Starting \cup {"open", "close"}}

CountInv ==
    /\ blocked_open = Cardinality(Waiting)
    /\ calm => /\ count = Cardinality(Counted)
               /\ hpc = "idle" /\ \A t \in Task : ~hung[t]

IInv == RxClaim /\ MutexInv /\ RxInv /\ ToldInv /\ WaitInv /\ CountInv
===============================================================================
