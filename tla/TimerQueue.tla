------------------------------ MODULE TimerQueue ------------------------------
(***************************************************************************)
(* What the kernel timers promise: a timer that is pending runs when the   *)
(* tick it names is processed, neither before nor after, and a timer set   *)
(* into the past runs with the next tick.  Time is jiffies, an unsigned    *)
(* long that wraps.                                                        *)
(***************************************************************************)
EXTENDS Integers

CONSTANTS
    Timer,
    None,      \* the expiry of a timer that is not pending
    Word,      \* the number of values of an unsigned long
    Offsets    \* how far from the current jiffy timers are set

VARIABLES
    jiffies,
    clock,     \* the next tick to process
    expiry,    \* expiry[t]: the tick timer t waits for, or None
    due        \* the timers of the tick that is being processed

vars == <<jiffies, clock, expiry, due>>

\* time_before and time_after_eq: the sign of the difference
Before(a, b) == (a - b) % Word >= Word \div 2

Init ==
    /\ jiffies \in 0..(Word - 1) /\ clock = jiffies
    /\ expiry = [t \in Timer |-> None]
    /\ due = {}

Tick ==
    /\ jiffies' = (jiffies + 1) % Word
    /\ UNCHANGED <<clock, expiry, due>>

\* A timer is set, again or for the first time, or deleted.
Set(t, e) ==
    /\ expiry' = [expiry EXCEPT ![t] = e]
    /\ due' = due \ {t}
    /\ UNCHANGED <<jiffies, clock>>

\* Every timer of the tick is due, and so is what was set into the past.
Process ==
    /\ due = {} /\ ~Before(jiffies, clock)
    /\ clock' = (clock + 1) % Word
    /\ due' = {t \in Timer : expiry[t] # None /\ ~Before(clock, expiry[t])}
    /\ UNCHANGED <<jiffies, expiry>>

Fire(t) ==
    /\ t \in due
    /\ due' = due \ {t}
    /\ expiry' = [expiry EXCEPT ![t] = None]
    /\ UNCHANGED <<jiffies, clock>>

Next ==
    \/ Tick \/ Process
    \/ \E t \in Timer :
          \/ Fire(t) \/ Set(t, None)
          \/ \E o \in Offsets : Set(t, (jiffies + o) % Word)

Spec == Init /\ [][Next]_vars
===============================================================================
