------------------------------ MODULE TimedWait ------------------------------
(***************************************************************************)
(* mulle_thread_cond_timedwait on Windows: the deadline is a point in      *)
(* time, but SleepConditionVariableCS takes milliseconds from now on, in a *)
(* DWORD whose largest value means for ever.  Time is in nanoseconds since *)
(* 1601; the widths and the units are parameters.  One thread waits, again *)
(* and again, and can be delayed between any two steps; the mutex is the   *)
(* business of WindowsMutex.                                               *)
(***************************************************************************)
EXTENDS Integers

CONSTANTS Tick,        \* the unit of FILETIME, in nanoseconds (100)
          TicksPerMs,  \* (10000)
          Dword,       \* the number of values of a DWORD (2^32)
          Qword,       \* and of a long long (2^64)
          Deadline,    \* the deadlines to wait for
          Never,       \* no deadline: abstime is NULL
          MaxCall,     \* bound: no wait is begun later than this
          MaxDelay,    \* bound: how long the call may take to go to sleep
          MaxNow       \* bound: when the clock stops

ASSUME TimedWaitAssumption ==
    /\ Tick \in Nat \ {0} /\ TicksPerMs \in Nat \ {0}
    /\ Dword \in Nat \ {0, 1} /\ Qword \in Nat \ {0}
    /\ Deadline \subseteq Nat /\ Never \notin Nat
    /\ MaxCall \in Nat /\ MaxDelay \in Nat /\ MaxNow \in Nat

Ms == Tick * TicksPerMs

INFINITE == Dword - 1

VARIABLES now,           \* the time
          pc,            \* the next step of the call
          abstime,       \* its deadline
          read,          \* when it read the clock
          milliseconds,  \* what it will sleep
          since,         \* when it went to sleep
          result

vars == <<now, pc, abstime, read, milliseconds, since, result>>

TypeOK == /\ now \in Nat /\ read \in Nat /\ since \in Nat
          /\ pc \in {"idle", "sleep", "asleep", "awake"}
          /\ abstime \in Deadline \cup {Never}
          /\ milliseconds \in 0 .. INFINITE
          /\ result \in {"0", "ETIMEDOUT"}

Init == /\ now = 0 /\ read = 0 /\ since = 0
        /\ pc = "idle"
        /\ abstime = Never
        /\ milliseconds = 0
        /\ result = "0"

-----------------------------------------------------------------------------
(* The conversion *)

\* The bits of a long long, read as a signed number.
Signed(n) == LET bits == n % Qword
             IN  IF 2 * bits < Qword THEN bits ELSE bits - Qword

\* Both times are cut down to ticks; that they are unsigned 64 bit numbers
\* themselves makes no difference to the bits of the result.
DiffNs(deadline, time) == Signed((deadline \div Tick - time \div Tick) * Tick)

\* Mutant: the difference is not checked for a deadline that is past.
MillisecondsUnchecked(deadline, time) ==
    LET diff == DiffNs(deadline, time)
    IN  (IF diff < 0 THEN 0 - ((0 - diff) \div Ms) ELSE diff \div Ms) % Dword

Milliseconds(deadline, time) ==
    LET diff == DiffNs(deadline, time)
    IN  IF diff <= 0 THEN 0 ELSE (diff \div Ms) % Dword

-----------------------------------------------------------------------------
(* The call *)

\* It reads the clock and converts.
Call(deadline) ==
    /\ pc = "idle" /\ now <= MaxCall
    /\ abstime' = deadline
    /\ milliseconds' = IF deadline = Never THEN INFINITE
                       ELSE Milliseconds(deadline, now)
    /\ read' = now
    /\ pc' = "sleep"
    /\ UNCHANGED <<now, since, result>>

Sleep ==
    /\ pc = "sleep"
    /\ since' = now
    /\ pc' = "asleep"
    /\ UNCHANGED <<now, abstime, read, milliseconds, result>>

\* When the sleep is to end without a signal.
Due == since + milliseconds * Ms

\* Mutant: whatever ended the sleep, it is reported as a timeout.
WakeTimedOut ==
    /\ pc = "asleep"
    /\ result' = "ETIMEDOUT"
    /\ pc' = "awake"
    /\ UNCHANGED <<now, abstime, read, milliseconds, since>>

\* SleepConditionVariableCS fails with ERROR_TIMEOUT.
TimeOut ==
    /\ pc = "asleep" /\ milliseconds # INFINITE /\ now >= Due
    /\ result' = "ETIMEDOUT"
    /\ pc' = "awake"
    /\ UNCHANGED <<now, abstime, read, milliseconds, since>>

\* By a signal, a broadcast or spuriously.
Wake ==
    /\ pc = "asleep"
    /\ result' = "0"
    /\ pc' = "awake"
    /\ UNCHANGED <<now, abstime, read, milliseconds, since>>

\* The section is entered again.
Return ==
    /\ pc = "awake"
    /\ pc' = "idle"
    /\ UNCHANGED <<now, abstime, read, milliseconds, since, result>>

PassTime ==
    /\ now < MaxNow
    /\ pc = "sleep" => now - read < MaxDelay
    /\ now' = now + 1
    /\ UNCHANGED <<pc, abstime, read, milliseconds, since, result>>

Next == \/ \E deadline \in Deadline \cup {Never} : Call(deadline)
        \/ Sleep \/ TimeOut \/ Wake \/ Return \/ PassTime

Spec == Init /\ [][Next]_vars

\* The thread is scheduled, Windows ends a sleep that is over, time passes.
FairSpec == Spec /\ WF_vars(Sleep \/ TimeOut \/ Return) /\ WF_vars(PassTime)

-----------------------------------------------------------------------------
(* Properties *)

\* Deadlines that the widths can tell from others: less than 49.7 days ahead,
\* for the DWORD, and not 146 years past, for the long long.
InRange == /\ abstime \in Nat
           /\ abstime < read + INFINITE * Ms - Tick
           /\ 2 * (abstime + Tick) < 2 * read + Qword
           /\ 2 * (read + Tick) < 2 * abstime + Qword

\* "`ETIMEDOUT` when the absolute deadline expires": the milliseconds are
\* rounded down, so that the timeout may come before the deadline, but never
\* by a whole millisecond, however often the thread was woken and waits again.
EarlyByLessThanAMillisecond ==
    pc = "awake" /\ result = "ETIMEDOUT" /\ InRange => abstime < now + Ms

\* Waiting again for the same deadline does not postpone it: but for the time
\* the call itself took to go to sleep, the sleep ends with the deadline, or
\* at once if the deadline is past, give or take a tick.
NeverLate ==
    pc = "asleep" /\ InRange =>
        \/ Due - (since - read) < abstime + Tick
        \/ Due = since

\* A wait for a deadline in range ends: it is never taken for INFINITE.
TimedWaitEnds == (pc = "asleep" /\ InRange) ~> (pc = "idle")
=============================================================================
