--------------------------- MODULE TimedWaitProofs ---------------------------
(***************************************************************************)
(* For all widths and units: how far the timeout of a timed wait may be    *)
(* from its deadline.                                                      *)
(***************************************************************************)
EXTENDS TimedWait, TLAPS

\* What division by a positive number means.
LEMMA Division ==
    ASSUME NEW a \in Int, NEW b \in Nat \ {0}
    PROVE  /\ a \div b \in Int /\ a % b \in 0 .. b - 1
           /\ a = b * (a \div b) + (a % b)
OBVIOUS

\* A number below the modulus, or above minus the modulus, is its own remainder.
LEMMA SmallRemainder ==
    ASSUME NEW a \in Int, NEW b \in Nat \ {0}
    PROVE  /\ 0 <= a /\ a < b => a % b = a
           /\ a < 0 /\ 0 - b <= a => a % b = a + b
<1>1. /\ a \div b \in Int /\ a % b \in 0 .. b - 1
      /\ a = b * (a \div b) + (a % b)
  BY Division
<1>2. ASSUME 0 <= a, a < b PROVE a % b = a
  <2>1. a \div b = 0
    BY <1>1, <1>2
  <2> QED
    BY <1>1, <2>1
<1>3. ASSUME a < 0, 0 - b <= a PROVE a % b = a + b
  <2>1. a \div b = -1
    BY <1>1, <1>3
  <2> QED
    BY <1>1, <2>1
<1> QED
  BY <1>2, <1>3

LEMMA UnitsPositive == Ms \in Nat \ {0} /\ Tick <= Ms /\ INFINITE \in Nat
BY TimedWaitAssumption DEF Ms, INFINITE

\* The precondition of the conversion: InRange at the moment of the call.
Apart(deadline, time) == /\ deadline < time + INFINITE * Ms - Tick
                         /\ 2 * (deadline + Tick) < 2 * time + Qword
                         /\ 2 * (time + Tick) < 2 * deadline + Qword

\* The long long holds the difference, cut down to ticks.
LEMMA Difference ==
    ASSUME NEW deadline \in Nat, NEW time \in Nat, Apart(deadline, time)
    PROVE  \E k \in Int : /\ DiffNs(deadline, time) = k * Tick
                          /\ k * Tick < deadline - time + Tick
                          /\ deadline - time < k * Tick + Tick
<1> DEFINE k == deadline \div Tick - time \div Tick
           x == k * Tick
<1> USE TimedWaitAssumption
<1>1. /\ deadline \div Tick \in Int /\ deadline % Tick \in 0 .. Tick - 1
      /\ deadline = Tick * (deadline \div Tick) + (deadline % Tick)
  BY Division
<1>2. /\ time \div Tick \in Int /\ time % Tick \in 0 .. Tick - 1
      /\ time = Tick * (time \div Tick) + (time % Tick)
  BY Division
<1>3. k \in Int /\ x \in Int
  BY <1>1, <1>2
<1>4. x = deadline - (deadline % Tick) - (time - (time % Tick))
  <2>1. x = Tick * (deadline \div Tick) - Tick * (time \div Tick)
    BY <1>1, <1>2
  <2> QED
    BY <1>1, <1>2, <2>1
<1>5. x < deadline - time + Tick /\ deadline - time < x + Tick
  BY <1>1, <1>2, <1>4
<1>6. 2 * x < Qword /\ 0 - 2 * x < Qword
  BY <1>3, <1>5 DEF Apart
<1>7. Signed(x) = x
  <2>1. /\ 0 <= x /\ x < Qword => x % Qword = x
        /\ x < 0 /\ 0 - Qword <= x => x % Qword = x + Qword
    BY <1>3, SmallRemainder
  <2> HIDE DEF x
  <2>2. CASE 0 <= x
    BY <1>3, <1>6, <2>1, <2>2 DEF Signed
  <2>3. CASE x < 0
    BY <1>3, <1>6, <2>1, <2>3 DEF Signed
  <2> QED
    BY <1>3, <2>2, <2>3
<1>8. DiffNs(deadline, time) = x
  BY <1>7 DEF DiffNs
<1> QED
  BY <1>3, <1>5, <1>8

\* Whatever the widths: in range, the milliseconds are finite, and what they
\* leave out of the difference is less than one of them.
LEMMA Conversion ==
    ASSUME NEW deadline \in Nat, NEW time \in Nat, Apart(deadline, time)
    PROVE  LET m == Milliseconds(deadline, time)
           IN  /\ m \in Nat /\ m < INFINITE
               /\ deadline < time + m * Ms + Ms
               /\ m = 0 \/ time + m * Ms < deadline + Tick
<1> DEFINE diff == DiffNs(deadline, time)
           m == diff \div Ms
<1>1. PICK k \in Int : /\ diff = k * Tick
                       /\ k * Tick < deadline - time + Tick
                       /\ deadline - time < k * Tick + Tick
  BY Difference
<1>2. /\ Ms \in Nat \ {0} /\ Tick <= Ms /\ INFINITE \in Nat
      /\ Tick \in Nat \ {0} /\ TicksPerMs \in Nat \ {0} /\ Dword \in Nat \ {0, 1}
  BY UnitsPositive, TimedWaitAssumption
<1>3. diff \in Int
  BY <1>1, <1>2
<1> HIDE DEF diff
<1>4. CASE diff <= 0
  <2>1. Milliseconds(deadline, time) = 0
    BY <1>4 DEF Milliseconds, diff
  <2>2. 0 * Ms = 0 /\ 0 < INFINITE
    BY <1>2 DEF INFINITE
  <2> QED
    BY <1>1, <1>2, <1>3, <1>4, <2>1, <2>2
<1>5. CASE diff > 0
  <2>1. /\ m \in Int /\ diff % Ms \in 0 .. Ms - 1
        /\ diff = Ms * m + (diff % Ms)
    BY <1>2, <1>3, Division
  <2> HIDE DEF m
  <2>2. m >= 0
    BY <1>2, <1>3, <1>5, <2>1
  <2>3. m * Ms < INFINITE * Ms
    BY <1>1, <1>2, <1>3, <2>1 DEF Apart
  <2>4. m < INFINITE
    BY <1>2, <2>1, <2>3
  <2>5. m % Dword = m
    <3>1. 0 <= m /\ m < Dword
      BY <1>2, <2>1, <2>2, <2>4 DEF INFINITE
    <3>2. 0 <= m /\ m < Dword => m % Dword = m
      BY <1>2, <2>1, SmallRemainder
    <3> QED
      BY <3>1, <3>2
  <2>6. Milliseconds(deadline, time) = m
    BY <1>3, <1>5, <2>5 DEF Milliseconds, diff, m
  <2>7. diff % Ms <= Ms - Tick
    <3>1. diff % Ms = Tick * (k - TicksPerMs * m)
      BY <1>1, <1>2, <2>1 DEF Ms
    <3>2. k - TicksPerMs * m < TicksPerMs
      BY <1>2, <2>1, <3>1 DEF Ms
    <3>3. k - TicksPerMs * m <= TicksPerMs - 1
      BY <1>2, <2>1, <3>2
    <3>4. Tick * (k - TicksPerMs * m) <= Tick * (TicksPerMs - 1)
      BY <1>2, <2>1, <3>3
    <3> QED
      BY <1>2, <3>1, <3>4 DEF Ms
  <2> QED
    BY <1>1, <1>2, <1>3, <2>1, <2>2, <2>4, <2>6, <2>7
<1> QED
  BY <1>3, <1>4, <1>5

-----------------------------------------------------------------------------
(* The call *)

\* What the steps of the call hand on to the next.
IInv == /\ TypeOK
        /\ pc # "idle" => read <= now
        /\ pc # "idle" /\ abstime # Never =>
               milliseconds = Milliseconds(abstime, read)
        /\ pc \in {"asleep", "awake"} => read <= since /\ since <= now
        /\ pc = "awake" /\ result = "ETIMEDOUT" => now >= Due

LEMMA MillisecondsType ==
    ASSUME NEW deadline \in Nat, NEW time \in Nat
    PROVE  Milliseconds(deadline, time) \in 0 .. INFINITE
<1> DEFINE diff == DiffNs(deadline, time)
<1>1. CASE diff <= 0
  BY <1>1, TimedWaitAssumption DEF Milliseconds, INFINITE
<1>2. CASE ~(diff <= 0)
  <2>1. diff \in Int
    <3>1. deadline \div Tick \in Int /\ time \div Tick \in Int
      BY TimedWaitAssumption, Division
    <3>2. (deadline \div Tick - time \div Tick) * Tick \in Int
      BY <3>1, TimedWaitAssumption
    <3>3. ((deadline \div Tick - time \div Tick) * Tick) % Qword \in Int
      BY <3>2, TimedWaitAssumption, Division
    <3> QED
      BY <3>3, TimedWaitAssumption DEF DiffNs, Signed
  <2>2. diff \div Ms \in Int
    BY <2>1, UnitsPositive, Division
  <2>3. (diff \div Ms) % Dword \in 0 .. Dword - 1
    BY <2>2, TimedWaitAssumption, Division
  <2> QED
    BY <1>2, <2>3 DEF Milliseconds, INFINITE
<1> QED
  BY <1>1, <1>2

LEMMA InvInit == Init => IInv
BY TimedWaitAssumption, UnitsPositive DEF Init, IInv, TypeOK

LEMMA InvNext == IInv /\ [Next]_vars => IInv'
<1> SUFFICES ASSUME IInv, [Next]_vars PROVE IInv'
  OBVIOUS
<1> USE TimedWaitAssumption, UnitsPositive DEF IInv, TypeOK
<1>1. ASSUME NEW deadline \in Deadline \cup {Never}, Call(deadline) PROVE IInv'
  <2>1. milliseconds' \in 0 .. INFINITE
    BY <1>1, MillisecondsType DEF Call
  <2> QED
    BY <1>1, <2>1 DEF Call
<1>2. CASE Sleep
  BY <1>2 DEF Sleep
<1>3. CASE TimeOut
  <2>1. Due' = Due
    BY <1>3 DEF TimeOut, Due
  <2> QED
    BY <1>3, <2>1 DEF TimeOut
<1>4. CASE Wake
  BY <1>4 DEF Wake
<1>5. CASE Return
  BY <1>5 DEF Return
<1>6. CASE PassTime
  <2>1. Due' = Due /\ Due \in Int
    BY <1>6 DEF PassTime, Due
  <2> QED
    BY <1>6, <2>1 DEF PassTime
<1>7. CASE UNCHANGED vars
  <2>1. Due' = Due
    BY <1>7 DEF vars, Due
  <2> QED
    BY <1>7, <2>1 DEF vars
<1> QED
  BY <1>1, <1>2, <1>3, <1>4, <1>5, <1>6, <1>7 DEF Next

\* The states of the timed wait keep their types, the milliseconds the width
\* of a DWORD.
THEOREM TypeCorrect == Spec => []TypeOK
<1>1. IInv => TypeOK
  BY DEF IInv
<1> QED
  BY <1>1, InvInit, InvNext, PTL DEF Spec

\* Whatever the units and widths: a wait whose deadline is in range times out
\* less than a millisecond before it.
THEOREM EarlyTheorem == Spec => []EarlyByLessThanAMillisecond
<1>1. IInv => EarlyByLessThanAMillisecond
  <2> SUFFICES ASSUME IInv, pc = "awake", result = "ETIMEDOUT", InRange
               PROVE  abstime < now + Ms
    BY DEF EarlyByLessThanAMillisecond
  <2>1. /\ abstime \in Nat /\ read \in Nat /\ since \in Nat /\ now \in Nat
        /\ read <= since /\ now >= Due /\ Apart(abstime, read)
        /\ milliseconds = Milliseconds(abstime, read)
    BY TimedWaitAssumption DEF IInv, TypeOK, InRange, Apart
  <2>2. milliseconds \in Nat /\ abstime < read + milliseconds * Ms + Ms
    BY <2>1, Conversion
  <2> QED
    BY <2>1, <2>2, UnitsPositive DEF Due
<1> QED
  BY <1>1, InvInit, InvNext, PTL DEF Spec

\* Whatever the units and widths: but for the delay of the call itself, a wait
\* whose deadline is in range does not sleep beyond it by as much as a tick.
THEOREM NeverLateTheorem == Spec => []NeverLate
<1>1. IInv => NeverLate
  <2> SUFFICES ASSUME IInv, pc = "asleep", InRange
               PROVE  \/ Due - (since - read) < abstime + Tick
                      \/ Due = since
    BY DEF NeverLate
  <2>1. /\ abstime \in Nat /\ read \in Nat /\ since \in Nat
        /\ Apart(abstime, read)
        /\ milliseconds = Milliseconds(abstime, read)
    BY TimedWaitAssumption DEF IInv, TypeOK, InRange, Apart
  <2>2. /\ milliseconds \in Nat
        /\ milliseconds = 0 \/ read + milliseconds * Ms < abstime + Tick
    BY <2>1, Conversion
  <2>3. milliseconds * Ms \in Nat /\ 0 * Ms = 0
    BY <2>2, UnitsPositive
  <2> QED
    BY <2>1, <2>2, <2>3, TimedWaitAssumption DEF Due
<1> QED
  BY <1>1, InvInit, InvNext, PTL DEF Spec
=============================================================================
