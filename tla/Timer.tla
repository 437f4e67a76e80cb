-------------------------------- MODULE Timer --------------------------------
(***************************************************************************)
(* The millisecond clock and a TimeMeterMS (common/Hardware/Timer.cpp).    *)
(* timer_counter is a 32-bit unsigned integer that SysTick_Handler         *)
(* increments and that wraps after 49.7 days.  ElapsedTime subtracts       *)
(* modulo 2^32; IsFinished, like the loop of Timer::DelayMS, compares two  *)
(* wrapped values.                                                         *)
(***************************************************************************)
EXTENDS Integers

CONSTANTS
    Modulus,        \* 2^32
    Periods         \* the times given to SetResponseTime

ASSUME ModulusAssumption == Modulus \in Nat \ {0}
ASSUME PeriodsAssumption == Periods \subseteq 1..(Modulus - 1)

VARIABLES
    timer_counter,
    time_reset, time_response,      \* the fields of the TimeMeterMS
    sinceReset,     \* milliseconds since Reset, counted up to Modulus
    sinceSet,       \* milliseconds since SetResponseTime, up to Modulus
    period          \* the time given to it; 0: Reset was called instead

vars == <<timer_counter, time_reset, time_response, sinceReset, sinceSet, period>>

\* Unsigned arithmetic of the processor.
Wrap(n) == IF n >= Modulus THEN n - Modulus ELSE IF n < 0 THEN n + Modulus ELSE n

\* Mutant: the difference is taken the other way round once the counter wrapped.
ElapsedTimeAbsolute ==
    IF timer_counter >= time_reset THEN timer_counter - time_reset
    ELSE time_reset - timer_counter

ElapsedTime == Wrap(timer_counter - time_reset)

IsFinished == timer_counter >= time_response

\* A meter is constructed, hence reset, at any time after power-up.
Init ==
    /\ timer_counter \in 0..(Modulus - 1)
    /\ time_reset = timer_counter /\ time_response = timer_counter
    /\ sinceReset = 0 /\ sinceSet = 0 /\ period = 0

Later(n) == IF n < Modulus THEN n + 1 ELSE n

\* Mutant: the counter is wider than the fields of the meter.
TickUnwrapped ==
    /\ timer_counter' = timer_counter + 1
    /\ sinceReset' = Later(sinceReset)
    /\ sinceSet' = Later(sinceSet)
    /\ UNCHANGED <<time_reset, time_response, period>>

\* SysTick_Handler
Tick ==
    /\ timer_counter' = Wrap(timer_counter + 1)
    /\ sinceReset' = Later(sinceReset)
    /\ sinceSet' = Later(sinceSet)
    /\ UNCHANGED <<time_reset, time_response, period>>

Reset ==
    /\ time_reset' = timer_counter /\ time_response' = timer_counter
    /\ sinceReset' = 0 /\ sinceSet' = 0 /\ period' = 0
    /\ UNCHANGED timer_counter

\* Mutant: the period is counted from the last Reset.
SetResponseTimeFromReset(time) ==
    /\ time_response' = Wrap(time_reset + time)
    /\ sinceSet' = 0 /\ period' = time
    /\ UNCHANGED <<timer_counter, time_reset, sinceReset>>

SetResponseTime(time) ==
    /\ time_response' = Wrap(timer_counter + time)
    /\ sinceSet' = 0 /\ period' = time
    /\ UNCHANGED <<timer_counter, time_reset, sinceReset>>

Next == Tick \/ Reset \/ \E time \in Periods : SetResponseTime(time)

Spec == Init /\ [][Next]_vars

-----------------------------------------------------------------------------
\* Ranges of the counter, the fields of the meter and the observers.
TypeOK ==
    /\ timer_counter \in 0..(Modulus - 1)
    /\ time_reset \in 0..(Modulus - 1) /\ time_response \in 0..(Modulus - 1)
    /\ sinceReset \in 0..Modulus /\ sinceSet \in 0..Modulus
    /\ period \in Periods \cup {0}

\* ElapsedTime is right wherever the counter stood at Reset and wherever it
\* wrapped since, for as long as it can be: all timeouts of Modem, SIM868 and
\* of a request waiting for ">" are tests of ElapsedTime.
ElapsedIsExact == sinceReset < Modulus => ElapsedTime = sinceReset

\* The wrap of the counter lies between the present moment and the end of the
\* period: one of the two is past it and the other is not.
WrapBetween ==
    (timer_counter < sinceSet)
        # (Wrap(timer_counter - sinceSet) + period >= Modulus)

\* IsFinished becomes true exactly when the period is over as long as the counter
\* does not wrap between now and the end of the period; when it does, the answer
\* is exactly the wrong one: true from the start if the end lies beyond the wrap,
\* false again when the counter wraps after the end.
FinishedUnlessWrapBetween ==
    period # 0 /\ sinceSet < Modulus =>
        (IsFinished <=> IF WrapBetween THEN sinceSet < period ELSE sinceSet >= period)

=============================================================================
