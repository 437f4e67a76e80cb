----------------------------- MODULE TimerProofs -----------------------------
(***************************************************************************)
(* The clock and the meters, for every width of the counter: 2^32 is far   *)
(* beyond what TLC can count through.                                      *)
(***************************************************************************)
EXTENDS Timer, TLAPS

\* time_response is the moment of SetResponseTime plus the period, modulo the
\* width of the counter.
ResponseIsSet ==
    period # 0 /\ sinceSet < Modulus =>
        time_response = Wrap(Wrap(timer_counter - sinceSet) + period)

IInv == TypeOK /\ ElapsedIsExact /\ ResponseIsSet

\* A meter that has just been constructed.
LEMMA InitIInv == Init => IInv
  BY ModulusAssumption
     DEF Init, IInv, TypeOK, ElapsedIsExact, ElapsedTime, ResponseIsSet, Wrap

\* A tick of the clock, and each operation of the meter.
LEMMA NextIInv == IInv /\ [Next]_vars => IInv'
  <1> SUFFICES ASSUME IInv, [Next]_vars PROVE IInv'
    OBVIOUS
  <1>0. /\ Modulus \in Nat \ {0} /\ timer_counter \in 0..(Modulus - 1)
        /\ time_reset \in 0..(Modulus - 1) /\ time_response \in 0..(Modulus - 1)
        /\ sinceReset \in 0..Modulus /\ sinceSet \in 0..Modulus
        /\ period \in Periods \cup {0} /\ period \in 0..(Modulus - 1)
        /\ ElapsedIsExact /\ ResponseIsSet
    BY ModulusAssumption, PeriodsAssumption DEF IInv, TypeOK
  <1>1. CASE Tick
    <2>1. TypeOK'
      BY <1>0, <1>1 DEF Tick, TypeOK, Wrap, Later
    <2>2. ElapsedIsExact'
      BY <1>0, <1>1 DEF Tick, ElapsedIsExact, ElapsedTime, Wrap, Later
    <2>3. ResponseIsSet'
      BY <1>0, <1>1 DEF Tick, ResponseIsSet, Wrap, Later
    <2> QED BY <2>1, <2>2, <2>3 DEF IInv
  <1>2. CASE Reset
    BY <1>0, <1>2 DEF Reset, IInv, TypeOK, ElapsedIsExact, ElapsedTime, ResponseIsSet, Wrap
  <1>3. ASSUME NEW time \in Periods, SetResponseTime(time)
        PROVE  IInv'
    <2>1. time \in 1..(Modulus - 1)
      BY PeriodsAssumption
    <2>2. TypeOK'
      BY <1>0, <1>3, <2>1 DEF SetResponseTime, TypeOK, Wrap
    <2>3. ElapsedIsExact'
      BY <1>0, <1>3 DEF SetResponseTime, ElapsedIsExact, ElapsedTime
    <2>4. ResponseIsSet'
      BY <1>0, <1>3, <2>1 DEF SetResponseTime, ResponseIsSet, Wrap
    <2> QED BY <2>2, <2>3, <2>4 DEF IInv
  <1>4. CASE UNCHANGED vars
    BY <1>4 DEF vars, IInv, TypeOK, ElapsedIsExact, ElapsedTime, ResponseIsSet
  <1> QED BY <1>1, <1>2, <1>3, <1>4 DEF Next

\* The inductive invariant of the clock and a meter.
THEOREM IInvHolds == Spec => []IInv
  BY InitIInv, NextIInv, PTL DEF Spec

\* No value leaves the width of the counter: Wrap is the processor's unsigned
\* arithmetic wherever Tick and SetResponseTime use it.
THEOREM TypeCorrect == Spec => []TypeOK
  <1>1. IInv => TypeOK
    BY DEF IInv
  <1> QED BY <1>1, IInvHolds, PTL

\* ElapsedTime counts the milliseconds since Reset exactly, across a wrap of
\* timer_counter, until a whole turn of the counter has passed.
THEOREM ElapsedExact == Spec => []ElapsedIsExact
  <1>1. IInv => ElapsedIsExact
    BY DEF IInv
  <1> QED BY <1>1, IInvHolds, PTL

\* IsFinished is right, at every moment of a turn of the counter, unless the wrap
\* lies between now and the end of the period of SetResponseTime, and is wrong then.
THEOREM FinishedExact == Spec => []FinishedUnlessWrapBetween
  <1>1. IInv => FinishedUnlessWrapBetween
    <2> SUFFICES ASSUME IInv, period # 0, sinceSet < Modulus
                 PROVE  IsFinished <=> IF WrapBetween THEN sinceSet < period
                                       ELSE sinceSet >= period
      BY DEF FinishedUnlessWrapBetween
    <2>1. /\ Modulus \in Nat \ {0} /\ timer_counter \in 0..(Modulus - 1)
          /\ sinceSet \in 0..Modulus /\ period \in 1..(Modulus - 1)
      BY ModulusAssumption, PeriodsAssumption DEF IInv, TypeOK
    <2> DEFINE start == Wrap(timer_counter - sinceSet)
    <2>2. /\ start \in 0..(Modulus - 1)
          /\ start = IF timer_counter < sinceSet THEN timer_counter - sinceSet + Modulus
                     ELSE timer_counter - sinceSet
      BY <2>1 DEF Wrap
    <2>3. time_response = IF start + period >= Modulus THEN start + period - Modulus
                          ELSE start + period
      BY <2>1, <2>2 DEF IInv, ResponseIsSet, Wrap
    <2>4. WrapBetween <=> ((timer_counter < sinceSet) # (start + period >= Modulus))
      BY DEF WrapBetween
    <2> HIDE DEF start
    <2>5. CASE timer_counter < sinceSet
      BY <2>1, <2>2, <2>3, <2>4, <2>5 DEF IsFinished
    <2>6. CASE ~(timer_counter < sinceSet)
      BY <2>1, <2>2, <2>3, <2>4, <2>6 DEF IsFinished
    <2> QED BY <2>5, <2>6
  <1> QED BY <1>1, IInvHolds, PTL

=============================================================================
