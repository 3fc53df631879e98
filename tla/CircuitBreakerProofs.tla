------------------------ MODULE CircuitBreakerProofs ------------------------
(***************************************************************************)
(* The state of the circuit and its failure count agree for any number of  *)
(* callers, any threshold and any timeout.                                 *)
(***************************************************************************)
EXTENDS CircuitBreaker, TLAPS

IInv == TypeOK /\ StateMatchesCount

LEMMA InitIInv == Init => IInv
  BY ConstantsAssumption DEF Init, IInv, TypeOK, States, StateMatchesCount

\* The count of one more failure: it is cut only above the threshold.
LEMMA CountedBound ==
    ASSUME TypeOK
    PROVE  /\ Counted \in Nat
           /\ failures >= Threshold => Counted >= Threshold
  BY ConstantsAssumption DEF TypeOK, Counted

LEMMA IInvStep ==
    ASSUME IInv, [Next]_vars
    PROVE  IInv'
<1> USE ConstantsAssumption DEF IInv, TypeOK, States, StateMatchesCount
<1>1. CASE Tick
  BY <1>1 DEF Tick
<1>2. CASE Reset
  BY <1>2 DEF Reset
<1>3. ASSUME NEW c \in Callers, Admit(c) PROVE IInv'
  BY <1>3 DEF Admit
<1>4. ASSUME NEW c \in Callers, Succeed(c) PROVE IInv'
  BY <1>4 DEF Succeed, Finish
<1>5. ASSUME NEW c \in Callers, Fail(c) PROVE IInv'
  \* Outside the closed state the count is already at the threshold.
  <2>1. state = "open" => Trips
    BY CountedBound DEF Trips
  <2>2. CASE Trips
    <3>1. Counted >= Threshold
      BY <2>2, CountedBound DEF Trips
    <3> QED BY <1>5, <2>2, <3>1, CountedBound DEF Fail, Finish
  <2>3. CASE ~Trips
    BY <1>5, <2>1, <2>3, CountedBound DEF Fail, Finish, Trips
  <2> QED BY <2>2, <2>3
<1>6. ASSUME NEW c \in Callers, Cancel(c) PROVE IInv'
  BY <1>6 DEF Cancel, Finish
<1>7. CASE UNCHANGED vars
  BY <1>7 DEF vars
<1> QED BY <1>1, <1>2, <1>3, <1>4, <1>5, <1>6, <1>7 DEF Next

\* StateMatchesCount: the circuit is closed exactly while fewer failures than
\* the threshold have been counted, whatever calls are in flight.
THEOREM ClosedBelowThreshold == Spec => []StateMatchesCount
<1>1. IInv => StateMatchesCount
  BY DEF IInv
<1> QED BY <1>1, InitIInv, IInvStep, PTL DEF Spec
=============================================================================
