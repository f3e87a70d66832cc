----------------------------- MODULE BreakerProofs -----------------------------
(****************************************************************************)
(* For every resolution of /proc/uptime and every length of the sessions:   *)
(* the circuit breaker of watchdog.sh stops after three sessions of at most *)
(* nine seconds, and never gives up on longer ones than ten.                *)
(****************************************************************************)
EXTENDS Breaker, TLAPS

\* ELAPSED is the true age in seconds, plus one when the fraction at START and
\* the fraction of the age together crossed another second boundary.
Clock ==
  /\ startFrac + tick < R =>
       frac = startFrac + tick /\ elapsed = sec
  /\ startFrac + tick >= R =>
       frac = startFrac + tick - R /\ elapsed = sec + 1

\* FAILCOUNT lies between the number of sessions in a row that were certainly
\* quick and the number of those that were possibly quick.
Sandwich == surely <= failcount /\ failcount <= possibly

Inv ==
  /\ TypeOK
  /\ pc = "session" => Clock
  /\ Sandwich
  /\ pc = "stopped" <=> failcount = Trip

LEMMA InitInv == Init => Inv
  BY ResolutionAssumption
  DEF Init, Inv, TypeOK, Clock, Sandwich, Trip, Fractions

LEMMA StartInv == Inv /\ Start => Inv'
<1> SUFFICES ASSUME Inv, Start PROVE Inv'
  OBVIOUS
<1> USE ResolutionAssumption DEF Inv, Start, TypeOK, Fractions, Trip
<1>1. TypeOK'
  OBVIOUS
<1>2. Clock'
  <2>1. startFrac' + tick' < R /\ startFrac' \in Nat
    OBVIOUS
  <2> QED
    BY <2>1 DEF Clock
<1>3. Sandwich'
  BY DEF Sandwich
<1> QED
  BY <1>1, <1>2, <1>3

LEMMA TickInv == Inv /\ Tick => Inv'
<1> SUFFICES ASSUME Inv, Tick PROVE Inv'
  OBVIOUS
<1> USE ResolutionAssumption DEF Inv, Tick, TypeOK, Fractions, Trip
<1>1. TypeOK'
  OBVIOUS
<1>2. Clock'
  <2>1. R \in Nat /\ R > 0 /\ startFrac \in Nat /\ startFrac < R
        /\ tick \in Nat /\ tick < R /\ frac \in Nat /\ frac < R
    OBVIOUS
  <2>2. CASE startFrac + tick < R
    <3>1. frac = startFrac + tick /\ elapsed = sec
      BY <2>2 DEF Clock
    <3>2. CASE frac + 1 = R
      BY <2>1, <2>2, <3>1, <3>2 DEF Clock
    <3>3. CASE frac + 1 # R
      BY <2>1, <2>2, <3>1, <3>3 DEF Clock
    <3> QED
      BY <3>2, <3>3
  <2>3. CASE startFrac + tick >= R
    <3>1. frac = startFrac + tick - R /\ elapsed = sec + 1
      BY <2>3 DEF Clock
    <3>2. frac + 1 # R
      BY <2>1, <3>1
    <3> QED
      BY <2>1, <2>3, <3>1, <3>2 DEF Clock
  <2> QED
    BY <2>1, <2>2, <2>3
<1>3. Sandwich'
  BY DEF Sandwich
<1> QED
  BY <1>1, <1>2, <1>3

LEMMA EndInv == Inv /\ End => Inv'
<1> SUFFICES ASSUME Inv, End PROVE Inv'
  OBVIOUS
<1> USE ResolutionAssumption
    DEF Inv, End, TypeOK, Fractions, Trip, QuickLimit, Observe, OneMore
<1>1. failcount < Trip
  OBVIOUS
<1>2. TypeOK'
  BY <1>1
<1>3. NoLongerThanNine => elapsed < QuickLimit
  BY DEF Clock, NoLongerThanNine
<1>4. elapsed < QuickLimit => ShorterThanTen
  BY DEF Clock, ShorterThanTen
<1>5. Sandwich'
  BY <1>1, <1>3, <1>4 DEF Sandwich
<1>6. pc' # "session" /\ (pc' = "stopped" <=> failcount' = Trip)
  BY <1>1
<1> QED
  BY <1>2, <1>5, <1>6

LEMMA WakeInv == Inv /\ Wake => Inv'
  BY DEF Inv, Wake, TypeOK, Clock, Sandwich, Trip

\* The strengthened invariant holds in every reachable state.
THEOREM Invariance == Spec => []Inv
<1>1. Inv /\ [Next]_vars => Inv'
  <2> SUFFICES ASSUME Inv, [Next]_vars PROVE Inv'
    OBVIOUS
  <2>1. CASE UNCHANGED vars
    BY <2>1 DEF vars, Inv, TypeOK, Clock, Sandwich
  <2> QED
    BY <2>1, StartInv, TickInv, EndInv, WakeInv DEF Next
<1> QED
  BY InitInv, <1>1, PTL DEF Spec

\* Type correctness.
THEOREM TypeCorrect == Spec => []TypeOK
<1>1. Inv => TypeOK
  BY DEF Inv
<1> QED
  BY <1>1, Invariance, PTL

\* watchdog.sh:15-21: there is no fourth start after three sessions in a row of
\* nine seconds or less.
THEOREM NoFourthStartHolds == Spec => []NoFourthStart
<1>1. Inv => NoFourthStart
  BY DEF Inv, TypeOK, Sandwich, NoFourthStart, Trip
<1> QED
  BY <1>1, Invariance, PTL

\* watchdog.sh:111-117: the watchdog stops only after three sessions in a row that
\* were all shorter than ten seconds.
THEOREM StopsOnlyOnQuickHolds == Spec => []StopsOnlyOnQuick
<1>1. Inv => StopsOnlyOnQuick
  BY DEF Inv, TypeOK, Sandwich, StopsOnlyOnQuick, Trip
<1> QED
  BY <1>1, Invariance, PTL
================================================================================
