-------------------------------- MODULE Breaker --------------------------------
(****************************************************************************)
(* The circuit breaker of watchdog.sh (lines 94-123) with its clock.        *)
(*                                                                          *)
(* /proc/uptime has a fraction that ${UPRAW%.*} cuts off, so START and END  *)
(* are whole seconds and ELAPSED is the number of second boundaries a       *)
(* session crossed, not its length.  Time is counted in ticks of 1/R s: the *)
(* fraction of the uptime, the boundaries crossed since START, and the true *)
(* age of the session in seconds and ticks.                                 *)
(****************************************************************************)
EXTENDS Naturals

CONSTANTS
  R,           \* ticks per second of /proc/uptime (100 on the appliance)
  MaxSession   \* bound: a session is followed for that many seconds

ASSUME ResolutionAssumption == R \in Nat \ {0}
ASSUME MaxSessionAssumption == MaxSession \in Nat

QuickLimit == 10   \* seconds; line 111
Trip       == 3    \* quick-fails in a row; line 114

VARIABLES
  pc,         \* "top", "session", "sleep" or "stopped" (exit 1)
  frac,       \* fraction of the uptime now, in ticks
  startFrac,  \* the same when START was read
  elapsed,    \* ELAPSED if the session ended now
  sec, tick,  \* the true age of the session
  failcount,  \* FAILCOUNT
  surely,     \* history: sessions in a row no longer than 9 s
  possibly    \* history: sessions in a row shorter than 10 s

vars == <<pc, frac, startFrac, elapsed, sec, tick, failcount, surely, possibly>>

Fractions == 0..(R - 1)

TypeOK ==
  /\ pc \in {"top", "session", "sleep", "stopped"}
  /\ frac \in Fractions /\ startFrac \in Fractions /\ tick \in Fractions
  /\ elapsed \in Nat /\ sec \in Nat
  /\ failcount \in 0..Trip
  /\ surely \in 0..Trip /\ possibly \in 0..Trip

Init ==
  /\ pc = "top"
  /\ frac = 0 /\ startFrac = 0
  /\ elapsed = 0 /\ sec = 0 /\ tick = 0
  /\ failcount = 0 /\ surely = 0 /\ possibly = 0

\* Lines 102-105, at any fraction of a second.
Start ==
  /\ pc = "top"
  /\ pc' = "session"
  /\ \E f \in Fractions : frac' = f /\ startFrac' = f
  /\ elapsed' = 0 /\ sec' = 0 /\ tick' = 0
  /\ UNCHANGED <<failcount, surely, possibly>>

\* One tick of the clock while the session lives.
Tick ==
  /\ pc = "session" /\ sec < MaxSession
  /\ frac' = IF frac + 1 = R THEN 0 ELSE frac + 1
  /\ elapsed' = IF frac + 1 = R THEN elapsed + 1 ELSE elapsed
  /\ tick' = IF tick + 1 = R THEN 0 ELSE tick + 1
  /\ sec' = IF tick + 1 = R THEN sec + 1 ELSE sec
  /\ UNCHANGED <<pc, startFrac, failcount, surely, possibly>>

NoLongerThanNine == sec < 9 \/ (sec = 9 /\ tick = 0)
ShorterThanTen   == sec < 10

\* The history counters stop at Trip: more than that tells nothing apart.
OneMore(n) == IF n < Trip THEN n + 1 ELSE n

Observe ==
  /\ surely' = IF NoLongerThanNine THEN OneMore(surely) ELSE 0
  /\ possibly' = IF ShorterThanTen THEN OneMore(possibly) ELSE 0

\* Mutant: a long session does not clear the count.
EndForgetful ==
  /\ pc = "session"
  /\ IF elapsed < QuickLimit
     THEN /\ failcount' = failcount + 1
          /\ pc' = IF failcount + 1 >= Trip THEN "stopped" ELSE "sleep"
     ELSE pc' = "sleep" /\ UNCHANGED failcount
  /\ Observe
  /\ UNCHANGED <<frac, startFrac, elapsed, sec, tick>>

\* Mutant: the third quick-fail in a row does not stop the loop.
EndLate ==
  /\ pc = "session"
  /\ IF elapsed < QuickLimit
     THEN /\ failcount' = failcount + 1
          /\ pc' = IF failcount + 1 > Trip THEN "stopped" ELSE "sleep"
     ELSE pc' = "sleep" /\ failcount' = 0
  /\ Observe
  /\ UNCHANGED <<frac, startFrac, elapsed, sec, tick>>

\* Lines 106-122: the session ends, for whatever reason.
End ==
  /\ pc = "session"
  /\ IF elapsed < QuickLimit
     THEN /\ failcount' = failcount + 1
          /\ pc' = IF failcount + 1 >= Trip THEN "stopped" ELSE "sleep"
     ELSE pc' = "sleep" /\ failcount' = 0
  /\ Observe
  /\ UNCHANGED <<frac, startFrac, elapsed, sec, tick>>

\* The sleep of line 118 or 121 is over.
Wake ==
  /\ pc = "sleep"
  /\ pc' = "top"
  /\ UNCHANGED <<frac, startFrac, elapsed, sec, tick, failcount, surely, possibly>>

Next == Start \/ Tick \/ End \/ Wake

Spec == Init /\ [][Next]_vars

--------------------------------------------------------------------------------
\* watchdog.sh:15-21: after three sessions in a row that lasted nine seconds or
\* less there is no fourth, whatever the fractions of a second at which the
\* uptime was read.
NoFourthStart == surely = Trip => pc = "stopped"

\* ... and the watchdog gives up only then: three sessions in a row, the last
\* three, were all shorter than ten seconds.
StopsOnlyOnQuick == pc = "stopped" => possibly = Trip
================================================================================
