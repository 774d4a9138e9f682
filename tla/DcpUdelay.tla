----------------------------- MODULE DcpUdelay -----------------------------
(***************************************************************************)
(* dcp_udelay (core/drivers/dcp/imx_dcp_utils.c): a software delay of time *)
(* microseconds as a loop of 500 barrier pairs per microsecond.  counter   *)
(* is the uint32_t of the code; iters counts the isb/dsb pairs run.  The   *)
(* post-decrement of while (counter--) tests the old value and always      *)
(* decrements, so the exit leaves counter wrapped to its maximum.          *)
(***************************************************************************)
EXTENDS Naturals

CONSTANTS
  Times,      \* the delays the run asks for
  UIntBits    \* the width of counter, a uint32_t

ASSUME TimesAssumption == Times \subseteq Nat
ASSUME UIntBitsAssumption == UIntBits \in Nat \ {0}
\* The counter's range is a positive number (a fact of arithmetic that the
\* provers do not derive for a symbolic exponent).
ASSUME RangeAssumption == 2 ^ UIntBits \in Nat \ {0}

VARIABLES time, counter, iters, pc

vars == <<time, counter, iters, pc>>

\* Loop iterations per microsecond.
PerMicro == 500

\* Faulty variant: the delay taken as a count of iterations.
CounterNoScale(t) == t % (2 ^ UIntBits)

\* uint32_t counter = time * 500, in unsigned arithmetic.
Counter(t) == (t * PerMicro) % (2 ^ UIntBits)

Init ==
  /\ time \in Times
  /\ counter = Counter(time)
  /\ iters = 0
  /\ pc = "test"

\* while (counter--): the old value decides, the new one is stored.
Test ==
  /\ pc = "test"
  /\ pc' = IF counter = 0 THEN "done" ELSE "body"
  /\ counter' = (counter + 2 ^ UIntBits - 1) % (2 ^ UIntBits)
  /\ UNCHANGED <<time, iters>>

\* isb(); dsb();
Body ==
  /\ pc = "body"
  /\ iters' = iters + 1
  /\ pc' = "test"
  /\ UNCHANGED <<time, counter>>

Next == Test \/ Body

Spec == Init /\ [][Next]_vars /\ WF_vars(Next)

-----------------------------------------------------------------------------
\* When dcp_udelay returns it has run 500 barrier pairs for each of the
\* time microseconds it was asked to wait: the delay is never cut short
\* by the uint32_t product time * 500.
DelayMatches == pc = "done" => iters = time * PerMicro
=============================================================================
