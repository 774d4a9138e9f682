--------------------------- MODULE DcpUdelayProofs ---------------------------
(***************************************************************************)
(* Proofs about dcp_udelay: the loop runs exactly as many barrier pairs as *)
(* the uint32_t product time * 500 says, so the delay is the one asked for *)
(* exactly when that product does not wrap.                                *)
(***************************************************************************)
EXTENDS DcpUdelay, TLAPS

Range == 2 ^ UIntBits

TypeOK ==
  /\ time \in Times
  /\ counter \in 0..Range - 1
  /\ iters \in Nat
  /\ pc \in {"test", "body", "done"}

\* The loop invariant: the barrier pairs run so far and the counter add up
\* to the initial counter; in the body the counter was already decremented.
IInv ==
  /\ TypeOK
  /\ pc = "test" => iters + counter = Counter(time)
  /\ pc = "body" => iters + counter + 1 = Counter(time)
  /\ pc = "done" => iters = Counter(time)

\* What the loop really computes: when dcp_udelay returns it has run
\* (time * 500) mod 2^32 barrier pairs.
ItersAreCounter == pc = "done" => iters = Counter(time)

\* Adding the modulus to a residue leaves it unchanged.
LEMMA ModAddRange ==
  ASSUME NEW R \in Nat \ {0}, NEW k \in 0..R - 1
  PROVE  (k + R) % R = k
BY Z3

LEMMA InitIInv == Init => IInv
BY TimesAssumption, RangeAssumption DEF Init, IInv, TypeOK, Counter, Range, PerMicro

LEMMA TestIInv == IInv /\ Test => IInv'
<1> SUFFICES ASSUME IInv, Test PROVE IInv'
  OBVIOUS
<1>1. pc = "test"
  BY DEF Test
<1>2. CASE counter = 0
  BY <1>1, <1>2, RangeAssumption DEF Test, IInv, TypeOK, Range
<1>3. CASE counter # 0
  <2>1. counter' = counter - 1
    <3>1. counter - 1 \in 0..Range - 1 /\ Range \in Nat \ {0}
      BY <1>3, RangeAssumption DEF IInv, TypeOK, Range
    <3>2. ((counter - 1) + Range) % Range = counter - 1
      BY <3>1, ModAddRange
    <3>3. counter + Range - 1 = (counter - 1) + Range
      BY <3>1 DEF IInv, TypeOK
    <3>. QED  BY <3>2, <3>3 DEF Test, Range
  <2>. QED  BY <1>1, <1>3, <2>1, RangeAssumption DEF Test, IInv, TypeOK, Range
<1>. QED  BY <1>2, <1>3

LEMMA BodyIInv == IInv /\ Body => IInv'
BY DEF Body, IInv, TypeOK

LEMMA IInvStep == IInv /\ [Next]_vars => IInv'
BY TestIInv, BodyIInv DEF Next, vars, IInv, TypeOK

\* For every width of the counter and every set of delays: when dcp_udelay
\* returns, the while (counter--) loop has run exactly Counter(time) =
\* (time * 500) mod 2^UIntBits barrier pairs, neither one more nor one less.
THEOREM ItersTheorem == Spec => []ItersAreCounter
<1>1. Init => IInv  BY InitIInv
<1>2. IInv /\ [Next]_vars => IInv'  BY IInvStep
<1>3. IInv => ItersAreCounter  BY DEF IInv, ItersAreCounter
<1>. QED  BY <1>1, <1>2, <1>3, PTL DEF Spec

\* When no delay asked for makes time * 500 reach 2^UIntBits, dcp_udelay
\* waits 500 barrier pairs per microsecond (DelayMatches, the dcp_udelay
\* run); the wrap run shows that without the hypothesis it does not.
THEOREM DelayTheorem ==
  (\A t \in Times : t * PerMicro < Range) => (Spec => []DelayMatches)
<1> SUFFICES ASSUME \A t \in Times : t * PerMicro < Range
             PROVE Spec => []DelayMatches
  OBVIOUS
<1>1. IInv => DelayMatches
  BY TimesAssumption, RangeAssumption DEF IInv, TypeOK, DelayMatches, Counter, Range, PerMicro
<1>. QED  BY <1>1, InitIInv, IInvStep, PTL DEF Spec
=============================================================================
