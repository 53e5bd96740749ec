--------------------------- MODULE ResamplerProofs ---------------------------
(***************************************************************************)
(* Proofs about the decimation branch of fillInFromTrajectory.  Its rows   *)
(* have a closed form, so what it writes is proved for every buffer size   *)
(* and every input length.  The upsampling branch builds its rows by a     *)
(* recursion over the waypoints; its length and order stay model-checked. *)
(***************************************************************************)
EXTENDS Resampler, TLAPS

\* Floor division by a positive divisor: the quotient is a natural number
\* and brackets the dividend.
LEMMA DivBounds ==
  ASSUME NEW a \in Nat, NEW d \in Nat \ {0}
  PROVE  /\ a \div d \in Nat
         /\ d * (a \div d) <= a
         /\ a < d * (a \div d) + d
  OBVIOUS

\* Floor division by a positive divisor is monotone in the dividend.
LEMMA DivMonotone ==
  ASSUME NEW a \in Nat, NEW b \in Nat, NEW d \in Nat \ {0}, a <= b
  PROVE  a \div d <= b \div d
<1>1. /\ a \div d \in Nat /\ d * (a \div d) <= a
      /\ b \div d \in Nat /\ b < d * (b \div d) + d
  BY DivBounds
<1> QED
  BY <1>1

(***************************************************************************)
(* The rows the decimation loop (lines 233-237) writes: exactly N of them, *)
(* each an index of an input waypoint, starting at the first waypoint and  *)
(* never going back in time.                                               *)
(***************************************************************************)
LEMMA DecimateEmitShape ==
  ASSUME N \in Nat \ {0}, L \in Nat \ {0}
  PROVE  /\ DecimateEmit \in Seq(Nat)
         /\ Len(DecimateEmit) = N
         /\ \A k \in 1 .. N : DecimateEmit[k] < L
         /\ DecimateEmit[1] = 0
         /\ \A k \in 1 .. N - 1 : DecimateEmit[k] <= DecimateEmit[k + 1]
<1>1. ASSUME NEW k \in 1 .. N
      PROVE  DecimateEmit[k] \in Nat /\ DecimateEmit[k] < L
  <2>0. N * L - (k - 1) * L = (N - (k - 1)) * L /\ N - (k - 1) >= 1
    OBVIOUS
  <2>1. (k - 1) * L \in Nat /\ (k - 1) * L < N * L
    BY <2>0
  <2>2. /\ ((k - 1) * L) \div N \in Nat
        /\ N * (((k - 1) * L) \div N) <= (k - 1) * L
    BY <2>1, DivBounds
  <2> QED
    BY <2>1, <2>2 DEF DecimateEmit
<1>2. DecimateEmit \in Seq(Nat) /\ Len(DecimateEmit) = N
  BY <1>1 DEF DecimateEmit
<1>3. DecimateEmit[1] = 0
  BY DEF DecimateEmit
<1>4. ASSUME NEW k \in 1 .. N - 1
      PROVE  DecimateEmit[k] <= DecimateEmit[k + 1]
  <2>1. (k - 1) * L \in Nat /\ k * L \in Nat /\ (k - 1) * L <= k * L
    OBVIOUS
  <2>2. ((k - 1) * L) \div N <= (k * L) \div N
    BY <2>1, DivMonotone
  <2> QED
    BY <2>2 DEF DecimateEmit
<1> QED
  BY <1>1, <1>2, <1>3, <1>4

-----------------------------------------------------------------------------
\* The run properties ResampleLength and ResampleOrder, for the calls that
\* take the decimation branch (fewer buffer rows than input waypoints).
DecimatedResample == N < L => ResampleLength /\ ResampleOrder

\* The inductive invariant: a successful call with N < L took the decimation
\* branch and left exactly its rows in the buffer.
DecimateInv ==
  /\ N \in Sizes /\ L \in Lengths
  /\ (status = "true" /\ N < L) => emitted = DecimateEmit

LEMMA DecimateInvInit == Init => DecimateInv
  BY DEF Init, DecimateInv

\* The upsampling branch cannot make the antecedent true (it needs N >= L,
\* and neither N nor L changes afterwards), and the decimation branch writes
\* DecimateEmit itself.
LEMMA DecimateInvStep == DecimateInv /\ [Next]_vars => DecimateInv'
<1> SUFFICES ASSUME DecimateInv, [Next]_vars PROVE DecimateInv'
  OBVIOUS
<1>1. CASE RejectShortInput
  BY <1>1 DEF RejectShortInput, DecimateInv
<1>2. CASE Upsample
  BY <1>2, ResamplerAssumption DEF Upsample, DecimateInv
<1>3. CASE Decimate
  BY <1>3 DEF Decimate, DecimateInv, DecimateEmit
<1>4. CASE UNCHANGED vars
  BY <1>4 DEF vars, DecimateInv, DecimateEmit
<1> QED
  BY <1>1, <1>2, <1>3, <1>4 DEF Next

LEMMA DecimateInvSafe == DecimateInv => DecimatedResample
<1> SUFFICES ASSUME DecimateInv, N < L, status = "true"
             PROVE  ResampleLength /\ ResampleOrder
  BY DEF DecimatedResample, ResampleLength, ResampleOrder
<1>1. N \in Nat \ {0} /\ L \in Nat \ {0} /\ emitted = DecimateEmit
  BY ResamplerAssumption DEF DecimateInv
<1>2. /\ Len(DecimateEmit) = N
      /\ \A k \in 1 .. N : DecimateEmit[k] < L
      /\ DecimateEmit[1] = 0
      /\ \A k \in 1 .. N - 1 : DecimateEmit[k] <= DecimateEmit[k + 1]
  BY <1>1, DecimateEmitShape
<1> QED
  BY <1>1, <1>2 DEF ResampleLength, ResampleOrder

(***************************************************************************)
(* When fillInFromTrajectory decimates a longer input onto the buffer, it  *)
(* writes exactly num_points_ rows, reads only waypoints that exist,       *)
(* starts at the first waypoint and never goes back in time: the double    *)
(* decimation_sampling_factor, taken exactly, never indexes past the input.*)
(***************************************************************************)
THEOREM DecimationResampleSafe == Spec => []DecimatedResample
<1>1. Init => DecimateInv
  BY DecimateInvInit
<1>2. DecimateInv /\ [Next]_vars => DecimateInv'
  BY DecimateInvStep
<1>3. DecimateInv => DecimatedResample
  BY DecimateInvSafe
<1> QED
  BY <1>1, <1>2, <1>3, PTL DEF Spec

=============================================================================
