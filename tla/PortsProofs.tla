----------------------------- MODULE PortsProofs -----------------------------
(***************************************************************************)
(* What assign_streaming_ports returns, for every number of streamers that *)
(* does not make the port counter wrap.                                    *)
(***************************************************************************)
EXTENDS Ports, FiniteSetTheorems, TLAPS

\* The first port is an odd natural number (pstreamer_manager_new).
LEMMA InitialPortOdd ==
    InitialPort \in Nat /\ InitialPort % 2 = 1
BY PortsAssumption, SMT DEF InitialPort

\* Before the counter wraps, the k-th candidate is k strides away.
LEMMA CandidateValue ==
    ASSUME NEW k \in Nat, InitialPort + Stride * k < PortSpace
    PROVE  Candidate(k) = InitialPort + Stride * k
BY PortsAssumption, InitialPortOdd, SMT DEF Candidate, Stride

\* The search of assign_streaming_ports ends at the latest after one stride
\* per port in use, at a port that is not in use.
THEOREM AssignPortFresh ==
    ASSUME NEW used, IsFiniteSet(used),
           InitialPort + Stride * Cardinality(used) < PortSpace
    PROVE  \E k \in 0..Cardinality(used) :
              /\ AssignPort(used) = InitialPort + Stride * k
              /\ AssignPort(used) \notin used
<1> DEFINE n == Cardinality(used)
           Unused == {k \in 0..n : Candidate(k) \notin used}
<1>1. n \in Nat
  BY FS_CardinalityType
<1>2. \A k \in 0..n : Candidate(k) = InitialPort + Stride * k
  <2> TAKE k \in 0..n
  <2>1. InitialPort + Stride * k < PortSpace
    BY <1>1, InitialPortOdd, PortsAssumption, SMT DEF Stride
  <2> QED BY <2>1, <1>1, CandidateValue
<1>3. Unused # {}
  <2> SUFFICES ASSUME \A k \in 0..n : Candidate(k) \in used PROVE FALSE
    OBVIOUS
  <2> DEFINE f == [k \in 0..n |-> Candidate(k)]
  <2>1. IsFiniteSet(0..n) /\ Cardinality(0..n) = n + 1
    BY <1>1, FS_Interval
  <2>2. f \in [0..n -> used]
    OBVIOUS
  <2>3. Cardinality(used) < Cardinality(0..n)
    BY <2>1, <1>1
  <2>4. \E x, y \in 0..n : x # y /\ f[x] = f[y]
    <3> HIDE DEF f
    <3> QED BY <2>1, <2>2, <2>3, FS_PigeonHole
  <2>5. PICK x \in 0..n, y \in 0..n : x # y /\ Candidate(x) = Candidate(y)
    BY <2>4
  <2>6. InitialPort + Stride * x = InitialPort + Stride * y
    BY <2>5, <1>2
  <2> QED BY <2>5, <2>6, <1>1, InitialPortOdd, SMT DEF Stride
<1>4. PICK k \in Unused : \A j \in Unused : k <= j
  <2>1. Unused \subseteq Nat
    BY <1>1
  <2> HIDE DEF Unused
  <2>2. PICK k \in Unused : \A j \in Unused : <<j, k>> \notin OpToRel(<, Nat)
    BY <2>1, <1>3, WFMin, NatLessThanWellFounded
  <2>3. \A j \in Unused : ~(j < k)
    BY <2>1, <2>2 DEF OpToRel
  <2> QED BY <2>1, <2>3
<1>5. \A j \in 0..(k-1) : Candidate(j) \in used
  BY <1>1, <1>4
<1> DEFINE First(j) == /\ Candidate(j) \notin used
                       /\ \A l \in 0..(j-1) : Candidate(l) \in used
           c == CHOOSE j \in 0..n : First(j)
<1>6. k \in 0..n /\ First(k)
  BY <1>4, <1>5
<1>7. c \in 0..n /\ First(c)
  <2> HIDE DEF First
  <2> QED BY <1>6
<1>8. AssignPort(used) = Candidate(c)
  BY DEF AssignPort
<1> QED BY <1>7, <1>8, <1>2
=============================================================================
