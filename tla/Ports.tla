------------------------------- MODULE Ports -------------------------------
(***************************************************************************)
(* The port arithmetic of the streamer manager: how pstreamer_manager_new  *)
(* fixes the first port and how assign_streaming_ports walks from it, in   *)
(* strides of six, to the first base port no live streamer holds.  Ports   *)
(* are uint16_t, so they wrap at PortSpace (65536 in the program).         *)
(***************************************************************************)
EXTENDS Naturals, FiniteSets

CONSTANTS
    StartingPort,   \* the starting_port argument of pstreamer_manager_new
    PortSpace       \* number of values of a port variable (2^16)

ASSUME PortsAssumption ==
    /\ StartingPort \in Nat
    /\ PortSpace \in Nat \ {0}
    /\ StartingPort + 1 < PortSpace

Stride == 6

InitialPort == IF StartingPort % 2 = 1 THEN StartingPort ELSE StartingPort + 1

\* The k-th port the search looks at.
Candidate(k) == (InitialPort + Stride * k) % PortSpace

\* Mutant of AssignPort: hand ports out by the number of streamers.
AssignPortByCount(used) == Candidate(Cardinality(used))

\* The search stops at the first candidate that is not in use.
AssignPort(used) ==
    Candidate(CHOOSE k \in 0..Cardinality(used) :
                /\ Candidate(k) \notin used
                /\ \A j \in 0..(k-1) : Candidate(j) \in used)

\* The ports a streamer with this base port occupies: its own, then two for
\* audio and two for video.
PortRange(base) == base..(base + 4)
=============================================================================
