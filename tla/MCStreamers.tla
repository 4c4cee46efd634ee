---------------------------- MODULE MCStreamers ----------------------------
EXTENDS Streamers, TLC

\* Addresses and mountpoints are interchangeable.
Symmetry == Permutations(PsAddr) \cup Permutations(Conn)
              \cup Permutations(MountIds) \cup Permutations(Ids)
=============================================================================
