------------------------------- MODULE MCCommerce -------------------------------
(* Instances of Commerce for TLC: two packs that share a skill, as standard *)
(* and the packs above it do.                                               *)
EXTENDS CommerceServer, TLC

CONSTANTS p1, p2, s1, s2, small, large, m1, m2

TwoPacks == small :> <<s1>> @@ large :> <<s1, s2>>

\* Processes and meters are interchangeable, skills and packs are not.
Symmetric == Permutations(Procs) \cup Permutations(Meters)
=============================================================================
