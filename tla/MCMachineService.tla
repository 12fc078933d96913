-------------------------- MODULE MCMachineService --------------------------
(* Instances of MachineService for TLC. *)
EXTENDS MachineService, TLC

CONSTANTS u1, u2, u3, l1, l2, d1, d2

MCUser == {u1, u2, u3}
MCLoop == {l1, l2}
MCDeadman == {d1, d2}
MCThread == MCUser \cup MCLoop \cup MCDeadman
MCSymmetry == Permutations(MCUser) \cup Permutations(MCLoop)
                \cup Permutations(MCDeadman)
=============================================================================
