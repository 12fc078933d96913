---------------------------- MODULE MCFrameGate ----------------------------
(* Instances of FrameGate for TLC. *)
EXTENDS FrameGate, TLC

\* The drawings differ in nothing but being different.
Sym == Permutations(Contents)
=============================================================================
