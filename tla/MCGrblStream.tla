---------------------------- MODULE MCGrblStream ----------------------------
(* Instances of GrblStream for TLC. *)
EXTENDS GrblStream

\* Four lines of 2, 1, 2 and 1 bytes.
MCOffset == [i \in 0..4 |-> <<0, 2, 3, 5, 6>>[i + 1]]

\* Three lines of 2, 1 and 2 bytes.
MCOffset3 == [i \in 0..3 |-> <<0, 2, 3, 5>>[i + 1]]

\* Two lines of 2 and 1 bytes.
MCOffset2 == [i \in 0..2 |-> <<0, 2, 3>>[i + 1]]
=============================================================================
