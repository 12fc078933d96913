---------------------------- MODULE MCAckSession ----------------------------
(* Instances of AckSession for TLC. *)
EXTENDS AckSession

\* Jobs that keep the contract of a dialect, and jobs that break it.
MCJobs ==
  {<<"M3", "G1", "M5", "M400">>, <<"G1", "M400">>, <<"M5", "M3", "M400">>,
   <<"fire", "M400">>, <<"G1", "M5">>}
=============================================================================
