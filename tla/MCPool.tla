------------------------------- MODULE MCPool -------------------------------
(* Values of the constants of Pool for TLC: the machine may come to have as   *)
(* many processors as the array has elements.                                 *)
EXTENDS Pool

MCMaxCpus == 4

=============================================================================
