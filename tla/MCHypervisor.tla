---------------------------- MODULE MCHypervisor ----------------------------
(* Values of the constants of Hypervisor for TLC.                              *)
EXTENDS Hypervisor, TLC

MCHostCr0s  == {{"pe"}, {"pe", "ne"}}
MCHostCr4s  == {{"pae"}}
MCCr0Fixed0 == {"pe"}
MCCr0Fixed1 == {"pe", "ne"}
MCCr4Fixed0 == {"vmxe"}
MCCr4Fixed1 == {"pae", "vmxe"}

Symmetry == Permutations(Cores) \cup Permutations(Threads)

=============================================================================
