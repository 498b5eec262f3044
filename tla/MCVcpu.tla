------------------------------- MODULE MCVcpu -------------------------------
(* Values of the constants of Vcpu for TLC: two bits per register are enough   *)
(* to tell a register that misses a fixed bit from one that has them all, and  *)
(* one CR4 holds a bit that VMX operation forbids.                             *)
EXTENDS Vcpu

MCHostCr0s  == {{"pe"}, {"pe", "ne"}}
MCHostCr4s  == {{"pae"}, {"pae", "cet"}}
MCCr0Fixed0 == {"pe"}
MCCr0Fixed1 == {"pe", "ne"}
MCCr4Fixed0 == {"vmxe"}
MCCr4Fixed1 == {"pae", "vmxe"}

=============================================================================
