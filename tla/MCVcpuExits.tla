---------------------------- MODULE MCVcpuExits ----------------------------
(* Values of the constants of VcpuExits for TLC: a CR0 that start() refuses and *)
(* one it accepts, a CR4 with a bit VMX operation forbids, and exits for every *)
(* handler.                                                                    *)
EXTENDS VcpuExits

MCHostCr0s  == {{"pe"}, {"pe", "ne"}}
MCHostCr4s  == {{"pae", "cet"}}
MCCr0Fixed0 == {"pe"}
MCCr0Fixed1 == {"pe", "ne"}
MCCr4Fixed0 == {"vmxe"}
MCCr4Fixed1 == {"pae", "vmxe"}

SomeExits == Emulated \cup Vmcalls \cup {"vmread", "vmlaunch", "ept_violation", "cr_access",
                                     "exception_nmi"}

=============================================================================
