------------------------------ MODULE MCVmExit ------------------------------
(* Values of the constants of VmExit for TLC.                                  *)
EXTENDS VmExit

AllExits == Instructions

\* One exit that is skipped, the ping, and the way out.
PingExits == {"cpuid", "vmcall_ping", "vmcall_vmxoff"}

=============================================================================
