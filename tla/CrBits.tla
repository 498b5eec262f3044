------------------------------- MODULE CrBits -------------------------------
(***************************************************************************)
(* The bit arithmetic that vcpu_t::start() applies to CR0 and CR4.  A       *)
(* control register is the set of the bits that are 1 in it; a pair         *)
(* (fixed0, fixed1) is what the IA32_VMX_CRx_FIXED0/1 MSRs report: a bit of *)
(* fixed0 must be 1 in VMX operation, a bit outside fixed1 must be 0.       *)
(***************************************************************************)

\* vmx::adjust<cr0_t> and vmx::adjust<cr4_t>: "or" with fixed0, then "and"
\* with fixed1.
AdjustCr(cr, fixed0, fixed1) == (cr \cup fixed0) \cap fixed1

\* The two masks start() tests, (~cr0 & fixed0) and (~cr0 & fixed1); it goes
\* on when both are zero.
Cr0Accepted(cr0, fixed0, fixed1) ==
  /\ fixed0 \ cr0 = {}
  /\ fixed1 \ cr0 = {}

\* What the processor demands of a control register in VMX operation.
MeetsFixedBits(cr, fixed0, fixed1) ==
  /\ fixed0 \subseteq cr
  /\ cr \subseteq fixed1

=============================================================================
