--------------------------- MODULE MCGuestContext ---------------------------
(* Values of the constants of GuestContext, and of Controls in it, for TLC.     *)
(* The processors differ from an ordinary one in one respect each that the code *)
(* or VM entry looks at.                                                        *)
EXTENDS GuestContext

\* What a processor with these secondary controls allows.
May(secondary) == [w \in Words |->
  CASE w = "pin"   -> PinBits
    [] w = "proc"  -> ProcBits \ (IF secondary = {} THEN {"use_secondary_controls"} ELSE {})
    [] w = "proc2" -> secondary
    [] w = "exit"  -> ExitBits
    [] w = "entry" -> EntryBits]

\* relaxed: the default settings the TRUE registers let be zero.
Model(secondary, relaxed) ==
  [vmx |-> TRUE, vmxon |-> TRUE, mtrr_enable |-> TRUE, true_controls |-> TRUE,
   controls |-> [w \in Words |-> [must |-> Default1(w), may |-> May(secondary)[w]]],
   trues |-> [w \in Words |-> [must |-> Default1(w) \ relaxed, may |-> May(secondary)[w]]],
   ept_vpid |-> (IF "enable_ept" \in secondary THEN EptBits ELSE {})
                \cup (IF "enable_vpid" \in secondary THEN VpidBits ELSE {}),
   instructions |-> secondary \cap GuardedInstructions]

Defaults == {"cr3_load_exiting", "save_debug_controls", "load_debug_controls"}
Ordinary == Model(Proc2Bits, Defaults)

\* One that wants NMIs to exit, and one that wants the waits let through.
Insistent == [Ordinary EXCEPT !.controls["pin"].must = PinBits, !.trues["pin"].must = PinBits]
Waiting   == [Ordinary EXCEPT !.controls["proc2"].must = {"enable_user_wait_pause"},
                              !.trues["proc2"].must = {"enable_user_wait_pause"}]

MCProcessors ==
  {Ordinary, Insistent, Waiting,
   Model(Proc2Bits, {}), Model(Proc2Bits, {"save_debug_controls"}),
   Model({}, Defaults), Model({"enable_ept"}, Defaults), Model({"enable_vpid"}, Defaults),
   Model({"enable_ept", "enable_vpid"}, Defaults),
   [Ordinary EXCEPT !.true_controls = FALSE],
   [Ordinary EXCEPT !.vmxon = FALSE], [Ordinary EXCEPT !.mtrr_enable = FALSE],
   [Model({}, Defaults) EXCEPT !.vmx = FALSE, !.vmxon = FALSE]}
  \cup {[Ordinary EXCEPT !.ept_vpid = @ \ {bit}] : bit \in EptBits \cup VpidBits}

=============================================================================
