---------------------------- MODULE MCBootLayout ----------------------------
(* BootLayout for TLC: every order of .bss and stack up to address Top. *)
EXTENDS BootLayout

CONSTANT Top

MCLayouts ==
  {l \in [sbss : 0 .. Top, ebss : 0 .. Top, stack_bottom : 0 .. Top,
          stack_top : 0 .. Top, end : 1 .. Top + 2] :
     /\ l.sbss <= l.ebss /\ l.ebss <= l.end
     /\ l.stack_bottom <= l.stack_top /\ l.stack_top <= l.end}
=============================================================================
