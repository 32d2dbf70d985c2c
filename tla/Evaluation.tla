----------------------------- MODULE Evaluation -----------------------------
(***************************************************************************)
(* What an evaluation promises: the answer to a program is what its        *)
(* expression means, it is given once and never changes.                   *)
(***************************************************************************)
EXTENDS NixSemantics

VARIABLES
  main,          \* the file under evaluation
  answer         \* <<>> until it is known

Init == answer = <<>>
Answer == answer = <<>> /\ answer' # <<>> /\ answer' = Meaning(main) /\ UNCHANGED main
Spec == Init /\ [][Answer]_<<main, answer>>

=============================================================================
