------------------------------- MODULE MCShare -------------------------------
EXTENDS Share, TLC

CONSTANTS v, w

(* One version is longer than the other. *)
MCSizeOf == (v :> 1) @@ (w :> 2)

=============================================================================
