---------------------------- MODULE MCCortoPlazo ----------------------------
(* Small instances of CortoPlazo for TLC.                                  *)
EXTENDS CortoPlazo

CONSTANTS p1, p2, p3, c1, c2

Una(instrs, e) == [hace |-> instrs, veces |-> 1, est |-> e]
SoloExit(e) == [hace |-> {}, veces |-> 0, est |-> e]

\* Three processes on two CPUs, one of which may be preempted and create others;
\* or two, of which one blocks, comes back and may preempt the other.
UnoLargo == p1 :> Una({"NOOP", "INIT_PROC"}, 1) @@ p2 :> SoloExit(0) @@ p3 :> SoloExit(1)
DosConIo == p1 :> Una({"NOOP"}, 1) @@ p2 :> Una({"IO"}, 1)
LargoOConIo == {UnoLargo, DosConIo}

=============================================================================
