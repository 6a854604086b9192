----------------------------- MODULE MCMemoria -----------------------------
(* Small instances of Memoria for TLC.                                     *)
EXTENDS Memoria

CONSTANTS p1, p2, p3, p4

\* p2 needs two frames; p3 none, as the processes of the test PLANI_CORTO_PLAZO.
PaginasVarias == [p \in Procs |-> CASE p = p2 -> 2 [] p = p3 -> 0 [] OTHER -> 1]

=============================================================================
