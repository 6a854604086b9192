--------------------------- MODULE MCTraduccion ---------------------------
(* Small instances of Traduccion for TLC, and of its TLB.                  *)
EXTENDS Traduccion, TlbReemplazo

CONSTANTS p1, p2, p3

PaginasVarias == [p \in Procs |-> CASE p = p1 -> 4 [] p = p2 -> 2 [] OTHER -> 1]

=============================================================================
