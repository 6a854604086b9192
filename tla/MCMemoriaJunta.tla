--------------------------- MODULE MCMemoriaJunta ---------------------------
(* Small instances of MemoriaJunta for TLC.                                *)
EXTENDS MemoriaJunta

CONSTANTS p1, p2

UnaPagina == [p \in Procs |-> 1]

=============================================================================
