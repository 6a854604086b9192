------------------------------- MODULE MCPmcp --------------------------------
(* Small instances of Pmcp for TLC.                                        *)
EXTENDS Pmcp

CONSTANTS p1, p2, p3

\* Two sizes.
Chicos == [p \in Procs |-> IF p = p3 THEN 1 ELSE 2]

UnaCadaUno == [p \in Procs |-> 1]

=============================================================================
