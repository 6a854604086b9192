------------------------------ MODULE MCCache ------------------------------
(* Small instances of Cache for TLC.                                       *)
EXTENDS Cache

CONSTANTS p1, p2

\* p1 has three pages and p2 one.
MarcosVarios == [p \in Procs |-> IF p = p1 THEN <<0, 1, 2>> ELSE <<3>>]

MuchosYUno == [p \in Procs |-> IF p = p1 THEN 3 ELSE 1]

Cinco == [p \in Procs |-> 5]

=============================================================================
