------------------------------ MODULE MCKernel ------------------------------
(* Small instances of Kernel for TLC.                                      *)
EXTENDS KernelCiclo

CONSTANTS p1, p2, p3

UnNombre == [i \in Ios |-> "disco"]
TamUno == [p \in Procs |-> 1]
DosOUna == [p \in Procs |-> IF p = p1 THEN 2 ELSE 1]
DosCadaUno == [p \in Procs |-> 2]
TresYDos == [p \in Procs |-> IF p = p1 THEN 3 ELSE 2]
DosYNada == [p \in Procs |-> IF p = p3 THEN 0 ELSE 2]
TamDos == [p \in Procs |-> IF p = p2 THEN 2 ELSE 1]

\* Devices with one name play the same part.
IosIguales == Permutations(Ios)

=============================================================================
