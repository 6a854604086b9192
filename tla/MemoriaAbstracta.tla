-------------------------- MODULE MemoriaAbstracta --------------------------
(***************************************************************************)
(* What the memory module promises the Kernel about room: a process is      *)
(* outside, entering, resident or leaving; residents always fit; and a      *)
(* process is turned away only when the frames that the others hold, may    *)
(* still take or are giving back leave too little for it.                   *)
(***************************************************************************)
EXTENDS Integers, FiniteSetsExt

CONSTANTS
    Procs,            \* processes
    Paginas,          \* frames each one needs
    Marcos,           \* frames there are
    SinArchivo        \* processes whose program cannot be read

VARIABLE estado

Situaciones == {"afuera", "entrando", "residente", "saliendo"}

\* Frames of the processes of ps.
Ocupan(ps) == MapThenSumSet(LAMBDA p : Paginas[p], ps)

En(s) == {p \in Procs : estado[p] = s}

Cambia(p, s) == estado' = [estado EXCEPT ![p] = s]

Init == estado = [p \in Procs |-> "afuera"]

Pedir(p) == estado[p] = "afuera" /\ Cambia(p, "entrando")

Admitir(p) ==
    /\ estado[p] = "entrando"
    /\ Ocupan(En("residente") \cup {p}) <= Marcos
    /\ Cambia(p, "residente")

\* The refused process may still have frames to give back.
Rechazar(p) ==
    /\ estado[p] = "entrando"
    /\ p \in SinArchivo \/ Ocupan((Procs \ En("afuera")) \cup {p}) > Marcos
    /\ \E s \in {"afuera", "saliendo"} : Cambia(p, s)

Sacar(p) == estado[p] = "residente" /\ Cambia(p, "saliendo")

Salir(p) == estado[p] = "saliendo" /\ Cambia(p, "afuera")

Next == \E p \in Procs : Pedir(p) \/ Admitir(p) \/ Rechazar(p) \/ Sacar(p) \/ Salir(p)

Spec == Init /\ [][Next]_estado

=============================================================================
