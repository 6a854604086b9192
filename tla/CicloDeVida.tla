---------------------------- MODULE CicloDeVida -----------------------------
(***************************************************************************)
(* What the Kernel promises of a process, whatever threads and semaphores   *)
(* it is made of: the seven-state life cycle, admission and dispatch in     *)
(* order of arrival, no more running processes than CPUs, and frames for    *)
(* every process that is ready or runs.                                     *)
(***************************************************************************)
EXTENDS Integers, FiniteSets, SequencesExt, FiniteSetsExt

CONSTANTS Procs, ProcesoInicial, Cpus, Tam, Marcos

VARIABLES
    nuevos,           \* NEW, in order of arrival
    listos,           \* READY, in order of arrival
    ejecutan,         \* EXEC
    bloqueados,       \* BLOCKED
    suspendidos,      \* SUSP_BLOCKED
    suspListos,       \* SUSP_READY, in order of arrival
    salen,            \* EXIT
    terminados,       \* ended
    residentes        \* the processes that have their frames

vars == <<nuevos, listos, ejecutan, bloqueados, suspendidos, suspListos, salen, terminados,
          residentes>>

Vistos == UNION {ToSet(nuevos), ToSet(listos), ejecutan, bloqueados, suspendidos,
                 ToSet(suspListos), salen, terminados}

Ocupados == MapThenSumSet(LAMBDA p : Tam[p], residentes)

Init ==
    /\ nuevos = <<ProcesoInicial>>
    /\ listos = <<>> /\ suspListos = <<>>
    /\ ejecutan = {} /\ bloqueados = {} /\ suspendidos = {} /\ salen = {} /\ terminados = {}
    /\ residentes = {}

Crear(p) ==
    /\ p \notin Vistos
    /\ nuevos' = Append(nuevos, p)
    /\ UNCHANGED <<listos, ejecutan, bloqueados, suspendidos, suspListos, salen, terminados,
                   residentes>>

\* Only the first new process and the first suspended ready one get frames.
Reservar ==
    /\ \E p \in Procs \ residentes :
         /\ \/ nuevos # <<>> /\ p = Head(nuevos)
            \/ suspListos # <<>> /\ p = Head(suspListos)
         /\ Ocupados + Tam[p] <= Marcos
         /\ residentes' = residentes \cup {p}
    /\ UNCHANGED <<nuevos, listos, ejecutan, bloqueados, suspendidos, suspListos, salen, terminados>>

Admitir ==
    /\ nuevos # <<>>
    /\ Head(nuevos) \in residentes
    /\ nuevos' = Tail(nuevos)
    /\ listos' = Append(listos, Head(nuevos))
    /\ UNCHANGED <<ejecutan, bloqueados, suspendidos, suspListos, salen, terminados, residentes>>

Despachar ==
    /\ listos # <<>>
    /\ Cardinality(ejecutan) < Cardinality(Cpus)
    /\ ejecutan' = ejecutan \cup {Head(listos)}
    /\ listos' = Tail(listos)
    /\ UNCHANGED <<nuevos, bloqueados, suspendidos, suspListos, salen, terminados, residentes>>

Bloquear(p) ==
    /\ p \in ejecutan
    /\ ejecutan' = ejecutan \ {p}
    /\ bloqueados' = bloqueados \cup {p}
    /\ UNCHANGED <<nuevos, listos, suspendidos, suspListos, salen, terminados, residentes>>

\* The end of a dump or of a burst.
Desbloquear(p) ==
    /\ p \in bloqueados
    /\ bloqueados' = bloqueados \ {p}
    /\ listos' = Append(listos, p)
    /\ UNCHANGED <<nuevos, ejecutan, suspendidos, suspListos, salen, terminados, residentes>>

\* EXIT, a failed dump, a syscall for a device that is not there.
Salir(p) ==
    /\ p \in ejecutan \cup bloqueados
    /\ ejecutan' = ejecutan \ {p}
    /\ bloqueados' = bloqueados \ {p}
    /\ salen' = salen \cup {p}
    /\ residentes' = residentes \ {p}
    /\ UNCHANGED <<nuevos, listos, suspendidos, suspListos, terminados>>

Terminar(p) ==
    /\ p \in salen
    /\ salen' = salen \ {p}
    /\ terminados' = terminados \cup {p}
    /\ UNCHANGED <<nuevos, listos, ejecutan, bloqueados, suspendidos, suspListos, residentes>>

Suspender(p) ==
    /\ p \in bloqueados
    /\ bloqueados' = bloqueados \ {p}
    /\ suspendidos' = suspendidos \cup {p}
    /\ UNCHANGED <<nuevos, listos, ejecutan, suspListos, salen, terminados, residentes>>

\* Its pages go to swap.
Desalojar(p) ==
    /\ p \in residentes \cap suspendidos
    /\ residentes' = residentes \ {p}
    /\ UNCHANGED <<nuevos, listos, ejecutan, bloqueados, suspendidos, suspListos, salen, terminados>>

FinDeIoSuspendido(p) ==
    /\ p \in suspendidos \ residentes
    /\ suspendidos' = suspendidos \ {p}
    /\ suspListos' = Append(suspListos, p)
    /\ UNCHANGED <<nuevos, listos, ejecutan, bloqueados, salen, terminados, residentes>>

Reanudar ==
    /\ suspListos # <<>>
    /\ Head(suspListos) \in residentes
    /\ suspListos' = Tail(suspListos)
    /\ listos' = Append(listos, Head(suspListos))
    /\ UNCHANGED <<nuevos, ejecutan, bloqueados, suspendidos, salen, terminados, residentes>>

Next == \/ Reservar \/ Admitir \/ Despachar \/ Reanudar
        \/ \E p \in Procs : \/ Crear(p) \/ Bloquear(p) \/ Desbloquear(p) \/ Salir(p) \/ Terminar(p)
                            \/ Suspender(p) \/ Desalojar(p) \/ FinDeIoSuspendido(p)

Spec == Init /\ [][Next]_vars

=============================================================================
