---------------------------- MODULE KernelCiclo -----------------------------
(* The Kernel implements the life cycle of CicloDeVida.                     *)
EXTENDS Kernel

\* Pcs at which an execution thread took its process off the CPU but its queue
\* does not show it yet.
DejoEjecutar(p) ==
    \E h \in Hilos : hilo[h].proc = p /\ hilo[h].pc \in {"ioLiberada", "ioBloquea", "ioFinaliza",
                                                         "dumpEspera", "dumpListo"}

EntreColas(p, e) ==
    \/ e = "BLOCKED" /\ TimersDe(p, {"sacado"})
    \/ \E i \in Ios : /\ io[i].proc = p
                      /\ io[i].pc = IF e = "BLOCKED" THEN "aReady" ELSE "aSuspReady"

\* A process that enters BLOCKED with its CPU still taken counts as running.
TieneCpu(p) == \E h \in Hilos : hilo[h].proc = p /\ hilo[h].pc \in {"ejecuta", "dump"}

Ciclo == INSTANCE CicloDeVida WITH
    nuevos      <- cola["NEW"],
    listos      <- cola["READY"],
    ejecutan    <- {p \in Procs : TieneCpu(p)},
    bloqueados  <- {p \in Procs : ~TieneCpu(p) /\ (Esta(p, "BLOCKED") \/ DejoEjecutar(p)
                                                     \/ EntreColas(p, "BLOCKED"))},
    suspendidos <- {p \in Procs : Esta(p, "SUSP_BLOCKED") \/ EntreColas(p, "SUSP_BLOCKED")},
    suspListos  <- (IF medianoFifo.pc = "admite" THEN <<medianoFifo.proc>> ELSE <<>>)
                       \o cola["SUSP_READY"],
    salen       <- ToSet(cola["EXIT_ESTADO"]),
    terminados  <- {p \in Procs : vivo[p] = "liberado"},
    residentes  <- {p \in Procs : ubicacion[p] = "memoria"}

ImplementaCiclo == Ciclo!Spec

=============================================================================
