----------------------------- MODULE Traduccion -----------------------------
(***************************************************************************)
(* A CPU without page cache (ENTRADAS_CACHE = 0): the processes the Kernel    *)
(* gives it one after another, the translation of the addresses they use     *)
(* through its TLB and the page tables of the memory module, and the frames  *)
(* that come and go meanwhile.                                              *)
(*                                                                         *)
(* One access is one step: while a process executes, nobody moves its pages. *)
(* The end of a process is not one step: the CPU empties its TLB and the      *)
(* memory module frees the frames at the same time.                         *)
(***************************************************************************)
EXTENDS Tlb, Paginacion, Functions

CONSTANTS
    Procs,            \* processes
    Paginas,          \* pages of each one
    Marcos,           \* cantidad_marcos
    Salidas,          \* ways a process leaves the CPU before it ends
    MaxAccesos,       \* bound: READs and WRITEs of each process
    Nadie             \* no process

ASSUME TraduccionAssumption ==
    /\ IsFiniteSet(Procs) /\ Nadie \notin Procs
    /\ Paginas \in [Procs -> 0 .. Capacidad]
    /\ Marcos \in Nat
    /\ Salidas \subseteq {"IO"}
    /\ MaxAccesos \in Nat
    /\ \A p \in Procs : 0 .. Paginas[p] - 1 \subseteq NrosPagina
    /\ 0 .. Marcos - 1 \subseteq NrosMarco

VARIABLES
    cpu,              \* the process the CPU has and what it does with it
    estado,           \* where each process is
    marcosDe,         \* frames of each process, in page order
    restan,           \* accesses each program has left
    ultima,           \* the last access: page, frame translated, frame addressed
    cargaron          \* ghost: whose entries the TLB may hold, by what happened
                      \* since it was emptied

vars == <<tlbVars, cpu, estado, marcosDe, restan, ultima, cargaron>>

\* Several processes looked for their pages, or the one that did was swapped out.
Mezcla == Procs \cup {Nadie}

Ninguna == [pid |-> Nadie, pag |-> -1, marco |-> -1, pedido |-> -1]

Init ==
    /\ TlbInit
    /\ cpu = [pid |-> Nadie, pc |-> "lista"]
    /\ estado = [p \in Procs |-> "nuevo"]
    /\ marcosDe = [p \in Procs |-> <<>>]
    /\ restan = [p \in Procs |-> MaxAccesos]
    /\ ultima = Ninguna
    /\ cargaron = {}

-----------------------------------------------------------------------------
(* The requests of the Kernel that Memoria models in full, as far as they    *)
(* concern the frames of a process: they are taken whole, lowest first.     *)

MarcosLibres == (0 .. Marcos - 1) \ UNION {Range(marcosDe[p]) : p \in Procs}

\* The n lowest free frames, in order.
SiguientesLibres(n) ==
    CHOOSE s \in [1 .. n -> MarcosLibres] :
        /\ \A i, j \in 1 .. n : i < j => s[i] < s[j]
        /\ \A f \in MarcosLibres : f \in Range(s) \/ \A i \in 1 .. n : s[i] < f

TomarMarcos(p) ==
    /\ Paginas[p] <= Cardinality(MarcosLibres)
    /\ marcosDe' = [marcosDe EXCEPT ![p] = SiguientesLibres(Paginas[p])]

\* With one level a process without pages has no table, and is refused.
Admitir(p) ==
    /\ estado[p] = "nuevo"
    /\ CANTIDAD_NIVELES > 1 \/ Paginas[p] > 0
    /\ TomarMarcos(p)
    /\ estado' = [estado EXCEPT ![p] = "listo"]
    /\ UNCHANGED <<tlbVars, cpu, restan, ultima, cargaron>>

Suspender(p) ==
    /\ estado[p] = "bloqueado"
    /\ estado' = [estado EXCEPT ![p] = "suspendido"]
    /\ marcosDe' = [marcosDe EXCEPT ![p] = <<>>]
    /\ cargaron' = IF p \in cargaron THEN Mezcla ELSE cargaron
    /\ UNCHANGED <<tlbVars, cpu, restan, ultima>>

Desuspender(p) ==
    /\ estado[p] = "suspendido"
    /\ TomarMarcos(p)
    /\ estado' = [estado EXCEPT ![p] = "listo"]
    /\ UNCHANGED <<tlbVars, cpu, restan, ultima, cargaron>>

\* The burst ends.
FinDeIo(p) ==
    /\ estado[p] = "bloqueado"
    /\ estado' = [estado EXCEPT ![p] = "listo"]
    /\ UNCHANGED <<tlbVars, cpu, marcosDe, restan, ultima, cargaron>>

-----------------------------------------------------------------------------
(* The CPU.                                                                *)

\* CPU_LISTA is answered with the pid and pc of a process.
Despachar(p) ==
    /\ cpu.pc = "lista"
    /\ estado[p] = "listo"
    /\ cpu' = [pid |-> p, pc |-> "ejecuta"]
    /\ estado' = [estado EXCEPT ![p] = "ejecuta"]
    /\ UNCHANGED <<tlbVars, marcosDe, restan, ultima, cargaron>>

\* Frame a READ or WRITE reaches: what travels is the address of the program.
MarcoPedido(pag, marco) == pag

\* traduccion with the TLB, and the request that follows it.
Acceder(pag) ==
    LET marco == IF BuscarTlb(pag) # -1 THEN BuscarTlb(pag)
                 ELSE NavegarNiveles(TablaRaiz(marcosDe[cpu.pid]), pag)
    IN  /\ cpu.pc = "ejecuta"
        /\ restan[cpu.pid] > 0
        /\ pag < Paginas[cpu.pid]
        /\ Acierto(pag) \/ Fallo(pag, marco)
        /\ ultima' = [pid |-> cpu.pid, pag |-> pag, marco |-> marco, pedido |-> MarcoPedido(pag, marco)]
        /\ restan' = [restan EXCEPT ![cpu.pid] = @ - 1]
        /\ cargaron' = IF cargaron \subseteq {cpu.pid} THEN {cpu.pid} ELSE Mezcla
        /\ UNCHANGED <<cpu, estado, marcosDe>>

\* EXIT is sent before the TLB is emptied ...
SyscallExit ==
    /\ cpu.pc = "ejecuta"
    /\ cpu' = [cpu EXCEPT !.pc = "desaloja"]
    /\ estado' = [estado EXCEPT ![cpu.pid] = "saliendo"]
    /\ ultima' = Ninguna
    /\ UNCHANGED <<tlbVars, marcosDe, restan, cargaron>>

Desalojar ==
    /\ cpu.pc = "desaloja"
    /\ DesalojarProcesoTLB
    /\ cpu' = [cpu EXCEPT !.pc = "espera"]
    /\ cargaron' = {}
    /\ UNCHANGED <<estado, marcosDe, restan, ultima>>

\* ... and meanwhile the memory module frees the frames.
Finalizar(p) ==
    /\ estado[p] = "saliendo"
    /\ estado' = [estado EXCEPT ![p] = "terminado"]
    /\ marcosDe' = [marcosDe EXCEPT ![p] = <<>>]
    /\ UNCHANGED <<tlbVars, cpu, restan, ultima, cargaron>>

\* The Kernel answers the EXIT, and the CPU asks for another process.
SyscallEjecutada ==
    /\ cpu.pc = "espera"
    /\ estado[cpu.pid] = "terminado"
    /\ cpu' = [pid |-> Nadie, pc |-> "lista"]
    /\ UNCHANGED <<tlbVars, estado, marcosDe, restan, ultima, cargaron>>

\* IO: the CPU asks for another process and keeps its TLB.
SyscallIo ==
    /\ "IO" \in Salidas
    /\ cpu.pc = "ejecuta"
    /\ estado' = [estado EXCEPT ![cpu.pid] = "bloqueado"]
    /\ cpu' = [pid |-> Nadie, pc |-> "lista"]
    /\ ultima' = Ninguna
    /\ UNCHANGED <<tlbVars, marcosDe, restan, cargaron>>

Next ==
    \/ \E p \in Procs : Admitir(p) \/ Despachar(p) \/ FinDeIo(p) \/ Suspender(p) \/ Desuspender(p) \/ Finalizar(p)
    \/ \E pag \in NrosPagina : Acceder(pag)
    \/ SyscallExit \/ Desalojar \/ SyscallEjecutada \/ SyscallIo

Spec == Init /\ [][Next]_vars

-----------------------------------------------------------------------------
(* Properties.                                                             *)

Estados == {"nuevo", "listo", "ejecuta", "bloqueado", "suspendido", "saliendo", "terminado"}

\* Every variable has its type.
TypeOK ==
    /\ TlbTypeOK
    /\ cpu \in [pid : Procs \cup {Nadie}, pc : {"lista", "ejecuta", "desaloja", "espera"}]
    /\ estado \in [Procs -> Estados]
    /\ marcosDe \in [Procs -> Seq(0 .. Marcos - 1)]
    /\ restan \in [Procs -> 0 .. MaxAccesos]
    /\ ultima.pid \in Procs \cup {Nadie}
    /\ cargaron \subseteq Mezcla

Residentes == {p \in Procs : estado[p] \in {"listo", "ejecuta", "bloqueado", "saliendo"}}

\* crear_nivel_tabla and asignar_marcos_a_todas_las_paginas lay the pages out the
\* way obtener_marco_de_pagina_logica looks for them: page n of a process has its
\* n-th frame, and the pages after the last have none.
TablaCompleta ==
    \A p \in Residentes : \A pag \in 0 .. Capacidad - 1 :
        ObtenerMarco(TablaRaiz(marcosDe[p]), pag) =
            IF pag < Paginas[p] THEN marcosDe[p][pag + 1] ELSE -1

CoherenteCon(p) ==
    \A i \in Entradas : EnUso(i) =>
        listaTlb[i].numMarco = NavegarNiveles(TablaRaiz(marcosDe[p]), listaTlb[i].numPag)

\* What the TLB holds is what a walk of the table of the process that executes gives,
\* whoever ended before it and whatever frames they shared, and also when it comes
\* back from an IO and finds its old entries.  Only two things make them wrong
\* (traduccion.c:67): another process looked for its pages on this CPU since the TLB
\* was emptied, or the one that comes back was in swap.
TlbCoherente ==
    cpu.pc = "ejecuta" /\ cargaron \subseteq {cpu.pid} => CoherenteCon(cpu.pid)

\* Every step of the CPU is a step of its TLB, with a page and a frame that exist.
EsTlb == TlbSpec

\* traduccion.c:9, "te tendria que devolver la dir fisica": the frame translated is
\* that of the page of the process that executes.
TraduccionCorrecta ==
    ultima # Ninguna => ultima.marco = marcosDe[ultima.pid][ultima.pag + 1]

\* servidor_memoria.c:204, "la dirección recibida es absoluta": the frame that a
\* READ or WRITE reaches belongs to the process that asks.
AccedeALoSuyo ==
    ultima # Ninguna => ultima.pedido \in Range(marcosDe[ultima.pid])

=============================================================================
