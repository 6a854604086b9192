----------------------------- MODULE CortoPlazo -----------------------------
(***************************************************************************)
(* The short term planners by estimate, SJF_SIN_DESALOJO and                *)
(* SJF_CON_DESALOJO: the sorted READY queue, the planner thread, the         *)
(* execution threads, the dispatch socket of each CPU in both directions,    *)
(* the interrupt socket, and the instruction cycle behind them.             *)
(*                                                                         *)
(* The rest of the Kernel is where processes come from before they are made  *)
(* ready and where they go when they block.  One action has one access to    *)
(* shared data, with the sem_waits before it and the posts and sends after.  *)
(***************************************************************************)
EXTENDS Integers, FiniteSets, SequencesExt

CONSTANTS
    Procs, Cpus,
    Nadie,            \* no process, no CPU (NULL)
    Hilos,            \* bound: execution threads alive at the same time
    Algoritmos,       \* values ALGORITMO_CORTO_PLAZO may have
    MaxEstimacion,    \* bound: estimates and measured bursts
    Programas,        \* any of several cases: the processes that there are, what each
                      \* does before its EXIT, how many times (bound), and its
                      \* estimate: ESTIMACION_INICIAL, or another when it ran before
    Tarde             \* whether CPUs may connect once processes ran

Estimaciones == 0 .. MaxEstimacion

\* proceso_ejecutando of a CPU that was never dispatched to: malloc'd, not set.
Basura == "sin inicializar"

ASSUME CortoPlazoAssumption ==
    /\ Nadie \notin Procs \cup Cpus
    /\ Basura \notin Procs
    /\ IsFiniteSet(Cpus) /\ IsFiniteSet(Procs) /\ IsFiniteSet(Hilos)
    /\ Algoritmos \subseteq {"SJF_SIN_DESALOJO", "SJF_CON_DESALOJO"}
    /\ MaxEstimacion \in Nat
    /\ \A prog \in Programas :
         /\ DOMAIN prog \subseteq Procs
         /\ \A p \in DOMAIN prog :
              prog[p] \in [hace : SUBSET {"NOOP", "INIT_PROC", "IO"}, veces : Nat, est : Estimaciones]
    /\ Tarde \in BOOLEAN

VARIABLES
    algoritmo,        \* ALGORITMO_CORTO_PLAZO
    ready, exec,      \* colaEstados[READY], colaEstados[EXEC] (its order is not looked at)
    fuera, salieron,  \* processes in the other queues; those that ended
    est,              \* proxima_estimacion
    enReady,          \* CANTIDAD_DE_PROCESOS_EN[READY]
    cpusLibres,       \* CPUS_LIBRES
    replanificar,     \* REPLANIFICAR
    plani,            \* the planner thread
    hilo,             \* the poner_a_ejecutar threads
    conectadas,       \* cpus_conectadas
    puedeUsarse, ejecutando,  \* fields of each instancia_de_cpu
    alKernel, aCpu,   \* the dispatch socket, one way and the other
    pedidas,          \* SOLICITO_DESALOJO on their way to each CPU
    cpu,              \* the CPUs: pc, process, and the three flags of the cycle
    programa,         \* the programs of this execution
    restan,           \* instructions each one has left before its EXIT
    caido             \* the Kernel dereferenced NULL or garbage and died

colas == <<ready, exec, fuera, salieron>>
sems == <<enReady, cpusLibres, replanificar>>
instancias == <<conectadas, puedeUsarse, ejecutando>>
sockets == <<alKernel, aCpu, pedidas>>

vars == <<algoritmo, colas, est, sems, plani, hilo, instancias, sockets, cpu, programa, restan, caido>>

ConDesalojo == algoritmo = "SJF_CON_DESALOJO"

HiloLibre == [pc |-> "libre", proc |-> Nadie, cpu |-> Nadie, motivo |-> "EXIT"]
Duerme == [pc |-> "duerme", cpu |-> Nadie, proc |-> Nadie, faltan |-> {},
           victima |-> Nadie, base |-> 0]

Veces == [p \in DOMAIN programa |-> programa[p].veces]

Init ==
    /\ algoritmo \in Algoritmos
    /\ programa \in Programas
    /\ ready = <<>> /\ exec = {} /\ fuera = DOMAIN programa /\ salieron = {}
    /\ est = [p \in DOMAIN programa |-> programa[p].est]
    /\ enReady = 0 /\ cpusLibres = 0 /\ replanificar = 0
    /\ plani = Duerme
    /\ hilo = [h \in Hilos |-> HiloLibre]
    /\ conectadas = {}
    /\ puedeUsarse = [c \in Cpus |-> FALSE]
    /\ ejecutando = [c \in Cpus |-> Basura]
    /\ alKernel = [c \in Cpus |-> <<>>] /\ aCpu = [c \in Cpus |-> <<>>]
    /\ pedidas = [c \in Cpus |-> 0]
    /\ cpu = [c \in Cpus |-> [pc |-> "solicita", proc |-> Nadie, hayInterrupcion |-> FALSE,
                              bloqueante |-> FALSE, solicitar |-> TRUE]]
    /\ restan = Veces
    /\ caido = FALSE

\* The Kernel is alive, and this step does not kill it.
Sigue == ~caido /\ caido' = FALSE

-----------------------------------------------------------------------------
(* READY, sorted by estimate.                                              *)

\* Mutant: the list is not sorted.
AlFinal(p, e) == {Append(ready, p)}

\* list_add_sorted stops before the first one that is not smaller (or, among equals,
\* later): READY is walked from its head, whether it is sorted or not.
Ordenadas(p, e) ==
    {InsertAt(ready, i, p) : i \in {i \in 1 .. Len(ready) + 1 :
        /\ \A j \in 1 .. i - 1 : est[ready[j]] <= e
        /\ i <= Len(ready) => e <= est[ready[i]]}}

\* Mutant: nobody is told to plan again.
TransicionarSinAvisar(p) ==
    /\ Sigue
    /\ p \in fuera
    /\ fuera' = fuera \ {p}
    /\ ready' \in Ordenadas(p, est[p])
    /\ enReady' = enReady + 1
    /\ UNCHANGED <<algoritmo, programa, exec, salieron, est, cpusLibres, replanificar, plani, hilo,
                   instancias, sockets, cpu, restan>>

\* transicionar_a_ready, called by the thread that has the process.
TransicionarAReady(p) ==
    /\ Sigue
    /\ p \in fuera
    /\ fuera' = fuera \ {p}
    /\ ready' \in Ordenadas(p, est[p])
    /\ replanificar' = IF ConDesalojo THEN replanificar + 1 ELSE replanificar
    /\ enReady' = enReady + 1
    /\ UNCHANGED <<algoritmo, programa, exec, salieron, est, cpusLibres, plani, hilo, instancias, sockets, cpu, restan>>

-----------------------------------------------------------------------------
(* CPUs connect.                                                           *)

NadieEjecuto ==
    plani.pc = "duerme" /\ exec = {} /\ salieron = {} /\ restan = Veces

\* mx_usar_recurso[REC_CPU] is held while the planner walks the list.
ConectarCpu(c) ==
    /\ Sigue
    /\ c \notin conectadas
    /\ plani.pc \notin {"frena", "resta", "escribe", "recorre", "reanuda"}
    /\ Tarde \/ NadieEjecuto
    /\ conectadas' = conectadas \cup {c}
    /\ puedeUsarse' = [puedeUsarse EXCEPT ![c] = TRUE]
    /\ cpusLibres' = cpusLibres + 1
    /\ UNCHANGED <<algoritmo, programa, colas, est, enReady, replanificar, plani, hilo,
                   ejecutando, sockets, cpu, restan>>

-----------------------------------------------------------------------------
(* The planner.                                                            *)

EsperarSemaforos ==
    /\ enReady > 0 /\ enReady' = enReady - 1
    /\ cpusLibres > 0 /\ cpusLibres' = cpusLibres - 1
    /\ IF ConDesalojo THEN replanificar > 0 /\ replanificar' = replanificar - 1
                      ELSE UNCHANGED replanificar

CpusUsables == {c \in conectadas : puedeUsarse[c]}

\* Mutant: the CPU is not marked.
BuscarCpuSinMarcar(c) == c \in CpusUsables /\ UNCHANGED puedeUsarse

\* buscar_cpu_libre.  The list is sorted now and then: any of the free ones.
BuscarCpuLibre(c) == c \in CpusUsables /\ puedeUsarse' = [puedeUsarse EXCEPT ![c] = FALSE]

PlaniDespierta ==
    /\ ~caido
    /\ plani.pc = "duerme"
    /\ EsperarSemaforos
    /\ \/ /\ \E c \in Cpus : BuscarCpuLibre(c) /\ plani' = [Duerme EXCEPT !.pc = "despacha", !.cpu = c]
          /\ caido' = FALSE
       \/ /\ CpusUsables = {}
          /\ plani' = [Duerme EXCEPT !.pc = "copia"]
          /\ caido' = ~ConDesalojo      \* list_get(-1) is NULL
          /\ UNCHANGED puedeUsarse
    /\ UNCHANGED <<algoritmo, programa, colas, est, hilo, conectadas, ejecutando, sockets, cpu, restan>>

\* sacar_primero_de_la_lista, cambiarEstado, crear_hilo_de_ejecucion.
PlaniDespacha(h) ==
    /\ Sigue
    /\ plani.pc = "despacha"
    /\ hilo[h] = HiloLibre /\ \A g \in Hilos : hilo[g] = HiloLibre => h <= g
    /\ hilo' = [hilo EXCEPT ![h] = [HiloLibre EXCEPT !.pc = "asigna", !.proc = Head(ready), !.cpu = plani.cpu]]
    /\ exec' = exec \cup {Head(ready)}
    /\ ready' = Tail(ready)
    /\ plani' = Duerme
    /\ cpusLibres' = IF ConDesalojo THEN cpusLibres + 1 ELSE cpusLibres
    /\ UNCHANGED <<algoritmo, programa, fuera, salieron, est, enReady, replanificar,
                   instancias, sockets, cpu, restan>>

\* No CPU is free: the first of READY against those that run.
PlaniCopia ==
    /\ Sigue
    /\ plani.pc = "copia"
    /\ plani' = [plani EXCEPT !.pc = "frena", !.proc = Head(ready), !.faltan = conectadas]
    /\ UNCHANGED <<algoritmo, programa, colas, est, sems, hilo, instancias, sockets, cpu, restan>>

Suelta == [plani EXCEPT !.cpu = Nadie, !.victima = Nadie, !.base = 0]

\* Mutant: CPUs that did not connect are walked too.
RecorridaTodas(c, lazo, luego) ==
    IF plani.faltan = {c} THEN [Suelta EXCEPT !.pc = luego, !.faltan = Cpus]
                          ELSE [Suelta EXCEPT !.pc = lazo, !.faltan = @ \ {c}]

\* The loop over cpus_conectadas is done with c: what follows.
Recorrida(c, lazo, luego) ==
    IF plani.faltan = {c} THEN [Suelta EXCEPT !.pc = luego, !.faltan = conectadas]
                          ELSE [Suelta EXCEPT !.pc = lazo, !.faltan = @ \ {c}]

Valida(c) == ejecutando[c] \in Procs

\* frenar_y_restar_cronometros looks whether the CPU has a process ...
FrenaMira(c) ==
    /\ Sigue
    /\ plani.pc = "frena" /\ c \in plani.faltan
    /\ plani' = IF ejecutando[c] = Nadie THEN Recorrida(c, "frena", "recorre")
                                         ELSE [plani EXCEPT !.pc = "resta", !.cpu = c]
    /\ UNCHANGED <<algoritmo, programa, colas, est, sems, hilo, instancias, sockets, cpu, restan>>

\* ... takes that process to subtract what it ran: the pointer and the estimate are
\* loaded, and no mutex keeps its thread from freeing the CPU meanwhile ...
FrenaCarga ==
    /\ ~caido
    /\ plani.pc = "resta"
    /\ caido' = ~Valida(plani.cpu)
    /\ plani' = IF Valida(plani.cpu)
                THEN [plani EXCEPT !.pc = "escribe", !.victima = ejecutando[plani.cpu],
                                   !.base = est[ejecutando[plani.cpu]]]
                ELSE plani
    /\ UNCHANGED <<algoritmo, programa, colas, est, sems, hilo, instancias, sockets, cpu, restan>>

Mayor(a, b) == IF a >= b THEN a ELSE b

\* ... and stores the difference, taken from what was loaded or from what its thread
\* wrote since.  If the process left EXEC, its chronometer or its pcb may be gone.
FrenaEscribe ==
    /\ ~caido
    /\ plani.pc = "escribe"
    /\ caido' \in {FALSE, plani.victima \notin exec}
    /\ \E e \in 0 .. Mayor(plani.base, est[plani.victima]) : est' = [est EXCEPT ![plani.victima] = e]
    /\ plani' = Recorrida(plani.cpu, "frena", "recorre")
    /\ UNCHANGED <<algoritmo, programa, colas, sems, hilo, instancias, sockets, cpu, restan>>

\* recorrer_lista_de_cpus_y_ver_si_corresponde_desalojar
Recorre(c) ==
    /\ ~caido
    /\ plani.pc = "recorre" /\ c \in plani.faltan
    /\ caido' = ~Valida(c)
    /\ plani' = IF Valida(c) /\ est[ejecutando[c]] > est[plani.proc]
                THEN [plani EXCEPT !.pc = "elige"]
                ELSE Recorrida(c, "recorre", "reanuda")
    /\ UNCHANGED <<algoritmo, programa, colas, est, sems, hilo, instancias, sockets, cpu, restan>>

\* buscar_cpu_con_proceso_con_mayor_estimacion sorts the list, which reads the
\* process of every CPU when there are two, and takes the last one.
CompararSirve == Cardinality(conectadas) = 1 \/ \A c \in conectadas : Valida(c)

Mayores ==
    IF Cardinality(conectadas) = 1 THEN conectadas
    ELSE {c \in conectadas : \A d \in conectadas : est[ejecutando[d]] <= est[ejecutando[c]]}

\* That CPU is sent SOLICITO_DESALOJO.
Elige ==
    /\ ~caido
    /\ plani.pc = "elige"
    /\ caido' = ~CompararSirve
    /\ IF CompararSirve THEN \E c \in Mayores : pedidas' = [pedidas EXCEPT ![c] = @ + 1]
                        ELSE UNCHANGED pedidas
    /\ plani' = [plani EXCEPT !.pc = "reanuda", !.faltan = conectadas]
    /\ UNCHANGED <<algoritmo, programa, colas, est, sems, hilo, instancias, alKernel, aCpu, cpu, restan>>

\* Mutant: the token of the process that stays in READY is not given back.
ReanudaSinContar(c) ==
    /\ ~caido
    /\ plani.pc = "reanuda" /\ c \in plani.faltan
    /\ caido' = ~Valida(c)
    /\ IF plani.faltan = {c} /\ Valida(c)
       THEN plani' = Duerme /\ cpusLibres' = cpusLibres + 1
       ELSE plani' = Recorrida(c, "reanuda", "reanuda") /\ UNCHANGED cpusLibres
    /\ UNCHANGED <<algoritmo, programa, colas, est, enReady, replanificar, hilo,
                   instancias, sockets, cpu, restan>>

\* reanudar_cronometros; the process looked at stays in READY.
Reanuda(c) ==
    /\ ~caido
    /\ plani.pc = "reanuda" /\ c \in plani.faltan
    /\ caido' = ~Valida(c)
    /\ IF plani.faltan = {c} /\ Valida(c)
       THEN plani' = Duerme /\ enReady' = enReady + 1 /\ cpusLibres' = cpusLibres + 1
       ELSE plani' = Recorrida(c, "reanuda", "reanuda") /\ UNCHANGED <<enReady, cpusLibres>>
    /\ UNCHANGED <<algoritmo, programa, colas, est, replanificar, hilo,
                   instancias, sockets, cpu, restan>>

-----------------------------------------------------------------------------
(* poner_a_ejecutar.                                                       *)

En(h, pc) == hilo[h].pc = pc
Pasa(h, pc) == hilo' = [hilo EXCEPT ![h].pc = pc]

Mensaje(op, p) == [op |-> op, proc |-> p]
EnviarACpu(c, op, p) == aCpu' = [aCpu EXCEPT ![c] = Append(@, Mensaje(op, p))]

HiloAsigna(h) ==
    /\ Sigue
    /\ En(h, "asigna")
    /\ ejecutando' = [ejecutando EXCEPT ![hilo[h].cpu] = hilo[h].proc]
    /\ Pasa(h, "espera")
    /\ UNCHANGED <<algoritmo, programa, colas, est, sems, plani, conectadas, puedeUsarse, sockets, cpu, restan>>

\* A word from the CPU, whatever it is, and the process is sent.  If it was not
\* CPU_LISTA but the beginning of a package, they are out of step from here on.
HiloEspera(h) ==
    LET c == hilo[h].cpu IN
    /\ Sigue
    /\ En(h, "espera")
    /\ alKernel[c] # <<>>
    /\ Pasa(h, IF Head(alKernel[c]).op = "CPU_LISTA" THEN "atiende" ELSE "desfasado")
    /\ alKernel' = [alKernel EXCEPT ![c] = Tail(@)]
    /\ EnviarACpu(c, "ENVIO_PID_Y_PC", hilo[h].proc)
    /\ UNCHANGED <<algoritmo, programa, colas, est, sems, plani, instancias, pedidas, cpu, restan>>

\* Why the process comes back.
HiloAtiende(h) ==
    LET c == hilo[h].cpu
        motivo == Head(alKernel[c]).op IN
    /\ Sigue
    /\ En(h, "atiende")
    /\ alKernel[c] # <<>>
    /\ alKernel' = [alKernel EXCEPT ![c] = Tail(@)]
    /\ IF motivo = "INIT_PROC"
       THEN Pasa(h, "espera") /\ EnviarACpu(c, "SYSCALL_EJECUTADA", Nadie)
       ELSE hilo' = [hilo EXCEPT ![h].pc = "libera", ![h].motivo = motivo] /\ UNCHANGED aCpu
    /\ IF motivo = "EXIT"
       THEN exec' = exec \ {hilo[h].proc} /\ salieron' = salieron \cup {hilo[h].proc}
       ELSE UNCHANGED <<exec, salieron>>
    /\ UNCHANGED <<algoritmo, programa, ready, fuera, est, sems, plani, instancias, pedidas, cpu, restan>>

\* liberar_cpu: no mutex between one statement and the next.
HiloLibera(h) ==
    /\ Sigue
    /\ En(h, "libera")
    /\ puedeUsarse' = [puedeUsarse EXCEPT ![hilo[h].cpu] = TRUE]
    /\ Pasa(h, "borra")
    /\ UNCHANGED <<algoritmo, programa, colas, est, sems, plani, conectadas, ejecutando, sockets, cpu, restan>>

\* Mutant: with preemption nobody is told.
HiloAvisaSoloLibres(h) ==
    /\ Sigue
    /\ En(h, "borra")
    /\ ejecutando' = [ejecutando EXCEPT ![hilo[h].cpu] = Nadie]
    /\ cpusLibres' = IF ConDesalojo THEN cpusLibres ELSE cpusLibres + 1
    /\ Pasa(h, "sale")
    /\ UNCHANGED <<algoritmo, programa, colas, est, enReady, replanificar, plani, conectadas, puedeUsarse,
                   sockets, cpu, restan>>

HiloBorra(h) ==
    /\ Sigue
    /\ En(h, "borra")
    /\ ejecutando' = [ejecutando EXCEPT ![hilo[h].cpu] = Nadie]
    /\ IF ConDesalojo THEN replanificar' = replanificar + 1 /\ UNCHANGED cpusLibres
                      ELSE cpusLibres' = cpusLibres + 1 /\ UNCHANGED replanificar
    /\ Pasa(h, "sale")
    /\ UNCHANGED <<algoritmo, programa, colas, est, enReady, plani, conectadas, puedeUsarse, sockets, cpu, restan>>

\* calcular_proxima_estimacion, out of what the burst took and the last estimate:
\* both are within the bound, and so is their weighted mean.
ProximaEstimacion == Estimaciones

\* After an EXIT, the CPU is answered.
SaleExit(h) ==
    /\ Sigue
    /\ En(h, "sale") /\ hilo[h].motivo = "EXIT"
    /\ EnviarACpu(hilo[h].cpu, "SYSCALL_EJECUTADA", Nadie)
    /\ hilo' = [hilo EXCEPT ![h] = HiloLibre]
    /\ UNCHANGED <<algoritmo, programa, colas, est, sems, plani, instancias, alKernel, pedidas, cpu, restan>>

\* After an IO, the process blocks with a new estimate, or ends when there is no
\* such device.
SaleIo(h) ==
    /\ Sigue
    /\ En(h, "sale") /\ hilo[h].motivo = "IO"
    /\ exec' = exec \ {hilo[h].proc}
    /\ \/ /\ fuera' = fuera \cup {hilo[h].proc}
          /\ \E e \in ProximaEstimacion : est' = [est EXCEPT ![hilo[h].proc] = e]
          /\ UNCHANGED salieron
       \/ salieron' = salieron \cup {hilo[h].proc} /\ UNCHANGED <<fuera, est>>
    /\ hilo' = [hilo EXCEPT ![h] = HiloLibre]
    /\ UNCHANGED <<algoritmo, programa, ready, sems, plani, instancias, sockets, cpu, restan>>

\* calcular_proxima_estimacion and desalojar_proceso_de_cpu: back to READY, which
\* is counted, and nobody is told to plan again; the CPU is answered.
SaleDesalojo(h) ==
    /\ Sigue
    /\ En(h, "sale") /\ hilo[h].motivo = "DESALOJO_ACEPTADO"
    /\ exec' = exec \ {hilo[h].proc}
    /\ \E e \in ProximaEstimacion :
         /\ est' = [est EXCEPT ![hilo[h].proc] = e]
         /\ ready' \in Ordenadas(hilo[h].proc, e)
    /\ enReady' = enReady + 1
    /\ EnviarACpu(hilo[h].cpu, "DESALOJO_REALIZADO", Nadie)
    /\ hilo' = [hilo EXCEPT ![h] = HiloLibre]
    /\ UNCHANGED <<algoritmo, programa, fuera, salieron, cpusLibres, replanificar, plani, instancias,
                   alKernel, pedidas, cpu, restan>>

-----------------------------------------------------------------------------
(* The CPUs.                                                               *)

kernelVars == <<algoritmo, programa, colas, est, sems, plani, hilo, instancias>>

EnviarAlKernel(c, op) == alKernel' = [alKernel EXCEPT ![c] = Append(@, Mensaje(op, cpu[c].proc))]
QuitarDeCpu(c) == aCpu[c] # <<>> /\ aCpu' = [aCpu EXCEPT ![c] = Tail(@)]

\* Where the loop goes after an instruction.
Vuelta(b) == IF b THEN "solicita" ELSE "ejecuta"

\* obtenerDelKernelPcPid
CpuSolicita(c) ==
    /\ Sigue
    /\ c \in conectadas
    /\ cpu[c].pc = "solicita"
    /\ EnviarAlKernel(c, "CPU_LISTA")
    /\ cpu' = [cpu EXCEPT ![c].pc = "esperaProceso", ![c].solicitar = FALSE]
    /\ UNCHANGED <<kernelVars, aCpu, pedidas, restan>>

CpuRecibeProceso(c) ==
    /\ Sigue
    /\ cpu[c].pc = "esperaProceso"
    /\ QuitarDeCpu(c)
    /\ cpu' = [cpu EXCEPT ![c].pc = IF Head(aCpu[c]).op = "ENVIO_PID_Y_PC" THEN "ejecuta" ELSE "desfasada",
                          ![c].proc = Head(aCpu[c]).proc]
    /\ UNCHANGED <<kernelVars, alKernel, pedidas, restan>>

\* An instruction that is no syscall.
CpuNoop(c) ==
    /\ Sigue
    /\ cpu[c].pc = "ejecuta" /\ "NOOP" \in programa[cpu[c].proc].hace
    /\ restan[cpu[c].proc] > 0
    /\ restan' = [restan EXCEPT ![cpu[c].proc] = @ - 1]
    /\ cpu' = [cpu EXCEPT ![c].pc = "chequea"]
    /\ UNCHANGED <<kernelVars, sockets>>

\* mandar_syscall.  After an IO the CPU waits for nothing.
CpuSyscall(c, op) ==
    /\ Sigue
    /\ cpu[c].pc = "ejecuta"
    /\ IF op = "EXIT" THEN restan[cpu[c].proc] = 0 /\ UNCHANGED restan
       ELSE /\ op \in programa[cpu[c].proc].hace
            /\ restan[cpu[c].proc] > 0
            /\ restan' = [restan EXCEPT ![cpu[c].proc] = @ - 1]
    /\ EnviarAlKernel(c, op)
    /\ cpu' = [cpu EXCEPT ![c].pc = IF op = "IO" THEN "chequea" ELSE "esperaSyscall",
                          ![c].solicitar = TRUE, ![c].bloqueante = @ \/ op # "INIT_PROC"]
    /\ UNCHANGED <<kernelVars, aCpu, pedidas>>

CpuRecibeSyscall(c) ==
    /\ Sigue
    /\ cpu[c].pc = "esperaSyscall"
    /\ QuitarDeCpu(c)
    /\ cpu' = [cpu EXCEPT ![c].pc = IF Head(aCpu[c]).op = "SYSCALL_EJECUTADA" THEN "chequea" ELSE "desfasada"]
    /\ UNCHANGED <<kernelVars, alKernel, pedidas, restan>>

\* check_interrupt accepts the preemption ...
CpuAcepta(c) ==
    /\ Sigue
    /\ cpu[c].pc = "chequea" /\ cpu[c].hayInterrupcion /\ ~cpu[c].bloqueante
    /\ EnviarAlKernel(c, "DESALOJO_ACEPTADO")
    /\ cpu' = [cpu EXCEPT ![c].pc = "esperaDesalojo", ![c].solicitar = TRUE, ![c].hayInterrupcion = FALSE]
    /\ UNCHANGED <<kernelVars, aCpu, pedidas, restan>>

\* ... or goes on, and clears one of the two flags.
CpuSigue(c) ==
    /\ Sigue
    /\ cpu[c].pc = "chequea" /\ ~(cpu[c].hayInterrupcion /\ ~cpu[c].bloqueante)
    /\ cpu' = [cpu EXCEPT ![c].pc = Vuelta(cpu[c].solicitar), ![c].hayInterrupcion = FALSE,
                          ![c].bloqueante = @ /\ cpu[c].hayInterrupcion]
    /\ UNCHANGED <<kernelVars, sockets, restan>>

CpuRecibeDesalojo(c) ==
    /\ Sigue
    /\ cpu[c].pc = "esperaDesalojo"
    /\ QuitarDeCpu(c)
    /\ cpu' = [cpu EXCEPT ![c].pc = IF Head(aCpu[c]).op = "DESALOJO_REALIZADO" THEN "solicita" ELSE "desfasada"]
    /\ UNCHANGED <<kernelVars, alKernel, pedidas, restan>>

\* esperar_interrupcion, a thread of the CPU.
LlegaInterrupcion(c) ==
    /\ Sigue
    /\ pedidas[c] > 0
    /\ pedidas' = [pedidas EXCEPT ![c] = @ - 1]
    /\ cpu' = [cpu EXCEPT ![c].hayInterrupcion = TRUE]
    /\ UNCHANGED <<kernelVars, alKernel, aCpu, restan>>

-----------------------------------------------------------------------------

Planificador ==
    \/ PlaniDespierta \/ PlaniCopia \/ FrenaCarga \/ FrenaEscribe \/ Elige
    \/ \E h \in Hilos : PlaniDespacha(h)
    \/ \E c \in Cpus : FrenaMira(c) \/ Recorre(c) \/ Reanuda(c)

Hilo(h) ==
    \/ HiloAsigna(h) \/ HiloEspera(h) \/ HiloAtiende(h)
    \/ HiloLibera(h) \/ HiloBorra(h)
    \/ SaleExit(h) \/ SaleIo(h) \/ SaleDesalojo(h)

Ciclo(c) ==
    \/ CpuSolicita(c) \/ CpuRecibeProceso(c) \/ CpuNoop(c)
    \/ \E op \in {"INIT_PROC", "IO", "EXIT"} : CpuSyscall(c, op)
    \/ CpuRecibeSyscall(c) \/ CpuAcepta(c) \/ CpuSigue(c) \/ CpuRecibeDesalojo(c)

Next ==
    \/ \E p \in Procs : TransicionarAReady(p)
    \/ Planificador
    \/ \E h \in Hilos : Hilo(h)
    \/ \E c \in Cpus : ConectarCpu(c) \/ Ciclo(c) \/ LlegaInterrupcion(c)

Spec == Init /\ [][Next]_vars

\* Every thread of the Kernel and of the CPUs goes on while it can; bursts of IO
\* end; interrupts are delivered.
FairSpec ==
    /\ Spec
    /\ \A p \in Procs : WF_vars(TransicionarAReady(p))
    /\ WF_vars(Planificador)
    /\ \A h \in Hilos : WF_vars(Hilo(h))
    /\ \A c \in Cpus : WF_vars(ConectarCpu(c)) /\ WF_vars(Ciclo(c)) /\ WF_vars(LlegaInterrupcion(c))

-----------------------------------------------------------------------------
(* Properties.                                                             *)

HilosEn(pcs) == {h \in Hilos : hilo[h].pc \in pcs}

Desfase == HilosEn({"desfasado"}) # {} \/ \E c \in Cpus : cpu[c].pc = "desfasada"

\* Every variable has its type.
TypeOK ==
    /\ algoritmo \in Algoritmos
    /\ ready \in Seq(Procs) /\ exec \subseteq Procs /\ fuera \subseteq Procs /\ salieron \subseteq Procs
    /\ est \in [DOMAIN programa -> Estimaciones]
    /\ {enReady, cpusLibres, replanificar} \subseteq Nat
    /\ plani.pc \in {"duerme", "despacha", "copia", "frena", "resta", "escribe", "recorre", "elige", "reanuda"}
    /\ plani.cpu \in Cpus \cup {Nadie} /\ plani.proc \in Procs \cup {Nadie} /\ plani.faltan \subseteq conectadas
    /\ plani.victima \in Procs \cup {Nadie} /\ plani.base \in Estimaciones
    /\ \A h \in Hilos : hilo[h].proc \in Procs \cup {Nadie} /\ hilo[h].cpu \in Cpus \cup {Nadie}
    /\ conectadas \subseteq Cpus /\ puedeUsarse \in [Cpus -> BOOLEAN]
    /\ ejecutando \in [Cpus -> Procs \cup {Nadie, Basura}]
    /\ \A c \in Cpus : Len(alKernel[c]) <= 2 /\ Len(aCpu[c]) <= 2 /\ cpu[c].proc \in Procs \cup {Nadie}
    /\ caido \in BOOLEAN

\* A CPU has one thread at a time between the search that takes it and the
\* liberar_cpu that offers it again, a process runs on one CPU, and no CPU is
\* offered while it is taken.
SinCompartir ==
    LET ocupan == HilosEn({"asigna", "espera", "atiende", "libera"}) IN
    /\ \A g, h \in ocupan : g # h => hilo[g].cpu # hilo[h].cpu /\ hilo[g].proc # hilo[h].proc
    /\ \A h \in ocupan : ~puedeUsarse[hilo[h].cpu]
    /\ plani.pc = "despacha" => ~puedeUsarse[plani.cpu] /\ \A h \in ocupan : hilo[h].cpu # plani.cpu

\* Its first process is one of those with the least estimate.
ReadyOrdenada == \A i, j \in DOMAIN ready : i < j => est[ready[i]] <= est[ready[j]]

EnReady == {ready[i] : i \in DOMAIN ready}

\* A cut is stored on a process that was sorted into READY since it was loaded.
CorteTardio == FrenaEscribe /\ plani.victima \in EnReady

\* READY stays sorted although estimates come back changed, and processes are taken
\* off their CPUs, while the planner cuts: nothing but a late cut puts it out of order.
SoloUnCorteDesordena == [][ReadyOrdenada => ReadyOrdenada' \/ CorteTardio]_vars

\* CANTIDAD_DE_PROCESOS_EN[READY] counts READY, minus the process that the planner
\* deals with: it never takes one from an empty queue.
FichasDeReady ==
    ~caido => Len(ready) = enReady + (IF plani.pc = "duerme" THEN 0 ELSE 1)

Menor(a, b) == IF a <= b THEN a ELSE b

\* With preemption the planner sleeps on REPLANIFICAR too, and a process that is
\* taken off its CPU goes back to READY without a post of its own: there is still
\* one, posted or about to be, for each process that a free CPU could take.
ReplanificarAlcanza ==
    ConDesalojo /\ ~caido =>
        Menor(Len(ready) - (IF plani.pc = "despacha" THEN 1 ELSE 0), Cardinality(CpusUsables))
          <= replanificar + Cardinality(HilosEn({"borra"}))

\* Every process ends, unless the Kernel dies or falls out of step with a CPU: no
\* process waits in READY for a wakeup that does not come.
Terminan == <>(salieron = DOMAIN programa \/ caido \/ Desfase)

\* planificacion.c:408, "me voy fijando las cpus con sus respectivos procesos":
\* the CPUs that are not free all have a process.
ComparaConProcesos == ~caido

\* planificacion.c:661-663: what comes before the process is sent is the CPU that
\* is ready, and what comes after is why it returns.
EsperaCpuLista ==
    \A h \in HilosEn({"espera"}) :
        alKernel[hilo[h].cpu] # <<>> => Head(alKernel[hilo[h].cpu]).op = "CPU_LISTA"

=============================================================================
