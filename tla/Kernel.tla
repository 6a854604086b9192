------------------------------- MODULE Kernel -------------------------------
(***************************************************************************)
(* The Kernel's scheduler with ALGORITMO_INGRESO_A_READY = FIFO and         *)
(* ALGORITMO_CORTO_PLAZO = FIFO: the seven state queues, the counting       *)
(* semaphores, the four planner threads, one execution thread per           *)
(* dispatched process, one suspension timer per IO syscall and one thread   *)
(* per IO device.                                                           *)
(*                                                                         *)
(* One action is the stretch of a thread that contains one access to        *)
(* shared data: the sem_wait calls just before it (each planner semaphore   *)
(* has a single waiting thread), the critical section or the unprotected    *)
(* read, and the sem_post or send calls just after it.  Accesses that no    *)
(* other thread can tell apart are folded into their neighbour.             *)
(***************************************************************************)
EXTENDS Integers, FiniteSets, SequencesExt

CONSTANTS
    Procs,            \* pcbs that may be created; each has its own pid
    ProcesoInicial,   \* the process main() creates before the threads start
    Cpus, Ios,        \* CPU and IO instances that may connect
    Hilos,            \* bound: execution threads alive at the same time
    Nombres,          \* IO names the programs use
    NombreDe,         \* name each IO instance connects with
    Tam,              \* frames each process needs
    Marcos,           \* frames of the main memory
    MaxSyscalls,      \* bound: syscalls each program issues before its EXIT
    Syscalls,         \* syscalls the programs may issue besides EXIT
    Suspension,       \* how TIEMPO_SUSPENSION compares with the IO bursts
    Nadie             \* no process, no CPU (NULL)

Estados == {"NEW", "READY", "BLOCKED", "EXEC", "EXIT_ESTADO", "SUSP_READY", "SUSP_BLOCKED"}

\* CANTIDAD_DE_PROCESOS_EN[e] is the semaphore named e.
Semaforos == {"NEW", "READY", "SUSP_READY", "SUSP_BLOCKED", "INTENTAR_INICIAR_NEW",
              "INTENTAR_INICIAR_SUSP_READY", "SUSP_READY_SIN_PROCESOS", "CPUS_LIBRES"}

\* Values of nombre_io_que_lo_bloqueo that are not names: the "" that marks a
\* process a device already took, NULL, and the malloc'd garbage of a new pcb.
Vacio  == "vacio"
Nulo   == "NULL"
Basura == "sin inicializar"

\* Timers a process may have had.
Veces == UNION {1 .. MaxSyscalls[p] : p \in Procs}

ASSUME ConstantesAssumption ==
    /\ ProcesoInicial \in Procs
    /\ Nadie \notin Procs \cup Cpus \cup Ios
    /\ IsFiniteSet(Cpus)
    /\ NombreDe \in [Ios -> Nombres]
    /\ Nombres \cap {Vacio, Nulo, Basura} = {}
    /\ Tam \in [Procs -> Nat]
    /\ Marcos \in Nat
    /\ MaxSyscalls \in [Procs -> Nat]
    /\ Syscalls \subseteq {"INIT_PROC", "DUMP_MEMORY", "IO"}
    /\ Suspension \in {"separada", "libre"}

VARIABLES
    cola,             \* colaEstados
    sem,              \* value of each counting semaphore
    largo,            \* pc of planificador_largo_plazo_fifo
    medianoFifo,      \* pc and process of planificador_mediano_plazo_fifo
    mediano,          \* pc and process of planificador_mediano_plazo
    hilo,             \* the poner_a_ejecutar threads
    timer,            \* the funcion_para_bloqueados threads
    io,               \* the manejar_kernel_io / esperar_io_proceso threads
    ios,              \* ios_conectados, in order of connection
    semIo,            \* the hay_procesos_esperando semaphores
    cpu,              \* instancia_de_cpu.puede_usarse, and whether it connected
    vivo,             \* life of each pcb: malloc'd, in use, freed
    nombreIo,         \* nombre_io_que_lo_bloqueo
    veces,            \* cantidad_de_veces_que_estuvo_bloqueado_por_io
    flag,             \* debe_ser_suspendido
    restan,           \* syscalls the program may still issue before EXIT
    ubicacion,        \* where the memory module keeps the process
    libres,           \* free frames
    caido             \* the Kernel dereferenced NULL or garbage and died

planif  == <<largo, medianoFifo, mediano>>
disposi == <<io, ios, semIo>>
pcbs    == <<vivo, nombreIo, veces, flag, restan>>
memoria == <<ubicacion, libres>>
vars    == <<cola, sem, planif, hilo, timer, disposi, cpu, pcbs, memoria, caido>>

-----------------------------------------------------------------------------
(* Semaphores and queues.                                                  *)

Uno(b) == IF b THEN 1 ELSE 0

\* sem_wait on every semaphore of "esperas", sem_post on every one of "avisos".
Senales(esperas, avisos) ==
    /\ \A s \in esperas : sem[s] > 0
    /\ sem' = [s \in Semaforos |-> sem[s] - Uno(s \in esperas) + Uno(s \in avisos)]

\* buscar_en_lista: the first position of p, if any.
BuscarEnLista(s, p) == {i \in DOMAIN s : s[i] = p /\ \A j \in 1 .. i - 1 : s[j] # p}

\* Mutant: a process that is not in the list is taken for the first one.
QuitarPrimero(s, p) == IF s = <<>> THEN s
                       ELSE IF BuscarEnLista(s, p) = {} THEN Tail(s)
                       ELSE RemoveAt(s, CHOOSE i \in BuscarEnLista(s, p) : TRUE)

\* list_remove of that position; list_remove(-1) leaves the list alone.
Quitar(s, p) == IF BuscarEnLista(s, p) = {} THEN s
                ELSE RemoveAt(s, CHOOSE i \in BuscarEnLista(s, p) : TRUE)

\* sacar_proceso_de_cola_de_estado
Sacar(p, e) == [cola EXCEPT ![e] = Quitar(@, p)]

\* The same, followed by cambiarEstado(p, e, f).
Mover(p, e, f) == [cola EXCEPT ![e] = Quitar(@, p), ![f] = Append(@, p)]

\* Mutants: what sacar_primero_de_la_lista returned is lost; the process is
\* looked at and not taken out.
MoverPrimeroNulo(e, f) == [cola EXCEPT ![e] = Tail(@), ![f] = Append(@, Nadie)]
MoverPrimeroSinSacar(e, f) == [cola EXCEPT ![f] = Append(@, Head(cola[e]))]

\* sacar_primero_de_la_lista(e) followed by cambiarEstado(p, e, f).
MoverPrimero(e, f) == [cola EXCEPT ![e] = Tail(@), ![f] = Append(@, Head(cola[e]))]

Esta(p, e) == \E i \in DOMAIN cola[e] : cola[e][i] = p

\* Mutant: one frame too many.
CabeUnoDeMas(p) == Tam[p] <= libres + 1

Cabe(p) == Tam[p] <= libres

\* The Kernel is alive, and this step does not kill it.
Sigue == ~caido /\ caido' = FALSE

HiloLibre == [pc |-> "libre", proc |-> Nadie, cpu |-> Nadie, motivo |-> "EXIT"]
En(h, pc) == hilo[h].pc = pc
Pasa(h, pc) == hilo' = [hilo EXCEPT ![h].pc = pc]

-----------------------------------------------------------------------------
Init ==
    /\ cola = [e \in Estados |-> IF e = "NEW" THEN <<ProcesoInicial>> ELSE <<>>]
    /\ sem = [s \in Semaforos |->
                Uno(s \in {"NEW", "INTENTAR_INICIAR_NEW", "INTENTAR_INICIAR_SUSP_READY"})]
    /\ largo = "duerme"
    /\ medianoFifo = [pc |-> "duerme", proc |-> Nadie]
    /\ mediano = [pc |-> "duerme", proc |-> Nadie]
    /\ hilo = [h \in Hilos |-> HiloLibre]
    /\ timer = [p \in Procs |-> [k \in Veces |-> [pc |-> "no", inicial |-> 0]]]
    /\ io = [i \in Ios |-> [pc |-> "ausente", proc |-> Nadie, sem |-> i]]
    /\ ios = <<>>
    /\ semIo = [i \in Ios |-> 0]
    /\ cpu = [c \in Cpus |-> "ausente"]
    /\ vivo = [p \in Procs |-> IF p = ProcesoInicial THEN "vivo" ELSE "sin crear"]
    /\ nombreIo = [p \in Procs |-> Basura]
    /\ veces = [p \in Procs |-> 0]
    /\ flag = [p \in Procs |-> FALSE]
    /\ restan = MaxSyscalls
    /\ ubicacion = [p \in Procs |-> "fuera"]
    /\ libres = Marcos
    /\ caido = FALSE

-----------------------------------------------------------------------------
(* When timers and bursts end: the Kernel does not decide it.  "libre": they  *)
(* end in any order.  "separada": a burst may end before or after its timer,  *)
(* but not while the threads that the other one woke are still at work.  In   *)
(* both, a process may end and its pcb be freed while its timers sleep.       *)

Separada == Suspension = "separada"

TimersDe(p, pcs) == \E k \in Veces : timer[p][k].pc \in pcs

EnSuspension(p) == \/ TimersDe(p, {"nace", "compara", "visto", "sacado"})
                   \/ flag[p]
                   \/ mediano.proc = p

PuedeVencerTimer ==
    Separada => \A i \in Ios : io[i].pc \notin {"busca", "enBlocked", "enSusp", "aReady", "aSuspReady"}

PuedeTerminarRafaga(p) == Separada => ~EnSuspension(p)

PuedeBuscarDispositivo == Separada => \A p \in Procs : ~TimersDe(p, {"compara", "visto", "sacado"})

-----------------------------------------------------------------------------
(* planificador_largo_plazo_fifo                                           *)

LargoDespierta ==
    /\ Sigue
    /\ largo = "duerme"
    /\ Senales({"NEW", "INTENTAR_INICIAR_NEW"}, {})
    /\ largo' = IF cola["SUSP_READY"] # <<>> THEN "esperaVacia" ELSE "consulta"
    /\ UNCHANGED <<cola, medianoFifo, mediano, hilo, timer, disposi, cpu, pcbs, memoria>>

LargoEsperaVacia ==
    /\ Sigue
    /\ largo = "esperaVacia"
    /\ Senales({"SUSP_READY_SIN_PROCESOS"}, {})
    /\ largo' = "consulta"
    /\ UNCHANGED <<cola, medianoFifo, mediano, hilo, timer, disposi, cpu, pcbs, memoria>>

\* The memory module answers ACEPTAR_PROCESO and reserves the frames ...
LargoAceptado ==
    /\ Sigue
    /\ largo = "consulta"
    /\ Cabe(Head(cola["NEW"]))
    /\ ubicacion' = [ubicacion EXCEPT ![Head(cola["NEW"])] = "memoria"]
    /\ libres' = libres - Tam[Head(cola["NEW"])]
    /\ largo' = "admite"
    /\ UNCHANGED <<cola, sem, medianoFifo, mediano, hilo, timer, disposi, cpu, pcbs>>

\* ... or RECHAZO_PROCESO.
LargoRechazado ==
    /\ Sigue
    /\ largo = "consulta"
    /\ ~Cabe(Head(cola["NEW"]))
    /\ Senales({}, {"NEW"})
    /\ largo' = "duerme"
    /\ UNCHANGED <<cola, medianoFifo, mediano, hilo, timer, disposi, cpu, pcbs, memoria>>

LargoAdmite ==
    /\ Sigue
    /\ largo = "admite"
    /\ cola' = MoverPrimero("NEW", "READY")
    /\ Senales({}, {"READY", "INTENTAR_INICIAR_NEW"})
    /\ largo' = "duerme"
    /\ UNCHANGED <<medianoFifo, mediano, hilo, timer, disposi, cpu, pcbs, memoria>>

-----------------------------------------------------------------------------
(* planificador_mediano_plazo_fifo: brings suspended processes back.       *)

MedianoFifoDespierta ==
    /\ Sigue
    /\ medianoFifo.pc = "duerme"
    /\ Senales({"SUSP_READY", "INTENTAR_INICIAR_SUSP_READY"}, {})
    /\ medianoFifo' = [pc |-> "consulta", proc |-> Head(cola["SUSP_READY"])]
    /\ UNCHANGED <<cola, largo, mediano, hilo, timer, disposi, cpu, pcbs, memoria>>

\* desuspender_proceso finds the process in swap and room for it ...
MedianoFifoAceptado ==
    /\ Sigue
    /\ medianoFifo.pc = "consulta"
    /\ ubicacion[medianoFifo.proc] = "swap"
    /\ Cabe(medianoFifo.proc)
    /\ ubicacion' = [ubicacion EXCEPT ![medianoFifo.proc] = "memoria"]
    /\ libres' = libres - Tam[medianoFifo.proc]
    /\ medianoFifo' = [medianoFifo EXCEPT !.pc = "saca"]
    /\ UNCHANGED <<cola, sem, largo, mediano, hilo, timer, disposi, cpu, pcbs>>

\* ... or fails.
MedianoFifoRechazado ==
    /\ Sigue
    /\ medianoFifo.pc = "consulta"
    /\ ~(ubicacion[medianoFifo.proc] = "swap" /\ Cabe(medianoFifo.proc))
    /\ Senales({}, {"SUSP_READY"})
    /\ medianoFifo' = [pc |-> "duerme", proc |-> Nadie]
    /\ UNCHANGED <<cola, largo, mediano, hilo, timer, disposi, cpu, pcbs, memoria>>

MedianoFifoSaca ==
    /\ Sigue
    /\ medianoFifo.pc = "saca"
    /\ cola' = [cola EXCEPT !["SUSP_READY"] = Tail(@)]
    /\ medianoFifo' = [pc |-> "admite", proc |-> Head(cola["SUSP_READY"])]
    /\ UNCHANGED <<sem, largo, mediano, hilo, timer, disposi, cpu, pcbs, memoria>>

MedianoFifoAdmite ==
    /\ Sigue
    /\ medianoFifo.pc = "admite"
    /\ cola' = [cola EXCEPT !["READY"] = Append(@, medianoFifo.proc)]
    /\ Senales({}, {"READY", "INTENTAR_INICIAR_SUSP_READY"})
    /\ medianoFifo' = [pc |-> "avisa", proc |-> Nadie]
    /\ UNCHANGED <<largo, mediano, hilo, timer, disposi, cpu, pcbs, memoria>>

MedianoFifoAvisa ==
    /\ Sigue
    /\ medianoFifo.pc = "avisa"
    /\ Senales({}, IF cola["SUSP_READY"] = <<>> THEN {"SUSP_READY_SIN_PROCESOS"} ELSE {})
    /\ medianoFifo' = [pc |-> "duerme", proc |-> Nadie]
    /\ UNCHANGED <<cola, largo, mediano, hilo, timer, disposi, cpu, pcbs, memoria>>

-----------------------------------------------------------------------------
(* planificador_mediano_plazo: sends blocked processes to swap.            *)

\* buscar_proceso_a_suspender: the first flagged process of SUSP_BLOCKED.
PrimeroASuspender(p) ==
    \E i \in DOMAIN cola["SUSP_BLOCKED"] :
        /\ cola["SUSP_BLOCKED"][i] = p
        /\ flag[p]
        /\ \A j \in 1 .. i - 1 : ~flag[cola["SUSP_BLOCKED"][j]]

MedianoDespierta ==
    /\ Sigue
    /\ mediano.pc = "duerme"
    /\ Senales({"SUSP_BLOCKED"}, {})
    /\ \/ \E p \in Procs :
            /\ PrimeroASuspender(p)
            /\ flag' = [flag EXCEPT ![p] = FALSE]
            /\ mediano' = [pc |-> "envia", proc |-> p]
       \/ /\ \A p \in Procs : ~PrimeroASuspender(p)
          /\ UNCHANGED <<flag, mediano>>
    /\ UNCHANGED <<cola, largo, medianoFifo, hilo, timer, disposi, cpu,
                   vivo, nombreIo, veces, restan, memoria>>

\* suspender_proceso finds pages of p in main memory.
VaASwap(p) == ubicacion[p] = "memoria" /\ Tam[p] > 0

\* The memory module confirms whether or not suspender_proceso worked.
MedianoEnvia ==
    /\ Sigue
    /\ mediano.pc = "envia"
    /\ IF VaASwap(mediano.proc)
       THEN /\ ubicacion' = [ubicacion EXCEPT ![mediano.proc] = "swap"]
            /\ libres' = libres + Tam[mediano.proc]
       ELSE UNCHANGED memoria
    /\ mediano' = [mediano EXCEPT !.pc = "intenta"]
    /\ UNCHANGED <<cola, sem, largo, medianoFifo, hilo, timer, disposi, cpu, pcbs>>

\* Mutant: the long term planner is never told.
IntentarSoloSuspReady == Senales({}, {"INTENTAR_INICIAR_SUSP_READY"})

\* intentar_iniciar: wakes the planner that may use the memory just freed.
IntentarIniciar ==
    Senales({}, IF cola["SUSP_READY"] # <<>>
                THEN {"INTENTAR_INICIAR_SUSP_READY"} ELSE {"INTENTAR_INICIAR_NEW"})

MedianoIntenta ==
    /\ Sigue
    /\ mediano.pc = "intenta"
    /\ IntentarIniciar
    /\ mediano' = [pc |-> "duerme", proc |-> Nadie]
    /\ UNCHANGED <<cola, largo, medianoFifo, hilo, timer, disposi, cpu, pcbs, memoria>>

-----------------------------------------------------------------------------
(* Connections: manejar_kernel_dispatch, manejar_kernel_io.                *)

ConectarCpu(c) ==
    /\ Sigue
    /\ cpu[c] = "ausente"
    /\ cpu' = [cpu EXCEPT ![c] = "libre"]
    /\ Senales({}, {"CPUS_LIBRES"})
    /\ UNCHANGED <<cola, planif, hilo, timer, disposi, pcbs, memoria>>

\* buscar_IO_solicitada: the first connected instance with that name.
EsIoDe(i, n) ==
    \E k \in DOMAIN ios : /\ ios[k] = i
                          /\ NombreDe[i] = n
                          /\ \A j \in 1 .. k - 1 : NombreDe[ios[j]] # n

HayIo(n) == \E i \in Ios : EsIoDe(i, n)

\* A new instance shares the semaphore of a connected one with its name ...
ConectarIo(i) ==
    /\ Sigue
    /\ io[i].pc = "ausente"
    /\ \/ \E j \in Ios : /\ EsIoDe(j, NombreDe[i])
                         /\ io' = [io EXCEPT ![i].pc = "registra", ![i].sem = io[j].sem]
       \/ /\ ~HayIo(NombreDe[i])
          /\ io' = [io EXCEPT ![i].pc = "registra"]
    /\ UNCHANGED <<cola, sem, planif, hilo, timer, ios, semIo, cpu, pcbs, memoria>>

\* ... and enters the list in a later critical section.
RegistrarIo(i) ==
    /\ Sigue
    /\ io[i].pc = "registra"
    /\ io' = [io EXCEPT ![i].pc = "espera"]
    /\ ios' = Append(ios, i)
    /\ UNCHANGED <<cola, sem, planif, hilo, timer, semIo, cpu, pcbs, memoria>>

-----------------------------------------------------------------------------
(* planificador_corto_plazo_fifo and poner_a_ejecutar.                     *)

\* The planner takes a free CPU and the first READY process, and starts a
\* thread.  Which of several free CPUs it takes is left open.
Despachar(c) ==
    /\ Sigue
    /\ Senales({"READY", "CPUS_LIBRES"}, {})
    /\ cpu[c] = "libre"
    /\ \E h \in Hilos : En(h, "libre")
    /\ cpu' = [cpu EXCEPT ![c] = "ocupada"]
    /\ cola' = MoverPrimero("READY", "EXEC")
    /\ hilo' = [hilo EXCEPT ![CHOOSE h \in Hilos : En(h, "libre")] =
                  [pc |-> "ejecuta", proc |-> Head(cola["READY"]), cpu |-> c, motivo |-> "EXIT"]]
    /\ UNCHANGED <<planif, timer, disposi, pcbs, memoria>>

\* The CPU of thread h may report a syscall: it runs h's process and is not
\* waiting for the SYSCALL_EJECUTADA of a DUMP_MEMORY some thread still owes it.
EsperaRespuesta(c) ==
    \E h \in Hilos : /\ hilo[h].cpu = c
                     /\ hilo[h].motivo = "DUMP_MEMORY"
                     /\ hilo[h].pc \in {"dumpEspera", "dumpListo", "intenta", "termina"}

Llega(h, s) ==
    /\ En(h, "ejecuta")
    /\ ~EsperaRespuesta(hilo[h].cpu)
    /\ s = "EXIT" \/ (s \in Syscalls /\ restan[hilo[h].proc] > 0)

Gasta(h) == restan' = [restan EXCEPT ![hilo[h].proc] = @ - 1]

\* crear_proceso: the parent goes on running.
SyscallInitProc(h, q) ==
    /\ Sigue
    /\ Llega(h, "INIT_PROC")
    /\ vivo[q] = "sin crear"
    /\ vivo' = [vivo EXCEPT ![q] = "vivo"]
    /\ cola' = [cola EXCEPT !["NEW"] = Append(@, q)]
    /\ Senales({}, {"NEW"})
    /\ Gasta(h)
    /\ UNCHANGED <<planif, hilo, timer, disposi, cpu, nombreIo, veces, flag, memoria>>

\* finalizar_proceso(p, e), up to the memory module's confirmation.  A process
\* whose pages are in swap is not found there and its swap is not released.
Finalizar(h, e, m) ==
    LET p == hilo[h].proc IN
    /\ cola' = Mover(p, e, "EXIT_ESTADO")
    /\ IF ubicacion[p] = "memoria"
       THEN /\ ubicacion' = [ubicacion EXCEPT ![p] = "fuera"]
            /\ libres' = libres + Tam[p]
       ELSE UNCHANGED memoria
    /\ hilo' = [hilo EXCEPT ![h].pc = "intenta", ![h].motivo = m]

SyscallExit(h) ==
    /\ Sigue
    /\ Llega(h, "EXIT")
    /\ Finalizar(h, "EXEC", "EXIT")
    /\ UNCHANGED <<sem, planif, timer, disposi, cpu, pcbs>>

FinalizarIntenta(h) ==
    /\ Sigue
    /\ En(h, "intenta")
    /\ IntentarIniciar
    /\ Pasa(h, "termina")
    /\ UNCHANGED <<cola, planif, timer, disposi, cpu, pcbs, memoria>>

\* Mutant: the CPU is marked free and CPUS_LIBRES is not posted.
LiberarCpuSinPost(h) == cpu' = [cpu EXCEPT ![hilo[h].cpu] = "libre"] /\ UNCHANGED sem

LiberarCpu(h) ==
    /\ cpu' = [cpu EXCEPT ![hilo[h].cpu] = "libre"]
    /\ Senales({}, {"CPUS_LIBRES"})

\* Mutant: every process that ends releases a CPU, whatever it ended for.
LiberaSiempre(h) == TRUE

\* Only an EXIT still holds its CPU: an IO and a DUMP_MEMORY released theirs.
LiberaAlTerminar(h) == hilo[h].motivo = "EXIT"

\* The pcb is freed (a second free aborts).
FinalizarTermina(h) ==
    /\ ~caido
    /\ En(h, "termina")
    /\ cola' = Sacar(hilo[h].proc, "EXIT_ESTADO")
    /\ vivo' = [vivo EXCEPT ![hilo[h].proc] = "liberado"]
    /\ IF LiberaAlTerminar(h) THEN LiberarCpu(h) ELSE UNCHANGED <<cpu, sem>>
    /\ hilo' = [hilo EXCEPT ![h] = HiloLibre]
    /\ caido' = (vivo[hilo[h].proc] = "liberado")
    /\ UNCHANGED <<planif, timer, disposi, nombreIo, veces, flag, restan, memoria>>

\* DUMP_MEMORY: the process waits in BLOCKED for the memory module.
SyscallDump(h) ==
    /\ Sigue
    /\ Llega(h, "DUMP_MEMORY")
    /\ cola' = Mover(hilo[h].proc, "EXEC", "BLOCKED")
    /\ hilo' = [hilo EXCEPT ![h].pc = "dump", ![h].motivo = "DUMP_MEMORY"]
    /\ Gasta(h)
    /\ UNCHANGED <<sem, planif, timer, disposi, cpu, vivo, nombreIo, veces, flag, memoria>>

DumpLiberaCpu(h) ==
    /\ Sigue
    /\ En(h, "dump")
    /\ LiberarCpu(h)
    /\ Pasa(h, "dumpEspera")
    /\ UNCHANGED <<cola, planif, timer, disposi, pcbs, memoria>>

\* DUMP_ACEPTADO needs the process in main memory.
DumpAceptado(h) ==
    /\ Sigue
    /\ En(h, "dumpEspera")
    /\ ubicacion[hilo[h].proc] = "memoria" /\ Tam[hilo[h].proc] > 0
    /\ cola' = Sacar(hilo[h].proc, "BLOCKED")
    /\ Pasa(h, "dumpListo")
    /\ UNCHANGED <<sem, planif, timer, disposi, cpu, pcbs, memoria>>

DumpAReady(h) ==
    /\ Sigue
    /\ En(h, "dumpListo")
    /\ cola' = [cola EXCEPT !["READY"] = Append(@, hilo[h].proc)]
    /\ Senales({}, {"READY"})
    /\ hilo' = [hilo EXCEPT ![h] = HiloLibre]
    /\ UNCHANGED <<planif, timer, disposi, cpu, pcbs, memoria>>

\* The dump file may also fail to be written.
DumpRechazado(h) ==
    /\ Sigue
    /\ En(h, "dumpEspera")
    /\ Finalizar(h, "BLOCKED", "DUMP_MEMORY")
    /\ UNCHANGED <<sem, planif, timer, disposi, cpu, pcbs>>

\* IO: the CPU is released before anything else.
SyscallIo(h) ==
    /\ Sigue
    /\ Llega(h, "IO")
    /\ LiberarCpu(h)
    /\ hilo' = [hilo EXCEPT ![h].pc = "ioLiberada", ![h].motivo = "IO"]
    /\ Gasta(h)
    /\ UNCHANGED <<cola, planif, timer, disposi, vivo, nombreIo, veces, flag, memoria>>

\* What the pcb remembers of the IO it is blocked by.
AnotarIo(p, n) ==
    /\ veces' = [veces EXCEPT ![p] = @ + 1]
    /\ nombreIo' = [nombreIo EXCEPT ![p] = n]

IoBuscaDispositivo(h, n) ==
    /\ Sigue
    /\ En(h, "ioLiberada")
    /\ PuedeTerminarRafaga(hilo[h].proc)
    /\ AnotarIo(hilo[h].proc, n)
    /\ Pasa(h, IF HayIo(n) THEN "ioBloquea" ELSE "ioFinaliza")
    /\ UNCHANGED <<cola, sem, planif, timer, disposi, cpu, vivo, flag, restan, memoria>>

IoFinaliza(h) ==
    /\ Sigue
    /\ En(h, "ioFinaliza")
    /\ Finalizar(h, "EXEC", "IO")
    /\ UNCHANGED <<sem, planif, timer, disposi, cpu, pcbs>>

\* The process enters BLOCKED, its suspension timer starts and the first
\* device with the name is told.
IoBloquea(h) ==
    LET p == hilo[h].proc IN
    /\ Sigue
    /\ En(h, "ioBloquea")
    /\ cola' = Mover(p, "EXEC", "BLOCKED")
    /\ timer' = [timer EXCEPT ![p][CHOOSE k \in Veces : timer[p][k].pc = "no"].pc = "nace"]
    /\ \E i \in Ios : /\ EsIoDe(i, nombreIo[p])
                      /\ semIo' = [semIo EXCEPT ![io[i].sem] = @ + 1]
    /\ hilo' = [hilo EXCEPT ![h] = HiloLibre]
    /\ UNCHANGED <<sem, planif, io, ios, cpu, pcbs, memoria>>

-----------------------------------------------------------------------------
(* funcion_para_bloqueados.                                                *)

TimerPasa(p, k, pc) == timer' = [timer EXCEPT ![p][k].pc = pc]

TimerNace(p, k) ==
    /\ Sigue
    /\ timer[p][k].pc = "nace"
    /\ timer' = [timer EXCEPT ![p][k] = [pc |-> "duerme", inicial |-> veces[p]]]
    /\ UNCHANGED <<cola, sem, planif, hilo, disposi, cpu, pcbs, memoria>>

\* After the sleep: has the process started another IO meanwhile?
TimerCompara(p, k) ==
    /\ Sigue
    /\ timer[p][k].pc = "duerme"
    /\ PuedeVencerTimer
    /\ timer' = [timer EXCEPT ![p][k] =
                   [pc |-> IF veces[p] = @.inicial THEN "compara" ELSE "no", inicial |-> 0]]
    /\ UNCHANGED <<cola, sem, planif, hilo, disposi, cpu, pcbs, memoria>>

\* The lookup of BLOCKED, under its mutex ...
TimerBusca(p, k) ==
    /\ Sigue
    /\ timer[p][k].pc = "compara"
    /\ TimerPasa(p, k, IF Esta(p, "BLOCKED") THEN "visto" ELSE "no")
    /\ UNCHANGED <<cola, sem, planif, hilo, disposi, cpu, pcbs, memoria>>

\* ... the removal, under the same mutex taken again ...
TimerSaca(p, k) ==
    /\ Sigue
    /\ timer[p][k].pc = "visto"
    /\ cola' = Sacar(p, "BLOCKED")
    /\ flag' = [flag EXCEPT ![p] = TRUE]
    /\ TimerPasa(p, k, "sacado")
    /\ UNCHANGED <<sem, planif, hilo, disposi, cpu, vivo, nombreIo, veces, restan, memoria>>

\* ... and the insertion into SUSP_BLOCKED.
TimerSuspende(p, k) ==
    /\ Sigue
    /\ timer[p][k].pc = "sacado"
    /\ cola' = [cola EXCEPT !["SUSP_BLOCKED"] = Append(@, p)]
    /\ Senales({}, {"SUSP_BLOCKED"})
    /\ TimerPasa(p, k, "no")
    /\ UNCHANGED <<planif, hilo, disposi, cpu, pcbs, memoria>>

-----------------------------------------------------------------------------
(* esperar_io_proceso.                                                     *)

\* buscar_proceso_bloqueado_por_io(e, n): strcmp of each name in turn.  A NULL
\* name kills the Kernel; garbage may kill it, differ from n or equal it.
Coincide(p, e, n) ==
    \E i \in DOMAIN cola[e] :
        /\ cola[e][i] = p
        /\ nombreIo[p] \in {n, Basura}
        /\ \A j \in 1 .. i - 1 : nombreIo[cola[e][j]] \notin {n, Nulo}

NadieCoincide(e, n) == \A i \in DOMAIN cola[e] : nombreIo[cola[e][i]] \notin {n, Nulo}

ComparaMal(e, n) ==
    \E i \in DOMAIN cola[e] :
        /\ nombreIo[cola[e][i]] \in {Nulo, Basura}
        /\ \A j \in 1 .. i - 1 : nombreIo[cola[e][j]] \notin {n, Nulo}

\* Mutant: the walk goes on after the first match and marks them all as taken.
TomaATodos(i, p) ==
    /\ nombreIo' = [q \in Procs |-> IF nombreIo[q] = NombreDe[i] THEN Vacio ELSE nombreIo[q]]
    /\ io' = [io EXCEPT ![i].pc = "trabaja", ![i].proc = p]

\* The device takes p, whose name becomes "" so that no other device does.
Toma(i, p) ==
    /\ nombreIo' = [nombreIo EXCEPT ![p] = Vacio]
    /\ io' = [io EXCEPT ![i].pc = "trabaja", ![i].proc = p]

\* buscar_proceso_a_realizar_io looks in SUSP_BLOCKED first ...
IoDespierta(i) ==
    /\ ~caido
    /\ io[i].pc = "espera"
    /\ PuedeBuscarDispositivo
    /\ semIo[io[i].sem] > 0
    /\ semIo' = [semIo EXCEPT ![io[i].sem] = @ - 1]
    /\ \/ /\ \E p \in Procs : Coincide(p, "SUSP_BLOCKED", NombreDe[i]) /\ Toma(i, p)
          /\ UNCHANGED caido
       \/ /\ NadieCoincide("SUSP_BLOCKED", NombreDe[i])
          /\ io' = [io EXCEPT ![i].pc = "busca"]
          /\ UNCHANGED <<nombreIo, caido>>
       \/ /\ ComparaMal("SUSP_BLOCKED", NombreDe[i])
          /\ caido' = TRUE
          /\ UNCHANGED <<nombreIo, io>>
    /\ UNCHANGED <<cola, sem, planif, hilo, timer, ios, cpu, vivo, veces, flag, restan, memoria>>

\* ... then in BLOCKED, under that queue's mutex.  Finding nothing in either
\* returns NULL, which the caller dereferences.
IoBusca(i) ==
    /\ ~caido
    /\ io[i].pc = "busca"
    /\ \/ /\ \E p \in Procs : Coincide(p, "BLOCKED", NombreDe[i]) /\ Toma(i, p)
          /\ UNCHANGED caido
       \/ /\ NadieCoincide("BLOCKED", NombreDe[i]) \/ ComparaMal("BLOCKED", NombreDe[i])
          /\ caido' = TRUE
          /\ UNCHANGED <<nombreIo, io>>
    /\ UNCHANGED <<cola, sem, planif, hilo, timer, ios, semIo, cpu,
                   vivo, veces, flag, restan, memoria>>

\* Mutant: a suspended process is taken for a blocked one.
SiempreEnBlocked(p) == "enBlocked"

\* ver_si_esta_bloqueado_y_devolver_posicion, as the device thread's next pc.
DondeEsta(p) == IF Esta(p, "BLOCKED") THEN "enBlocked" ELSE "enSusp"

\* FIN_DE_IO arrives; the position in BLOCKED decides where the process goes.
IoTermina(i) ==
    /\ Sigue
    /\ io[i].pc = "trabaja"
    /\ PuedeTerminarRafaga(io[i].proc)
    /\ io' = [io EXCEPT ![i].pc = DondeEsta(io[i].proc)]
    /\ nombreIo' = [nombreIo EXCEPT ![io[i].proc] = Nulo]
    /\ UNCHANGED <<cola, sem, planif, hilo, timer, ios, semIo, cpu,
                   vivo, veces, flag, restan, memoria>>

IoSaca(i) ==
    /\ Sigue
    /\ \/ /\ io[i].pc = "enBlocked"
          /\ cola' = Sacar(io[i].proc, "BLOCKED")
          /\ io' = [io EXCEPT ![i].pc = "aReady"]
       \/ /\ io[i].pc = "enSusp"
          /\ cola' = Sacar(io[i].proc, "SUSP_BLOCKED")
          /\ io' = [io EXCEPT ![i].pc = "aSuspReady"]
    /\ UNCHANGED <<sem, planif, hilo, timer, ios, semIo, cpu, pcbs, memoria>>

\* transicionar_a_ready, transicionar_a_susp_ready.
IoTransiciona(i) ==
    /\ Sigue
    /\ \E e \in {"READY", "SUSP_READY"} :
         /\ io[i].pc = IF e = "READY" THEN "aReady" ELSE "aSuspReady"
         /\ cola' = [cola EXCEPT ![e] = Append(@, io[i].proc)]
         /\ Senales({}, {e})
    /\ io' = [io EXCEPT ![i].pc = "espera", ![i].proc = Nadie]
    /\ UNCHANGED <<planif, hilo, timer, ios, semIo, cpu, pcbs, memoria>>

\* A timer reads its pcb when its thread starts and again when it wakes, freed
\* or not, and a thread may walk a queue where a freed pcb was left: the
\* behaviour is undefined from there on.  Here the Kernel dies; when the chunk
\* still holds the old fields, the other actions say what happens.
UsoTrasLiberar ==
    /\ ~caido
    /\ \E p \in Procs :
         /\ vivo[p] = "liberado"
         /\ \/ \E e \in Estados \ {"EXIT_ESTADO"} : Esta(p, e)
            \/ TimersDe(p, {"nace", "compara"})
            \/ TimersDe(p, {"duerme"}) /\ PuedeVencerTimer
    /\ caido' = TRUE
    /\ UNCHANGED <<cola, sem, planif, hilo, timer, disposi, cpu, pcbs, memoria>>

-----------------------------------------------------------------------------
Largo == LargoDespierta \/ LargoEsperaVacia \/ LargoAceptado \/ LargoRechazado \/ LargoAdmite

MedianoFifo == \/ MedianoFifoDespierta \/ MedianoFifoAceptado \/ MedianoFifoRechazado
               \/ MedianoFifoSaca \/ MedianoFifoAdmite \/ MedianoFifoAvisa

Mediano == MedianoDespierta \/ MedianoEnvia \/ MedianoIntenta

Corto == \E c \in Cpus : Despachar(c)

Hilo(h) == \/ \E q \in Procs : SyscallInitProc(h, q)
           \/ SyscallExit(h) \/ FinalizarIntenta(h) \/ FinalizarTermina(h)
           \/ SyscallDump(h) \/ DumpLiberaCpu(h) \/ DumpAceptado(h) \/ DumpAReady(h)
           \/ DumpRechazado(h)
           \/ SyscallIo(h) \/ \E n \in Nombres : IoBuscaDispositivo(h, n)
           \/ IoFinaliza(h) \/ IoBloquea(h)

Timer(p, k) == \/ TimerNace(p, k) \/ TimerCompara(p, k) \/ TimerBusca(p, k)
               \/ TimerSaca(p, k) \/ TimerSuspende(p, k)

Io(i) == \/ RegistrarIo(i) \/ IoDespierta(i) \/ IoBusca(i) \/ IoTermina(i)
         \/ IoSaca(i) \/ IoTransiciona(i)

Next ==
    \/ Largo \/ MedianoFifo \/ Mediano \/ Corto
    \/ \E h \in Hilos : Hilo(h)
    \/ \E p \in Procs, k \in Veces : Timer(p, k)
    \/ \E i \in Ios : ConectarIo(i) \/ Io(i)
    \/ \E c \in Cpus : ConectarCpu(c)
    \/ UsoTrasLiberar

Spec == Init /\ [][Next]_vars

\* The operating system runs every thread that can go on, the memory module and
\* the devices answer, the CPUs connect and a program reaches its next syscall.
Justicia ==
    /\ WF_vars(Largo)
    /\ WF_vars(MedianoFifo)
    /\ WF_vars(Mediano)
    /\ WF_vars(Corto)
    /\ \A h \in Hilos : WF_vars(Hilo(h))
    /\ \A p \in Procs, k \in Veces : WF_vars(Timer(p, k))
    /\ \A i \in Ios : WF_vars(Io(i))
    /\ \A c \in Cpus : WF_vars(ConectarCpu(c))

FairSpec == Spec /\ Justicia

-----------------------------------------------------------------------------
(* Properties.                                                             *)

PcsHilo == {"libre", "ejecuta", "intenta", "termina", "dump", "dumpEspera", "dumpListo",
            "ioLiberada", "ioBloquea", "ioFinaliza"}
PcsIo == {"ausente", "registra", "espera", "busca", "trabaja", "enBlocked", "enSusp",
          "aReady", "aSuspReady"}

TipoHilo == [pc : PcsHilo, proc : Procs \cup {Nadie}, cpu : Cpus \cup {Nadie},
             motivo : {"EXIT", "DUMP_MEMORY", "IO"}]
TipoTimer == [pc : {"no", "nace", "duerme", "compara", "visto", "sacado"}, inicial : Nat]
TipoIo == [pc : PcsIo, proc : Procs \cup {Nadie}, sem : Ios]

\* Type invariant.
TypeOK ==
    /\ cola \in [Estados -> Seq(Procs)]
    /\ sem \in [Semaforos -> Nat]
    /\ largo \in {"duerme", "esperaVacia", "consulta", "admite"}
    /\ medianoFifo \in [pc : {"duerme", "consulta", "saca", "admite", "avisa"},
                        proc : Procs \cup {Nadie}]
    /\ mediano \in [pc : {"duerme", "envia", "intenta"}, proc : Procs \cup {Nadie}]
    /\ hilo \in [Hilos -> TipoHilo]
    /\ timer \in [Procs -> [Veces -> TipoTimer]]
    /\ io \in [Ios -> TipoIo]
    /\ ios \in Seq(Ios)
    /\ semIo \in [Ios -> Nat]
    /\ cpu \in [Cpus -> {"ausente", "libre", "ocupada"}]
    /\ vivo \in [Procs -> {"sin crear", "vivo", "liberado"}]
    /\ nombreIo \in [Procs -> Nombres \cup {Vacio, Nulo, Basura}]
    /\ veces \in [Procs -> Nat]
    /\ flag \in [Procs -> BOOLEAN]
    /\ restan \in [Procs -> Nat]
    /\ ubicacion \in [Procs -> {"fuera", "memoria", "swap"}]
    /\ libres \in Int
    /\ caido \in BOOLEAN

\* A thread that is past its wait carries a process, and an execution thread a CPU.
ConProceso ==
    /\ medianoFifo.pc \notin {"duerme", "avisa"} => medianoFifo.proc \in Procs
    /\ mediano.pc # "duerme" => mediano.proc \in Procs
    /\ \A h \in Hilos : hilo[h].pc # "libre" => hilo[h].proc \in Procs /\ hilo[h].cpu \in Cpus
    /\ \A i \in Ios : io[i].pc \notin {"ausente", "registra", "espera", "busca"}
                          => io[i].proc \in Procs

\* Each CANTIDAD_DE_PROCESOS_EN[e] counts the processes of its queue, minus the
\* one its planner is dealing with, through every refusal, re-post and removal:
\* a planner that wakes never peeks at an empty list (obtener_copia_primer_
\* proceso_de would hand it NULL) and no queued process is left uncounted.
FichasDeColas ==
    /\ sem["NEW"] + Uno(largo # "duerme") = Len(cola["NEW"])
    /\ sem["SUSP_READY"] + Uno(medianoFifo.pc \in {"consulta", "saca"}) = Len(cola["SUSP_READY"])
    /\ sem["READY"] = Len(cola["READY"])

\* CPUS_LIBRES counts the CPUs whose puede_usarse is set: the short term planner
\* that got past it always finds a free CPU (list_get(-1) otherwise).
FichasDeCpu == sem["CPUS_LIBRES"] = Cardinality({c \in Cpus : cpu[c] = "libre"})

\* Pcs at which an execution thread still owns the CPU it was given.
ConCpu(h) == \/ hilo[h].pc \in {"ejecuta", "dump"}
             \/ hilo[h].pc \in {"intenta", "termina"} /\ hilo[h].motivo = "EXIT"

\* No two execution threads talk over the dispatch socket of one CPU, and a CPU
\* is only offered to the planner once its thread let it go.
UnProcesoPorCpu ==
    \A h \in Hilos : ConCpu(h) =>
        /\ cpu[hilo[h].cpu] = "ocupada"
        /\ \A g \in Hilos : ConCpu(g) /\ hilo[g].cpu = hilo[h].cpu => g = h

\* A process is in at most one state queue, once: what the timer and the device
\* threads assume when they find it in BLOCKED and then move it.
UnaSolaCola ==
    \A e, f \in Estados : \A i \in DOMAIN cola[e], j \in DOMAIN cola[f] :
        cola[e][i] = cola[f][j] => e = f /\ i = j

\* The timer thread takes out of BLOCKED a process that is there: between the
\* lookup ("ESTA EN BLOQUEADO") and the removal it let the mutex go.
SuspendeBloqueado ==
    [][\A p \in Procs, k \in Veces :
          timer[p][k].pc = "visto" /\ timer'[p][k].pc = "sacado" => Esta(p, "BLOCKED")]_vars

\* A process that is ready or runs is in main memory, never in swap.
ResidenteSiEjecuta ==
    \A p \in Procs :
        Esta(p, "READY") \/ (\E h \in Hilos : hilo[h].proc = p /\ En(h, "ejecuta"))
            => ubicacion[p] = "memoria"

\* A process only ends up out of every queue when it is freed: between queues
\* some thread holds it.
EnManos(p) ==
    \/ medianoFifo.proc = p
    \/ \E k \in Veces : timer[p][k].pc = "sacado"
    \/ \E h \in Hilos : hilo[h].proc = p /\ hilo[h].pc = "dumpListo"
    \/ \E i \in Ios : io[i].proc = p /\ io[i].pc \in {"aReady", "aSuspReady"}

NingunoPerdido == \A p \in Procs : vivo[p] = "vivo" => EnManos(p) \/ \E e \in Estados : Esta(p, e)

\* No two devices serve the same process: the one that takes it blanks its name
\* before the other may look, and no queue hands it over a second time.  A process
\* blocked by DUMP_MEMORY has a name nobody wrote: this is about runs without dumps.
UnDispositivoPorProceso ==
    \A i, j \in Ios : i # j /\ io[i].proc # Nadie => io[j].proc # io[i].proc

\* The processes that wait for a device called n and that no device has taken:
\* in either queue, or in the hands of the timer that carries them between both.
Esperan(n) ==
    {p \in Procs : /\ nombreIo[p] = n
                   /\ Esta(p, "BLOCKED") \/ Esta(p, "SUSP_BLOCKED") \/ TimersDe(p, {"sacado"})}

\* The device threads that consumed a post of semaphore s and are still looking.
Buscan(s) == {i \in Ios : io[i].sem = s /\ io[i].pc = "busca"}

\* hay_procesos_esperando is posted once for each process that waits for a device
\* of that name, while timers carry it to SUSP_BLOCKED and devices that share the
\* name look for it in both queues: no process waits unannounced, and no device
\* is woken for nobody.  A dead Kernel owes nothing; without DUMP_MEMORY, that
\* blocks processes under a name nobody wrote.
AvisosDeIo ==
    ~caido => \A i \in Ios : EsIoDe(i, NombreDe[i]) =>
        semIo[io[i].sem] + Cardinality(Buscan(io[i].sem)) = Cardinality(Esperan(NombreDe[i]))

\* A process that reaches SUSP_READY has been suspended, or is just being.
SuspReadySuspendido ==
    \A p \in Procs : Esta(p, "SUSP_READY") =>
        \/ ubicacion[p] = "swap"
        \/ mediano.proc = p
        \/ medianoFifo = [pc |-> "saca", proc |-> p]

\* Every created process ends, unless a timer reads a freed pcb and the Kernel
\* dies of it: no wakeup of a planner, a CPU or a device is lost.
TodosTerminan == \A p \in Procs : vivo[p] = "vivo" ~> vivo[p] = "liberado" \/ caido

=============================================================================
