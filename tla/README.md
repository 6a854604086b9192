# Verification of the operating system simulator

The repository is a distributed simulator of an operating system in C: a **Kernel** that schedules
processes, a **memory module** with multi-level paging and swap, any number of **CPU** modules with a TLB
and a page cache, and any number of **IO** devices. They are separate programs joined by TCP sockets; the
Kernel and the memory module are multi-threaded.

This directory holds TLA+ modules that model them, TLC configurations that check the models on small
instances, and TLAPS proofs. Names of operators and states are those of the code where TLA+ allows it.

## 1. Inventory

### 1.1 Kernel (`src/kernel/src`)

| Part | State | Operations | Talks to |
|---|---|---|---|
| Planner, FIFO (`planificacion.c`) | `colaEstados[7]`, pcbs, semaphores `CANTIDAD_DE_PROCESOS_EN`, `INTENTAR_INICIAR_*`, `SUSP_READY_SIN_PROCESOS`, `CPUS_LIBRES` | long term, medium term (suspend, resume), short term planner threads; one `poner_a_ejecutar` thread per dispatched process; one `funcion_para_bloqueados` timer per IO | memory module (one connection per request), CPU (dispatch socket) |
| Planner by size (PMCP) | the same and `proximo_a_consultar` | long and medium term planners that take the smallest process | the same |
| Short term SJF, with and without preemption | estimates, `REPLANIFICAR`, `proceso_ejecutando` | choice of a victim, interrupt, preemption | CPU (interrupt socket) |
| Connections (`conexiones.c`) | `cpus_conectadas`, `ios_conectados`, `hay_procesos_esperando` | connection of CPUs and devices, one `esperar_io_proceso` thread per device, disconnection | IO devices |

*Hard behaviour.* Some ten kinds of threads share the seven lists. Each list has a mutex, but moving a
process is a removal and an insertion under separate mutexes, lookups are separated from removals, several
tests of emptiness take no mutex, and the counting semaphores are a second account of the lists that has to
agree with them. Timers race device answers. pcbs are freed while timers still hold them.

*What makes it correct.* Queues and semaphores agree; a process is in one queue and never in none; one
process per CPU; what runs is in memory; a device is woken once for each process that waits for it; every process ends;
the seven-state life cycle of the assignment, as an abstract specification.

### 1.2 Memory module (`src/memoria/src`)

| Part | State | Operations |
|---|---|---|
| Server (`servidor_memoria.c`) | one thread per connection | requests of the Kernel: admit, resume, suspend, dump, finish; of the CPU: fetch, read, write, translate, read and write a page |
| Processes (`procesos.c`), frames (`memoria_fisica.c`), page tables (`paginacion.c`) | `procesos_en_memoria`, `marcos`, the user memory, one table tree per process | check for room, allocate, release, navigate |
| Swap (`SWAP.c`) | `procesos_swap`, `huecos_swap`, the file | copy out, first fit, copy in |
| Metrics (`metricas.c`) | counters per process | increment, print |

*Hard behaviour.* The check for room and the allocation are separate critical sections, admission and
resumption run at the same time, most accesses to the swap lists take no mutex. *What makes it correct.* No
frame belongs to two processes, none leaks, swap areas do not overlap, a process that comes back finds the
contents it had.

### 1.3 CPU (`src/cpu/src`)

Instruction cycle and syscalls (`instrucciones.c`), translation with a TLB replaced by FIFO or LRU
(`traduccion.c`), page cache replaced by CLOCK or CLOCK-M (`cache.c`), two sockets to the Kernel and one to
the memory module (`conexiones.c`). *Hard behaviour.* Entries that outlive the process they belong to,
modified pages, replies nobody reads, an interrupt against a syscall. The page cache
is keyed by page alone and flushed only at EXIT, after the TLB was emptied and after the EXIT was sent;
the replies to the pages that CLOCK-M or the final flush write back are not read; a hit on READ clears the
modified bit (`cache.c:17`); no clock moves its pointer past the entry it replaced. *What makes it correct.* A translation
is the one the page table gives; no page is loaded twice; each reply is read by who asked for it; the Kernel and
a CPU agree on whose turn it is; a page written is never lost.

### 1.4 IO (`src/io/src`) and wire protocol (`src/utils/src`)

A device sleeps for the burst and answers; on SIGINT it says it disconnects. The protocol serialises
messages over TCP: whole and in order.

## 2. Plan

| Module | Contents | State |
|---|---|---|
| `Kernel` | scheduler with FIFO/FIFO, suspension, devices that do not disconnect | done |
| `CicloDeVida` | abstract specification: the seven-state life cycle, order of admission, frames | done |
| `KernelCiclo` | refinement mapping, `Kernel` implements `CicloDeVida` | checked by TLC, proved |
| `KernelProofs` | types, queue semaphores, CPU account, no live process falls out of every queue | proved |
| `KernelColasProofs` | one queue per process, one device per process, who has its frames and how many there are, the life cycle, who was announced to the devices, when bursts and timers do not overlap | proved |
| `Memoria`, `MemoriaAbstracta` | requests of the Kernel to the memory module: frames, swap file; who fits and who is refused | done, refinement checked by TLC, proved |
| `MemoriaJunta` | `Memoria` with the resumption of a process that overlaps its own suspension | counterexample |
| `MemoriaProofs` | ownership of frames; types, who has a record in the swap file, areas that do not overlap, contents that survive a suspension; what is promised about room | proved |
| `SumasProofs` | sums over finite sets, for both accounts of frames | proved |
| `Paginacion` | page tables and the two walks over them | done |
| `Tlb`, `Reemplazo`, `TlbReemplazo` | the TLB, the bounded queue it implements, and the mapping | done, refinement checked by TLC, proved |
| `Traduccion` | a CPU, its TLB, the processes that pass through it and their frames (composes `Tlb` and `Paginacion`) | done |
| `TlbProofs` | no page twice, no ties in LRU, every entry agrees with the page table; a page table is walked as it was built, for any number of levels; the CPU uses its TLB as `TlbSpec` says, and the TLB is the queue of `Reemplazo` | proved |
| `Cache`, `CacheAbstracta` | the CPU with its page cache, CLOCK and CLOCK-M, over `Tlb` and `Paginacion`, the requests and replies of the connection; the bounded set of pages it implements | done, refinement proved |
| `CacheProofs` | types, replies and who reads them, no page twice, the cache implements the bounded set | proved |
| `CortoPlazo` | SJF and SRT: estimates, `REPLANIFICAR`, preemption against syscall, both ends of the sockets | done |
| `Pmcp` | planners by size with `proximo_a_consultar` | done |
| `PmcpProofs` | types, semaphores of both queues, the process admitted is the one asked about | proved |
| `CortoPlazoProofs` | READY sorted but for one unlocked write, and counted, no CPU and no process shared, types with at most two messages in a socket, posts of `REPLANIFICAR` for whom a free CPU could take | proved |

Constants carry named assumptions in the module that declares them, operations are one action each, and no
module declares a `RECURSIVE` operator, so that everything can be proved about later.

## 3. Modules and code

### 3.1 `Kernel`

The state is the Kernel's: `cola` is `colaEstados`, `sem` the counting semaphores, `ios` the list of
connected devices with the shared semaphores `semIo` and `io[i].sem`; `nombreIo`, `veces`, `flag` are the
fields `nombre_io_que_lo_bloqueo`, `veces_que_se_bloqueo` and the suspension flag of a pcb, `vivo` says
whether the pcb exists. `largo`, `medianoFifo`, `mediano`, `hilo`, `timer`, `io` are the program counters of
the threads. `ubicacion` and `libres` are the memory module as far as the Kernel sees it: requests are
atomic here, because each one has its own connection and its own answer, and `Memoria` takes them apart.

One action is the stretch of a thread that contains **one** access to shared data: the `sem_wait`s before it,
the critical section or unprotected read, and the posts and sends after it. Two `sem_wait`s in a row are taken
together, since each planner semaphore has a single waiting thread. What happens between a lookup and the
removal that relies on it is therefore visible: `TimerBusca` / `TimerSaca` / `TimerSuspende`, `IoBusca` /
`IoTermina` / `IoSaca` / `IoTransiciona`, `LargoAceptado` / `LargoAdmite`.

| Thread in the code | Actions |
|---|---|
| `planificador_largo_plazo_fifo` | `Largo...` |
| `planificador_mediano_plazo_fifo` (resumption) | `MedianoFifo...` |
| `planificador_mediano_plazo` (suspension) | `MedianoDespierta`, `MedianoEnvia`, `MedianoIntenta` |
| `planificador_corto_plazo_fifo` | `Despachar` |
| `poner_a_ejecutar` (one per dispatched process) | `Syscall...`, `Finalizar...`, `Dump...`, `Io...` with a thread `h` |
| `funcion_para_bloqueados` (one per IO syscall) | `Timer...` |
| `esperar_io_proceso` (one per device) and connection | `ConectarIo`, `RegistrarIo`, `Io...` with a device `i` |

`Toma` is the body of `buscar_proceso_a_realizar_io`, with the `strcmp` of `planificacion.c:765`: comparing
with a NULL or uninitialised name sets `caido`. `UsoTrasLiberar` is a thread that reads a pcb after it was freed: a timer
when its thread starts (`planificacion.c:244`) or when it wakes (`:248`), or whoever walks a queue where a freed pcb was left. Both are
undefined behaviour, modelled as the death of the Kernel or, when a freed chunk still holds the old fields, as going on with them. Every run
with IO reaches `UsoTrasLiberar`: nothing in the code, and nothing in the model, makes a process outlive its timers.

*Regimes.* Whether a timer or a burst ends first is decided by `TIEMPO_SUSPENSION` and the programs, not by the
Kernel. The constant `Suspension` has two values. `"libre"`: any order, which is what the code faces.
`"separada"`: a burst may end before or after its timer,
but not in the fraction of a second in which the threads woken by the other event still work. This is an
assumption about the environment, and the runs say whether they use it; it separates what is wrong in the Kernel's handling of
the race (section 6) from what is right without it. A property that holds under "separada" says nothing about that race.

### 3.2 `CicloDeVida`, `KernelCiclo`

What the Kernel promises of a process, without threads or semaphores: queues in order of arrival, only the head
of NEW and of SUSP_READY is given frames, never more running processes than CPUs, never more frames than
there are, a process suspended is blocked first and comes back only through SUSP_READY. `KernelCiclo` maps each
queue, adding the process a thread has in its hands between two queues.

### 3.3 `Memoria`, `MemoriaAbstracta`

`ocupado` is `marcos[i].ocupado`, `contenido` the user memory, `tabla` the frames of each page table in page
order (`Paginacion` and `TablaCompleta` justify this view of a tree), `enMemoria`, `enSwap`, `huecos`, `archivo`
are `procesos_en_memoria`, `procesos_swap`, `huecos_swap` and the file. `pedido`, `pc`, `buffer`, `lugar`,
`ultimo` are the thread that serves the request about a process; the Kernel has one thread each for admission, resumption
and suspension. `Memoria` has one request in flight per process (`UnoPorProceso`). **That is a restriction of the model and not a
fact about the Kernel**, which may send INICIALIZAR_PROCESO_SUSPENDIDO about a process whose SUSPENDER_PROCESO was not answered yet, if its burst
ended meanwhile (`planificacion.c:202-209` and `:221-225`). `MemoriaJunta` adds that overlap, for one process at a time: the resumption finds the record that the
suspension has just linked (`SWAP.c:84`), adds a second entry to `procesos_en_memoria`, and copies the contents into the frames of the first one, which the
suspension then frees (`SWAP.c:87`). There the Kernel learns the resumption's answer after the suspension's; a FINALIZAR_PROCESO beside a SUSPENDER_PROCESO (a process that is
ended because its dump was rejected) is in neither module. `escrito` is a ghost: what a program
should find in each page.

One action is one critical section, one unprotected access to a list, or one access to the file: the check for
room (`Contar`) is apart from taking each frame (`TomarMarco`), giving each frame back (`LiberarMarco`) apart from
dropping the table, and on the way back from swap the hole is published before the record is removed.
`list_add` walks to the last node and then links (`ultimo`); with `Solapan = TRUE` a removal may come in between,
with `FALSE` list operations are atomic. `MemoriaAbstracta` is the contract about room: residents always fit,
and a process is refused only when what others hold, may still take or are giving back leaves too little.

### 3.4 `Paginacion`, `Tlb`, `Reemplazo`, `Traduccion`

`Paginacion` has no variables: `CrearNivelTabla` (a function of the level and of the frames still to be mapped) builds the tree depth first as `crear_nivel_tabla` and
`asignar_marcos_a_todas_las_paginas` do, `ObtenerMarco` is the walk of the memory module and `NavegarNiveles` that of
the CPU, which sends one entry per level and keeps the last answer. `Tlb` is `traduccion.c`: search, FIFO with
`punterosPos`, LRU with its counters, which a hit, a load and the emptying change in three different ways.
`Reemplazo` says what that amounts to, a bounded queue of translations whose head goes first; `TlbReemplazo` holds
the mapping: the entries in use, each in the place of how many go before it. `Traduccion` puts processes on the CPU one after another. An access is one step, since nobody moves
the pages of a running process; the end of a process is several, since EXIT is sent before the TLB is emptied and
the memory module frees frames meanwhile. `SyscallIo` stands for every way of leaving the CPU other than EXIT.
`cargaron` is a ghost: the process whose entries the TLB holds, or all of them once two processes used it or one that did was swapped out.

### 3.5 `Cache`, `CacheAbstracta`

`cache` and `punteroCache` are `cache.c`'s ring and its pointer, `cpu` the point of the instruction cycle with the access
under way (`pag` the page, `buscada` the one whose frame is looked for, `luego` what the frame is for), `pedidos` and `respuestas` the two
directions of the socket to the memory module. The code sends in one function and reads in another, so a send, the
service (`ManejarClienteCpu`) and a read are a step each; a read takes whatever comes first, and treats it as what it
expects. `sinLeer` is a ghost that counts replies asked for that no code reads: the one of the page that
`algoritmoClockM` writes back, and those of the final emptying. After EXIT the Kernel has the memory module free the frames (`Finalizar`) while the cache is
still being written back.

The emptying frees the contents of each entry and leaves the pointer (`cache.c:277`), so an entry that no page was loaded into since is freed
again at the next EXIT. `liberadas` has the entries whose block is free; `Soltar` frees one of them again in either of the ways `free` can: the CPU
aborts (`pc = "abortada"`), or the block was given out meanwhile and is taken from whoever has it.

`contenido` says of a frame what was last written there and whether the address of a buffer was stored over it
since, which is what a page update does (`servidor_memoria.c:288`). From the point where the CPU takes a reply of another
kind than the one it waits for, what it does depends on bytes the model does not have: `pc = "perdida"`, and it stops.

`CacheAbstracta` is a bounded set of pages in which a miss adds a page, and takes one out only when it is full. `Cache` holds the mapping (`EnCache`, `Abstracta`).

### 3.6 `CortoPlazo`, `CortoPlazoProofs`

`ready` and `exec` are the queues, `fuera` the processes that wait elsewhere (in `Kernel`'s NEW, BLOCKED, ...) and may be made ready at any
time, `est` is `proxima_estimacion`, `plani` the planner, `hilo` the `poner_a_ejecutar` threads, `puedeUsarse` and `ejecutando` the fields of
`instancia_de_cpu`, `alKernel` / `aCpu` the dispatch socket and `pedidas` the interrupt socket of each CPU, `cpu` its point in
`ejecutar_instrucciones` with the flags `hay_interrupcion`, `ultima_instruccion_fue_syscall_bloqueante`, `solicitar`.

| Code | Actions |
|---|---|
| `planificador_corto_plazo_sjf_sin_desalojo` | `PlaniDespierta`, `PlaniDespacha` |
| `planificador_corto_plazo_sjf_con_desalojo` and what it calls | the same and `PlaniCopia`, `FrenaMira`, `FrenaCarga`, `FrenaEscribe`, `Recorre`, `Elige`, `Reanuda`, one access to shared data each |
| `poner_a_ejecutar`, `liberar_cpu`, `desalojar_proceso_de_cpu` | `Hilo...` and `Sale...` with a thread `h` |
| `ejecutar_instrucciones`, `check_interrupt`, `mandar_syscall`, `esperar_interrupcion` of the CPU | `Cpu...`, `LlegaInterrupcion` with a CPU `c` |

`FrenaCarga` and `FrenaEscribe` are `planificacion.c:287`: the pointer and the estimate are loaded, and the difference is stored, with no mutex; the process may leave
its CPU and be sorted into READY in between, and its new estimate is then overwritten there. Estimates are small naturals, and the time measured is any of them: what matters is their order. A NULL or uninitialised
`proceso_ejecutando` that is dereferenced sets `caido`; a side that reads a message as what it is not becomes `desfasado`.

### 3.7 `Pmcp`, `PmcpProofs`

The two planners of `ALGORITMO_INGRESO_A_READY = PMCP`: `nuevos` and `suspListos` are the two sorted queues, `proximo` is `proximo_a_consultar`,
`enNew`, `enSuspReady`, `intentarNew`, `intentarSuspReady`, `sinProcesos` their semaphores, `intento` the callers of `intentar_iniciar`. `lugar` is where each process
is; "adentro" stands for all it does while it holds frames, which is `Kernel`'s. A planner asks the memory module with
its queue locked: `LargoPregunta`, `LargoAceptado`, `LargoAdmite` keep `NewLibre` false.
`Demorar` is a process that blocks until its timer expires, `ElegirASuspender` / `NadieASuspender` the search of `planificador_mediano_plazo` (`planificacion.c:202`), `Suspender` the request
and what memory does with it; the end of the burst (`FinDeRafaga`) may come between any two of them, and leaves in SUSP_READY a process that is not in `enSwap`, of which memory knows nothing.
`SeEstorban` is two requests at once that fit alone and refuse each other, each for the frames the other one holds for a moment. The test of SUSP_READY in
`planificador_largo_plazo...` and in `intentar_iniciar` takes no mutex, and is apart from what follows. `proximo` may point at a pcb
that was freed; its pid is then anything (`EsElProximo`, `NoEsElProximo`).

## 4. Runs

Two TLC workers each. `CHECK_DEADLOCK FALSE` in all of them: once every process ended nothing is left to do.

| Run | Instance | Checks | Size |
|---|---|---|---|
| `kernel_libre` | 2 processes (2 syscalls and 1), 1 CPU, 2 devices of one name, 2 frames, regime "libre", all syscalls | `TypeOK`, `FichasDeColas`, `FichasDeCpu`, `NingunoPerdido` | 614 k states |
| `kernel_separada` | 3 processes (one of 2 frames; 2, 2 and 0 syscalls), 2 frames, "separada", INIT_PROC and IO, fairness | `UnaSolaCola`, `ResidenteSiEjecuta`, `AvisosDeIo`, `ImplementaCiclo`, `TodosTerminan` | 46 k |
| `kernel_dump` | 3 processes, 2 CPUs, 2 frames, "libre", INIT_PROC and DUMP_MEMORY, fairness | `UnProcesoPorCpu`, `TodosTerminan` | 88 k |
| `kernel_susp_ready` | 2 processes, 1 device, "libre" | `SuspReadySuspendido` **violated** | |
| `pmcp` | 3 processes of 1 and 2 frames, 2 frames, one suspension each, fairness | `FichasDeAdmision`, `AdmiteAlConsultado`, `TerminanSalvoOlvido` | 972 k |
| `corto_plazo` | 3 processes on 2 CPUs (NOOP and INIT_PROC), or 2 (one with IO), estimates 0 and 1, with and without preemption, fairness | `TypeOK`, `SinCompartir`, `SoloUnCorteDesordena`, `FichasDeReady`, `ReplanificarAlcanza`, `Terminan` | 486 k |
| `corto_plazo_desfase` | the same, with preemption | `EsperaCpuLista` **violated** | |
| `memoria_pedidos` | 4 processes (1, 2, 0 pages, one without program), 2 frames, 1 write each, 2 suspensions | `TypeOK`, `MarcosPropios`, `SinFugas`, `SwapRepartido`, `ContenidoPreservado`, `ConPaginasEnSwap`, `CumpleMemoriaAbstracta` | 1.3 M, depth 84 |
| `memoria_solapada` | overlapping list operations | `ConPaginasEnSwap` **violated** | |
| `cpu_tlb` | 2 processes of 4 and 1 pages, 4 accesses each, TLB of 3 entries, FIFO and LRU, 2 levels of 2 entries | `SinRepetidas`, `ContadoresDistintos`, `TablaCompleta`, `TlbCoherente`, `EsTlb`, `CumpleReemplazo` | 270 k |
| `cpu_cache` | 2 processes of 3 and 1 pages, 3 accesses and 1, cache of 2 entries, CLOCK and CLOCKM, TLB of 2, 2 levels, EXIT and IO, fairness | `TypeOK`, `PaginasUnicas`, `EnFase`, `CanalCuadra`, `CumpleCacheAbstracta`, `TerminaLoQueEmpieza` | 170 k |
| `cpu_cache_marco` | 1 process, CLOCKM | `MarcoDeMemoria` **violated** | |

Further configurations are run by hand. `KernelDispositivos.cfg` passes: `UnDispositivoPorProceso` and `AvisosDeIo` for 2 devices of one name under
"separada" (884 k states), which section 5 proves. The others are kept for their counterexamples:
`KernelTimerTardio.cfg` (`SuspendeBloqueado`), `KernelDumpDispositivo.cfg` (`UnDispositivoPorProceso`, with dumps), `PmcpOlvido.cfg` (`SuspReadyVuelve`), `CortoPlazoNulo.cfg` (`ComparaConProcesos`),
`CortoPlazoDesorden.cfg` (`ReadyOrdenada`), `MemoriaJunta.cfg` (`ContenidoPreservado`, with the suspension and the resumption of one process at work at once),
`CpuCacheLectura.cfg` (`LeeLoEscrito`), `MemoriaTamCero.cfg` (`SuspendidoEnSwap`), `CpuTlbAjena.cfg` (`TraduccionCorrecta`),
`CpuDireccion.cfg` (`AccedeALoSuyo`), each with the MC module of its component.

What they show:

- Under any timing, the semaphores agree with the queues they count, CPUS_LIBRES with the free CPUs, and no live process falls out of every queue
  (`kernel_libre`). The Kernel itself may die in that run: a device searches SUSP_BLOCKED and then BLOCKED while the timer moves the process, and
  dereferences NULL; the properties are about what is so until then.
- When timers and bursts do not overlap, the scheduler is right: one queue per process, only resident
  processes are ready or run, every process that waits for a device was announced to it once, and the Kernel implements the life
  cycle. With contention for frames and with every process ending (`kernel_separada`, `kernel_dump`), no wakeup
  of the planners is lost, although `intentar_iniciar` wakes only one of them after an unprotected look. Where there is IO, the exception is a timer that reads a freed pcb.
- By size (`pmcp`), neither planner ever looks at an empty queue nor admits a process it did not ask about. Three things
  stop them, and `TerminanSalvoOlvido` says that there is no fourth: `proximo_a_consultar` left at a process of the other queue; a process in SUSP_READY that was never
  swapped out, because its burst ended before it was suspended (the race of `kernel_susp_ready`), which memory refuses for ever; and two requests for frames that refuse each other.
- By estimate (`corto_plazo`), READY stays sorted unless the planner's unlocked write of an estimate lands on a process that went back to READY since it was
  loaded; its semaphore counts it, CPUs are not shared, and although a preempted
  process comes back without a post of REPLANIFICAR there is always one for each process a free CPU could take. Two things break
  it, both outside the properties: a comparison with a CPU that has no process, and a preemption right after an INIT_PROC.
- Requests about different processes, served at the same time, share frames and the swap file without conflict when
  list operations do not overlap; contents survive suspensions; the separate check for room never lets in more
  than fits. Two requests about the same process at once are not in this run, and contents do not survive them (`MemoriaJunta.cfg`).
- The TLB is a FIFO or LRU cache of what the page table of the running process gives, although it is emptied after EXIT was sent and kept on an IO, unless
  another process used it since it was emptied, or the process was swapped out.
- The page cache is a cache by either clock, every access ends, every emptying that frees no entry twice ends (one that does may abort the CPU), and requests and replies pair up except
  for the replies nobody reads, which are exactly those of CLOCK-M's and EXIT's write backs.

*Bounds and why they are enough.* Two processes and one frame already give every race of the Kernel that two
actors can have (creation against admission, suspension against resumption, timer against device); the third
process, of two frames, is there so that the head of NEW is refused while smaller ones wait behind it. Two syscalls per program
(`MaxSyscalls`, one bound per process) allow a process to block twice, so a timer of the first block meets the second one; the third process of `kernel_separada` ends
without a syscall, and is there to wait for frames.
In `kernel_libre` the second process has one syscall, which keeps the run short; with two each and a single frame for both
(2.6 M states) it was checked as well, as it was with three processes and one frame (1.3 M). `Hilos`
bounds the execution threads alive at the same time to three (two in `kernel_libre`, which never uses a third): a thread
goes on after its CPU was freed, so there are more threads than CPUs. In memory two frames for four processes force
refusals half way, and two suspensions force a hole to be reused; three processes, three frames and three suspensions
were also checked (3.6 M states). In the CPU the larger process has more pages than the TLB entries, so that both
policies replace, and a second process reuses its frames. With a cache of two entries and pages 0 to 2 both clocks have a full ring with every mixture of bits, go round it twice, and evict
modified and clean pages, with and without the page in the TLB; the second process makes one access, which is enough to meet what the first left.
Estimates of 0 and 1 give a shorter, an equal and a longer process; three processes on two CPUs leave one in READY while both CPUs run, which is where
victims are chosen. In `pmcp` two sizes in two frames make the first of a queue refused while memory is not full, and one suspension each fills both queues at once;
the invariants are proved for any number of processes. `Tarde = FALSE` connects every CPU before the first process runs: a CPU that connects later is not announced to the planner
with preemption (section 6). Symmetry is used once, for the two devices of
`kernel_libre`, which have the same name, in a run without liveness or action properties.

*Fairness* (`Justicia` in `Kernel`, `FairSpec` elsewhere): weak fairness of each planner, execution thread, timer, device and of the connection of
each CPU. It means: the operating system schedules every thread that can go on, the memory module and the devices
answer, CPUs are started, and a program reaches its next syscall and, after `MaxSyscalls` of them, its EXIT. Devices
need not connect, and nothing is assumed about which thread a mutex goes to (no strong fairness).
In `Cache` the CPU, the thread of the memory module and the Kernel's FINALIZAR_PROCESO go on while they can; in `CortoPlazo` also each CPU, its connection and the delivery of
interrupts; in `Pmcp` the three planners, the callers of `intentar_iniciar`, the ends of bursts and of programs. New processes, suspensions and IO are never forced to happen, nor are two
requests for frames that refuse each other.

## 5. Proofs

For every value of the constants that satisfies the named assumptions (`ConstantesAssumption`, `MemoriaAssumption`,
`TlbAssumption`, `CacheAssumption`, `PmcpAssumption`, `CortoPlazoAssumption`): any number of processes, CPUs, devices, threads, frames, entries.

`KernelProofs`, in both regimes, with every syscall:
- `InvarianteInductivo`, `TiposCorrectos`, `SemaforosCuentanColas`. The inductive invariant is
  `IInv == TypeOK /\ ConProceso /\ FichasDeColas`. The three need each other: a planner that wakes puts the head of its queue
  in its hands, which is a process only if the queue is not empty, which is what the semaphore counts; and the
  account is kept only if what a thread moves is a process. Each group of actions changes the queues in one of a few
  ways (insert, remove, move, move the first), and a lemma says of each what it does to types and lengths.
- `InvarianteDeCpus`, `SemaforoCuentaCpus`, `CpuExclusiva`. On top of `IInv`, `FichasDeCpu /\ UnProcesoPorCpu` is inductive: releasing a CPU
  adds one free CPU to the count only if it was taken, which is what the exclusive ownership says, and it is given
  away only when the count says there is one.
- `InvarianteDePerdidos`, `NingunProcesoSePierde`. `NingunoPerdido` needs, besides `IInv`, `CabezaRetenida`: while the medium term planner
  asks whether the first process of SUSP_READY fits, that process is still the first. It removes the head of the queue, whichever
  it is, and inserts in READY the process it asked about. Were they two processes, one would be lost and the other in two queues.

`KernelColasProofs`, under `Regimen`: "separada", and no DUMP_MEMORY. Without these hypotheses, which are about the environment and not ensured by the code, the theorems are
false of it, and section 6 has the counterexamples: under "libre" a process ends in two queues; a
process that dumps has an unwritten `nombre_io_que_lo_bloqueo` (`planificacion.c:765`), and a device may take it.
- `InvarianteDeLugares`, `ProcesosEnUnaCola`, `DispositivosDistintos`. `UnaSolaCola` is strengthened with what each thread that names a process says of where it
  is (`LugarBien`): the execution thread (`HiloBien`), the device (`IoBien`), the timers (`TimerBien`), the planners (`PlanBien`), and, for a process that
  nobody names, which queues are possible (`AusenteBien`). A device moves a process from BLOCKED or SUSP_BLOCKED to READY or SUSP_READY in several
  steps, and a timer from BLOCKED to SUSP_BLOCKED in three: the invariant says which of the two has it, and `Vigente` that an expired
  timer of an earlier block does not count. That no two devices serve one process is part of `IoBien`.
- `InvarianteDeMarcos`, `ResidenteAlEjecutar`. `Ubicados`: who is in READY, EXEC, BLOCKED, or in the hands of a thread that will put it there, has its
  frames. They are given before the process is taken from NEW or SUSP_READY and let go after it reached SUSP_BLOCKED.
- `MarcosContados`: the free frames and those of the resident processes, whoever is being admitted or brought back included, add up to `MarcosTotales` (`Cuenta`). Each
  request moves one process in or out; its frames are added or taken away once, in a sum over all processes (`SumasProofs`).
- `ElKernelCumpleElCiclo`, with processes of at least one page: `Spec => ImplementaCiclo`. The mapping of `KernelCiclo` puts a process that a thread holds in the state, and in the place
  of the queue, it comes from or goes to; each action of `Kernel` then moves at most one process, along an arc of the life cycle, and the other steps stutter. That a process enters READY
  only with its frames is `Ubicados` and `Cuenta`; that it is in one abstract queue only is `Lugares`; that the medium term planner takes the one it asked about is `CabezaRetenida`.
- `LosAvisosCuadran`, for any number of devices that share names: as long as the Kernel lives, the posts of `hay_procesos_esperando` and the devices that took one and are still looking
  are as many as the processes that wait for a device of that name. No process waits unannounced, and no device is woken for nobody. It does not say that the device finds its process: it may miss
  one that a timer is moving, and dereference NULL. `Avisos` is the account per semaphore: only the one of the first device of a name is posted (`DelPrimero`), a device's semaphore is
  one of its own name (`SemBien`), and nobody waits for a name that no connected device has (`EsperanBien`). Who waits is counted from the post to the moment
  the name is blanked (`Espera...`), in the queues or in a timer's hands, which needs `Lugares`: a process is in one place, so that it is counted once.

`SumasProofs`: `MapThenSumSet` of the library is defined by a recursive function chosen over sets. That it adds what it says is proved by a minimal counterexample: the subsets of a finite
set are well-founded, so if some set had no sum there would be a smallest one, and taking one element off it gives the sum it lacks. What the accounts need follows: adding or
removing an element changes the sum by its value, changing the value of one element changes it by the difference, a subset adds up to no more than the set.

`MemoriaProofs`, ownership: `InvarianteDeMarcos`, `CadaMarcoUnDueno`, `NingunMarcoSePierde`. `MarcosPropios` and `SinFugas` are strengthened with
`SoloDuenos` (who owns no frames has an empty table, so that admission starts from nothing) and `HiloConPedido` (without a request there is no thread). A
frame that is taken is free, and a free one is in nobody's table exactly because the occupied ones are those of the
tables.

`MemoriaProofs`, the swap file. All of `MemoriaProofs` is about `Memoria`, where there is one request per process at a time (`UnoPorProceso`); the Kernel does not ensure it.
- `InvarianteDeRegistros`, `TiposCorrectos`, whether list operations overlap or not. That `TypeOK` holds depends on who has a record: a resumption looks for the one of its
  process, and takes its offset. `IInvRegistros` ties the step of each thread to its request (`PasoSegunPedido`), the request to what the Kernel was
  last told (`PedidoSegunVida`), presence in `procesos_en_memoria` to both, and says that a process has one record at most (`RegistroUnico`), none while it is
  resident, and one while it comes back (`ReanudaConRegistro`).
- `InvarianteDelSwap`, `SwapBienRepartido`, with `Solapan = FALSE`: list operations do not overlap, although no mutex keeps those of `procesos_swap` and `huecos_swap` apart (with TRUE a
  record is lost: run `memoria_solapada`). This and the two items below are conditional on both hypotheses. Records, holes and the
  area being written are disjoint in pairs, and cover the file. `UltimoVigente` says that the last node a `list_add` found is still the last. The hole
  a resumption publishes lies over the record it has not removed yet: that record is left out of `AreasRegistradas`, and so is not compared.
- `InvarianteDeContenido`, `ContenidoSePreserva`. The contents of a process are followed from its frames (`ContenidoEnMarcos`) to the copy the thread makes (`ContenidoEnCopia`), to the
  file (`ContenidoEnArchivo`) and back; a write to the file changes the area of nobody else by `IInvSwap`. When a resumption overlaps the suspension of its process the
  contents are lost (`MemoriaJunta.cfg`).
- `LosSuspendidosVuelven`: a suspended process with pages has one record in the file's list (`ConPaginasEnSwap`), the one that its
  resumption looks for. That list operations do not overlap excludes the way `memoria_solapada` loses a record; the theorem says that it is the only one among requests of different processes.

`MemoriaProofs`, what is promised: `InvarianteDeCuenta`, `MemoriaCumpleLoPrometido`, whether list operations overlap or not. `CuentaMarcos` says that the frames taken are as many as the tables
of all processes hold, `TablaAcotada` that no table is longer than its process. An admission that gives up half way holds frames meanwhile, so the refusal of another process is
explained only by counting those that are entering and leaving: `Situacion` maps each thread to one of the four abstract situations. Its cases exclude
each other only because of `PresenteSegunPaso`, which says at which steps a process is listed as present.

`TlbProofs`: `InvarianteDeTlb`, `PaginaUnaVez`, `LruSinEmpates`. `ConMarco` is needed because a search that finds a page with frame -1 counts as a miss and would add it
again; `Contadores` because the entry just used goes to 0 and the rest move away from it. That LRU has a victim at all is a
lemma (a finite set of counters has a greatest one, by well-founded induction on the naturals).
- `TablasCompletas`: for any number of levels and of entries per table, the walk of `ObtenerMarco` finds in the tree `crear_nivel_tabla` built the frame of every page of the process, and -1 for the
  others. Powers, tables and the walk are recursive functions over a finite range of naturals. That each one exists and obeys its equation, and then what it computes, is proved by minimal counterexample: a
  level, or an entry, where it failed would have a first one, and the one before it gives what is missing. A table of a level maps, in order, the frames it is given (`CrearNivelEs`), its entry
  `i` those from `i` times the capacity of the level below (`TablaDeTablasEs`); the walk keeps the first page that its current table maps (`BaseAvanza`, `RestoDeNivel`), and arrives at the frame of the page
  because dividing twice is dividing by the product (`CocienteDoble`).
- `LaCpuUsaLaTlb`: `Spec => EsTlb`, the CPU of `Traduccion` takes only steps of `TlbSpec`, so that the three theorems above hold of it. It needs that a walk for a page of the process never answers -1,
  which is `TablaCompleta`, and that the CPU only runs a process whose frames are loaded (`Cargados`, `CpuConProceso`). `TiposDeTraduccion` follows from the same invariant, `TablasInv`.
- `TlbEsReemplazo`, `LaCpuReemplaza`: `CumpleReemplazo` for `TlbSpec` and for the CPU. An enumeration of the entries in use by their turn is unique (`EnOrdenEs`), so it is enough to carry one from step
  to step (`HayOrden`): the entry used, or loaded, leaves its place and goes last, and the order of the others stays although all their counters, or distances from the pointer, change. That the entry
  FIFO replaces is the head needs `Contiguas`: the entries in use are the last ones the pointer will meet, so it meets one only when all are in use, and the oldest first. This survives the emptying, which leaves the pointer alone.

`TlbSigueALaTabla` is about `Traduccion`: every entry gives the frame of the page table of the process that runs, also when it comes back from an IO, unless another process looked for its pages on that CPU since the
TLB was emptied, or this one was swapped out since: these are then the only two ways in which an entry goes wrong, and the first is `CpuTlbAjena.cfg`. `TraduccionInv` says that the TLB is empty if nobody used it
since, and if one process did, that the entries are right for it wherever it is, ready, blocked or running, until it ends (`Cargada`). Emptying it after EXIT was sent is harmless because the CPU takes no process before it did so.

`CacheProofs`: `SpecCanalCuadra`, `SpecEnFase`, `SpecPaginasUnicas`. `CpuInv` says which points of the cycle go with which instruction and which use of the frame looked for;
`CanalInv` adds to the count of `CanalCuadra` that while nothing was left unread the queues hold at most the request or the reply of the point the CPU is at,
of the kind it waits for: each send, service and read then moves one message. `CacheInv` adds that a page being loaded is in no entry, from the miss that found so to the load, through
the clock and the walk in between; without it a load could repeat a page.
`SpecTypeOK` rests on the same three. `CacheEsAbstracta` is the refinement: every step of `Spec` is a step of
`CacheAbstracta` or leaves the set of pages alone. `LlenaInv` says that while a clock turns, and while the page it chose is written back, no entry is free: a page is given up only when
the cache is full, although the test was made several messages earlier. All of this holds also after a block was freed twice, as long as the CPU goes on: who gets the block
is left open (`liberadas` is any set of entries).

`PmcpProofs`: `SpecTypeOK`, `SpecFichasDeAdmision`, `SpecAdmiteAlConsultado`. `TypeOK /\ FichasDeAdmision /\ AdmiteAlConsultado` is inductive: a planner that is awake has a first
process because the semaphore counts the queue, and what it asked about stays first because an insertion, which may be at the front, needs the queue's mutex.
They hold with the suspending planner at work and for processes that reach SUSP_READY before they were suspended.

`CortoPlazoProofs`: `SpecFichasDeReady`, `SpecSinCompartir`, `SpecSoloUnCorteDesordena`. READY stays sorted only if no estimate of a process in it changes, and
`frenar_y_restar_cronometros` loads the process a CPU has written in it and stores its estimate later. `SpecSoloUnCorteDesordena` is an action property: a step that finds READY sorted leaves it so, but for that store when the
process is in READY by then (`CorteTardio`); that the store does unsort it is `CortoPlazoDesorden.cfg`. The inductive invariant has `UnLugar` (a process is outside, in
READY once, or in one thread), `EscritoPorHilo` (the process written in a CPU is the one of a thread that has not erased it), and `UnDuenio` (a
CPU that is taken has one thread, or the planner). `EscritoPorHilo` is about threads and not about who holds the CPU because between the two statements
of `liberar_cpu` another thread may have written its process there, and the first one then erases it.
- `SpecTypeOK`, with and without preemption. No socket holds more than two messages because of `Conversan`, which says for each point of a CPU's cycle what is in its two queues, whether a
  thread of the Kernel waits for it (`Atendida`) and whether one owes it an answer (`Debe`): the turn is in one place. The exception is an IO, after which the CPU
  waits for nothing and may say CPU_LISTA before the IO is read; from there on the two may be out of step, and `Charla` says what is left in the queues then.
- `SpecReplanificarAlcanza`, with `Tarde = FALSE`: no CPU connects once processes ran. With a late CPU it is false (`conexiones.c:56`: it posts CPUS_LIBRES and not REPLANIFICAR). A process
  that is preempted goes to READY without a post, so posts and READY do not go together; `Alcanza` says that either the posts are enough for the free CPUs, or they are enough for READY and
  for the processes on their way back to it. The first holds from the moment the planner finds no free CPU, and a thread that frees one owes a post until it gives it. A CPU that
  connects would break it: but then no process was dispatched (`SinUso`) and the second holds. `Gasto` and `VaGastado` tell that the system began even if the first process is already back
  outside: it ran an instruction, since only CPU_LISTA and EXIT are sent before one.

Only model-checked, and why:
- liveness (`TodosTerminan`, `Terminan`, `TerminanSalvoOlvido`, `TerminaLoQueEmpieza`): fairness and ENABLED are out of the prover's reach.

## 6. Disagreements found

| Run or configuration | What the code says | What it does |
|---|---|---|
| `kernel_susp_ready` | `conexiones.c:205`, to SUSP_READY "si se había suspendido" | the burst ends after the move to SUSP_BLOCKED and before SUSPENDER_PROCESO: the process is in SUSP_READY with its frames, and resumption is refused for ever |
| `KernelTimerTardio.cfg` | `planificacion.c:252`, "ESTA EN BLOQUEADO" | the timer lets the mutex go after the lookup; the device may take the process to READY first, and it ends in READY and SUSP_BLOCKED |
| `PmcpOlvido.cfg` | `planificacion.c:80`, "si no hay nada espera a que llegue un proceso" | a caller of `intentar_iniciar` finds SUSP_READY empty, a process arrives there, the caller points `proximo_a_consultar` at NEW: the medium term planner refuses the process and sleeps, the long term one waits for SUSP_READY to be empty, and neither wakes up again |
| `corto_plazo_desfase` | `planificacion.c:662`, it sends the process and the CPU returns a syscall | a preemption accepted right after an INIT_PROC is read as CPU_LISTA, and the Kernel and the CPU are out of step |
| `CortoPlazoDesorden.cfg` | `planificacion.c:489`, "cambio de estado ordenadamente" | `frenar_y_restar_cronometros` stores the estimate of a process that was sorted into READY since it loaded it, and READY is out of order |
| `CortoPlazoNulo.cfg` | `planificacion.c:408`, the CPUs "con sus respectivos procesos" | a CPU that is taken but not assigned yet, or about to be offered, has none: the planner dereferences NULL |
| `memoria_solapada` | `SWAP.c:82`, a semaphore should protect the list | suspension locks its `list_add`, resumption does not lock its removal: a record can be lost |
| `MemoriaJunta.cfg` | `SWAP.c:192`, what was read from swap goes to "los marcos físicos del proceso" | a resumption that overlaps the suspension of its process copies them into the frames the suspension is about to free |
| `MemoriaTamCero.cfg` | the test `PLANI_CORTO_PLAZO` starts processes of size 0 that do IO | its suspension is confirmed but not registered, and resumption never finds it |
| `cpu_cache_marco` | `traduccion.c:61`, what comes is "el numero de marco unicamente" | the reply to the page CLOCK-M wrote back is taken for it |
| `CpuCacheLectura.cfg` | the test `MEMORIA_BASE` writes pages and reads them back | CLOCK writes the page that leaves to the frame of the one that comes in, and what it writes is an address |
| `CpuTlbAjena.cfg` | `traduccion.c:9`, traduccion returns the physical address | the TLB is keyed by page and kept on IO: the next process gets the frame of the one before |
| `CpuDireccion.cfg` | `servidor_memoria.c:204`, the address received is absolute | READ and WRITE send the program's address, not the translated one |

Met while modelling, without a run of their own:
- each emptying of the page cache frees the contents of every entry and keeps the pointer (`cache.c:277`): an entry not loaded since is freed twice, at the next EXIT;
- a timer thread reads its pcb when it starts and when it wakes (`planificacion.c:244`, `:248`), also when the process ended and the pcb was freed;
- with PMCP, besides `proximo_a_consultar`, a process that reached SUSP_READY without being swapped out is refused for ever while NEW waits behind it, and two requests for frames that refuse
  each other may leave both planners asleep: the two other ways to stop of `TerminanSalvoOlvido`;
- with two devices, even under "separada", a process whose burst ended keeps a NULL name while it is still in BLOCKED, and the other device's
  `strcmp` reads it (`planificacion.c:765`, `conexiones.c:191`);
- a process blocked by DUMP_MEMORY is in BLOCKED with a name nobody wrote, and a device that looks for its next process compares with it: it may read garbage
  that differs, that kills the Kernel, or that equals its name: it takes the process, which is then served and dumped at once, and after the dump
  another device may take it again in its next IO (`KernelDumpDispositivo.cfg`);
- posts of SUSP_READY_SIN_PROCESOS accumulate, so the long term planner may go on while SUSP_READY is not empty, against the
  comment at `planificacion.c:26`;
- a page from ENTRADAS_POR_TABLA on is translated to the frame of another page of the same process, because each level entry is
  looked up as if it were a page;
- no clock moves its pointer past the entry it replaced (the advance is commented out, `cache.c:241` and `:255`), and a hit on READ clears the
  modified bit (`cache.c:17`), so that a page written before is evicted without being written back;
- with preemption a CPU that connects while processes run posts no REPLANIFICAR (`Tarde = TRUE` violates `ReplanificarAlcanza`): it idles beside a
  queue that is not empty until something else is replanned;
- `dump_memoria_proceso` copies from `pid * tamanio` on (`procesos.c:125`), not the frames of the process;
- two admissions that each fit alone may both be refused; the record of a process that ends while suspended stays in
  `procesos_swap`.

## 7. What is left out, and why

- *Kernel*: reading of the configuration, logs and metrics; two INIT_PROC with one pid
  (pids are unique in the model); the chunk of a freed pcb given to another one while a timer still has it. Disconnection of devices: it frees list nodes and walks queues without their mutexes, so that anything may follow it, and a model
  would promise nothing. The DUMP request is sent before the CPU is
  released and answered after it: the two commute, and it is one action. Which free CPU is chosen, whether a dump is
  rejected and which syscalls a program issues are left open. The three choices of planner are modelled apart: `Kernel` (FIFO, FIFO), `Pmcp` (admission), `CortoPlazo` (short term); they
  meet in READY and in the frames, which each one has in its own way. `CortoPlazo` has no DUMP_MEMORY, and stops at a loss of step.
- *Memory*: in `Memoria`, two requests about one process at the same time (`MemoriaJunta` has the suspension and the resumption); failures of `malloc` and of opening the swap file, dump contents (`procesos.c:125` copies from the wrong place),
  metrics. CPU writes go to the frame the table gives, so that `ContenidoPreservado` is about the memory
  module alone. Frames are not cleared on admission, in the model as in the code.
- *CPU*: the program counter and GOTO (programs are any sequence of instructions), ENTRADAS_TLB = 0, which has no state, a READ past the end of the memory, which the memory module
  never answers, what a CPU does once it is "perdida". `Traduccion` has ENTRADAS_CACHE = 0 and no sockets; `Cache` has both, with the frames of a process fixed until its end (no swap: `Memoria` and
  `Traduccion` have it).
- *Wire protocol*: TCP delivers whole messages in order, and sockets are queues of them; what is read where is in `Cache` and `CortoPlazo`. The layout of the packages of `utils.c` is left out: each reader takes out what
  its sender put in, in the same order, and no property depends on it.
- *IO*: the sleep of the burst is a step; SIGINT belongs with disconnections.
