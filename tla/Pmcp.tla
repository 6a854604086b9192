------------------------------- MODULE Pmcp ---------------------------------
(***************************************************************************)
(* The admission planners by size (ALGORITMO_INGRESO_A_READY = PMCP): the    *)
(* long term planner over NEW, the medium term planner over SUSP_READY, both *)
(* sorted by size, and proximo_a_consultar, the one process that either may  *)
(* ask the memory module about.                                             *)
(*                                                                         *)
(* What a process does once it is in (READY, EXEC, BLOCKED) is in Kernel;    *)
(* here it creates others, blocks for long enough to be suspended and comes  *)
(* back, or ends.  An action is a critical section of a queue, with the      *)
(* posts that follow it: nobody can tell when a post is made, only when it  *)
(* is used.                                                                 *)
(***************************************************************************)
EXTENDS Integers, FiniteSets, SequencesExt

CONSTANTS
    Procs, ProcesoInicial,
    Nadie,            \* no process
    Tam,              \* frames each process needs
    Marcos,           \* frames there are
    MaxSuspensiones   \* bound: times each process blocks for too long

\* The thread of planificador_mediano_plazo, which suspends; those that end a
\* process are named after it.
Suspensor == "planificador_mediano_plazo"

ASSUME PmcpAssumption ==
    /\ ProcesoInicial \in Procs
    /\ {Nadie, Suspensor} \cap Procs = {}
    /\ Marcos \in Nat
    /\ Tam \in [Procs -> 0 .. Marcos]
    /\ MaxSuspensiones \in [Procs -> Nat]

VARIABLES
    nuevos,           \* colaEstados[NEW]
    suspListos,       \* colaEstados[SUSP_READY]
    proximo,          \* proximo_a_consultar
    lugar,            \* where each process is
    libres,           \* free frames of the memory module
    enSwap,           \* processes with a record in procesos_swap
    enNew, enSuspReady,             \* CANTIDAD_DE_PROCESOS_EN[NEW], [SUSP_READY]
    intentarNew, intentarSuspReady, \* INTENTAR_INICIAR_NEW, _SUSP_READY
    sinProcesos,      \* SUSP_READY_SIN_PROCESOS
    enSuspBlocked,    \* CANTIDAD_DE_PROCESOS_EN[SUSP_BLOCKED]
    marcados,         \* processes with debe_ser_suspendido
    elegido,          \* the one whose suspension is asked for
    largo, mediano,   \* the two planners
    intento,          \* the calls of intentar_iniciar
    estorbo,          \* ghost: the last two requests for frames refused each other
    suspensiones      \* how often each process blocked for too long

colas == <<nuevos, suspListos>>
semNew == <<enNew, intentarNew>>
semSusp == <<enSuspReady, intentarSuspReady, sinProcesos>>
planis == <<largo, mediano>>
memoria == <<libres, enSwap>>
bloqueo == <<enSuspBlocked, marcados, elegido, suspensiones>>

vars == <<colas, proximo, lugar, memoria, semNew, semSusp, bloqueo, planis, intento, estorbo>>

Hilos == Procs \cup {Suspensor}

Duerme == [pc |-> "duerme", proc |-> Nadie]

\* transicionar_a_new put the first process there before any thread started.
Init ==
    /\ nuevos = <<ProcesoInicial>> /\ suspListos = <<>>
    /\ proximo = ProcesoInicial
    /\ lugar = [p \in Procs |-> IF p = ProcesoInicial THEN "NEW" ELSE "sin crear"]
    /\ libres = Marcos /\ enSwap = {}
    /\ enNew = 1 /\ intentarNew = 1
    /\ enSuspReady = 0 /\ intentarSuspReady = 0 /\ sinProcesos = 0
    /\ largo = Duerme /\ mediano = Duerme
    /\ enSuspBlocked = 0 /\ marcados = {} /\ elegido = Nadie
    /\ intento = [h \in Hilos |-> "no"]
    /\ estorbo = FALSE
    /\ suspensiones = [p \in Procs |-> 0]

-----------------------------------------------------------------------------
(* Queues sorted by size, and the process to ask about.                    *)

\* list_add_sorted: after every smaller process and before every greater one.
Ordenadas(cola, p) ==
    {InsertAt(cola, i, p) : i \in {i \in 1 .. Len(cola) + 1 :
        /\ \A j \in 1 .. i - 1 : Tam[cola[j]] <= Tam[p]
        /\ \A j \in i .. Len(cola) : Tam[p] <= Tam[cola[j]]}}

\* Mutant: it is left as it is.
SinActualizar(cola) == proximo

\* actualizar_proximo_a_consultar
Actualizado(cola) == IF cola = <<>> THEN proximo ELSE Head(cola)

\* The pcb is freed once the thread that ends the process tried to start another;
\* what is read there afterwards may be anything.
Liberado(p) == p \in Procs /\ lugar[p] = "termino" /\ intento[p] = "no"

EsElProximo(p) == proximo = p \/ Liberado(proximo)
NoEsElProximo(p) == proximo # p

\* mx_usar_cola_estado is held while a planner waits for the memory module.
Consultas == {"pregunta", "aceptado", "rechazado"}
NewLibre == largo.pc \notin Consultas
SuspReadyLibre == mediano.pc \notin Consultas

-----------------------------------------------------------------------------
(* Processes.                                                              *)

\* Mutant: the queue is not locked.
TransicionarSinMutex(p) ==
    /\ lugar[p] = "sin crear"
    /\ \E q \in Procs : lugar[q] = "adentro"
    /\ lugar' = [lugar EXCEPT ![p] = "NEW"]
    /\ nuevos' \in Ordenadas(nuevos, p)
    /\ proximo' = p
    /\ intentarNew' = intentarNew + 1 /\ enNew' = enNew + 1
    /\ UNCHANGED <<suspListos, memoria, semSusp, bloqueo, planis, intento, estorbo>>

\* transicionar_a_new, from the INIT_PROC of a process that runs.
TransicionarANew(p) ==
    /\ lugar[p] = "sin crear"
    /\ \E q \in Procs : lugar[q] = "adentro"
    /\ NewLibre
    /\ lugar' = [lugar EXCEPT ![p] = "NEW"]
    /\ nuevos' \in Ordenadas(nuevos, p)
    /\ proximo' = p
    /\ intentarNew' = intentarNew + 1 /\ enNew' = enNew + 1
    /\ UNCHANGED <<suspListos, memoria, semSusp, bloqueo, planis, intento, estorbo>>

\* funcion_para_bloqueados: the burst lasts longer than TIEMPO_SUSPENSION.
Demorar(p) ==
    /\ lugar[p] = "adentro"
    /\ suspensiones[p] < MaxSuspensiones[p]
    /\ suspensiones' = [suspensiones EXCEPT ![p] = @ + 1]
    /\ lugar' = [lugar EXCEPT ![p] = "SUSP_BLOCKED"]
    /\ marcados' = marcados \cup {p}
    /\ enSuspBlocked' = enSuspBlocked + 1
    /\ UNCHANGED <<colas, proximo, memoria, semNew, semSusp, elegido, planis, intento, estorbo>>

\* transicionar_a_susp_ready, when the burst ends, whatever became of the
\* suspension: it is the next to ask about before it is in the queue.
LlegaASuspReady(p) ==
    /\ lugar[p] = "SUSP_BLOCKED"
    /\ lugar' = [lugar EXCEPT ![p] = "llega"]
    /\ proximo' = p
    /\ UNCHANGED <<colas, memoria, semNew, semSusp, bloqueo, planis, intento, estorbo>>

TransicionarASuspReady(p) ==
    /\ lugar[p] = "llega"
    /\ SuspReadyLibre
    /\ lugar' = [lugar EXCEPT ![p] = "SUSP_READY"]
    /\ suspListos' \in Ordenadas(suspListos, p)
    /\ intentarSuspReady' = intentarSuspReady + 1 /\ enSuspReady' = enSuspReady + 1
    /\ UNCHANGED <<nuevos, proximo, memoria, semNew, sinProcesos, bloqueo, planis, intento, estorbo>>

\* finalizar_proceso, up to the confirmation of the memory module.
Finalizar(p) ==
    /\ lugar[p] = "adentro"
    /\ lugar' = [lugar EXCEPT ![p] = "termino"]
    /\ libres' = libres + Tam[p]
    /\ intento' = [intento EXCEPT ![p] = "mira"]
    /\ UNCHANGED <<colas, proximo, enSwap, semNew, semSusp, bloqueo, planis, estorbo>>

-----------------------------------------------------------------------------
(* planificador_mediano_plazo, which suspends one process at a time.         *)

\* Processes buscar_proceso_a_suspender may find.
PorSuspender == {p \in marcados : lugar[p] = "SUSP_BLOCKED"}

ElegirASuspender ==
    /\ elegido = Nadie /\ intento[Suspensor] = "no"
    /\ enSuspBlocked > 0 /\ enSuspBlocked' = enSuspBlocked - 1
    /\ \E p \in PorSuspender : elegido' = p /\ marcados' = marcados \ {p}
    /\ UNCHANGED <<colas, proximo, lugar, memoria, semNew, semSusp, suspensiones, planis, intento, estorbo>>

\* The burst of the one it was woken for ended first.
NadieASuspender ==
    /\ elegido = Nadie /\ intento[Suspensor] = "no"
    /\ enSuspBlocked > 0 /\ enSuspBlocked' = enSuspBlocked - 1
    /\ PorSuspender = {}
    /\ UNCHANGED <<colas, proximo, lugar, memoria, semNew, semSusp, marcados, elegido, suspensiones, planis,
                   intento, estorbo>>

\* SUSPENDER_PROCESO: the memory module swaps it out, wherever it is by now.  One
\* without frames is confirmed too, and not registered.
Suspender ==
    /\ elegido # Nadie
    /\ libres' = libres + Tam[elegido]
    /\ enSwap' = IF Tam[elegido] > 0 THEN enSwap \cup {elegido} ELSE enSwap
    /\ elegido' = Nadie
    /\ intento' = [intento EXCEPT ![Suspensor] = "mira"]
    /\ UNCHANGED <<colas, proximo, lugar, semNew, semSusp, enSuspBlocked, marcados, suspensiones, planis,
                   estorbo>>

-----------------------------------------------------------------------------
(* intentar_iniciar: a look at SUSP_READY without its mutex, then a post.    *)

IntentarMira(h) ==
    /\ intento[h] = "mira"
    /\ intento' = [intento EXCEPT ![h] = IF suspListos # <<>> THEN "SUSP_READY" ELSE "NEW"]
    /\ UNCHANGED <<colas, proximo, lugar, memoria, semNew, semSusp, bloqueo, planis, estorbo>>

IntentarIniciarSuspReady(h) ==
    /\ intento[h] = "SUSP_READY"
    /\ SuspReadyLibre
    /\ proximo' = Actualizado(suspListos)
    /\ intentarSuspReady' = intentarSuspReady + 1
    /\ intento' = [intento EXCEPT ![h] = "no"]
    /\ UNCHANGED <<colas, lugar, memoria, semNew, enSuspReady, sinProcesos, bloqueo, planis, estorbo>>

IntentarIniciarNew(h) ==
    /\ intento[h] = "NEW"
    /\ NewLibre
    /\ proximo' = Actualizado(nuevos)
    /\ intentarNew' = intentarNew + 1
    /\ intento' = [intento EXCEPT ![h] = "no"]
    /\ UNCHANGED <<colas, lugar, memoria, enNew, semSusp, bloqueo, planis, estorbo>>

-----------------------------------------------------------------------------
(* planificador_largo_plazo_proceso_mas_chico_primero                      *)

LargoDespierta ==
    /\ largo.pc = "duerme"
    /\ enNew > 0 /\ enNew' = enNew - 1
    /\ intentarNew > 0 /\ intentarNew' = intentarNew - 1
    /\ largo' = [largo EXCEPT !.pc = IF suspListos # <<>> THEN "esperaVacia" ELSE "consulta"]
    /\ UNCHANGED <<colas, proximo, lugar, memoria, semSusp, bloqueo, mediano, intento, estorbo>>

LargoEsperaVacia ==
    /\ largo.pc = "esperaVacia"
    /\ sinProcesos > 0 /\ sinProcesos' = sinProcesos - 1
    /\ largo' = [largo EXCEPT !.pc = "consulta"]
    /\ UNCHANGED <<colas, proximo, lugar, memoria, semNew, enSuspReady, intentarSuspReady, bloqueo,
                   mediano, intento, estorbo>>

\* The queue is locked, and its first process is the one to ask about.
LargoPregunta ==
    /\ largo.pc = "consulta"
    /\ EsElProximo(Head(nuevos))
    /\ largo' = [pc |-> "pregunta", proc |-> Head(nuevos)]
    /\ UNCHANGED <<colas, proximo, lugar, memoria, semNew, semSusp, bloqueo, mediano, intento, estorbo>>

\* The memory module makes room for it.
LargoAceptado ==
    /\ largo.pc = "pregunta"
    /\ Tam[largo.proc] <= libres
    /\ libres' = libres - Tam[largo.proc]
    /\ largo' = [largo EXCEPT !.pc = "aceptado"]
    /\ estorbo' = FALSE
    /\ UNCHANGED <<colas, proximo, lugar, enSwap, semNew, semSusp, bloqueo, mediano, intento>>

\* It is not the one to ask about, or there is no room: the process stays.
LargoRechaza ==
    \/ largo.pc = "consulta" /\ NoEsElProximo(Head(nuevos))
    \/ largo.pc = "pregunta" /\ Tam[largo.proc] > libres
    \/ largo.pc = "rechazado"

\* Mutant: the token of the process that stays is not given back.
LargoRechazadoSinPost ==
    /\ LargoRechaza
    /\ largo' = Duerme
    /\ UNCHANGED <<colas, proximo, lugar, memoria, semNew, semSusp, bloqueo, mediano, intento, estorbo>>

LargoRechazado ==
    /\ LargoRechaza
    /\ enNew' = enNew + 1
    /\ largo' = Duerme
    /\ UNCHANGED <<colas, proximo, lugar, memoria, intentarNew, semSusp, bloqueo, mediano, intento,
                   estorbo>>

LargoAdmite ==
    /\ largo.pc = "aceptado"
    /\ nuevos' = Tail(nuevos)
    /\ lugar' = [lugar EXCEPT ![Head(nuevos)] = "adentro"]
    /\ proximo' = Actualizado(Tail(nuevos))
    /\ intentarNew' = IF Tail(nuevos) # <<>> THEN intentarNew + 1 ELSE intentarNew
    /\ largo' = Duerme
    /\ UNCHANGED <<suspListos, memoria, enNew, semSusp, bloqueo, mediano, intento, estorbo>>

-----------------------------------------------------------------------------
(* planificador_mediano_plazo_proceso_mas_chico_primero                    *)

MedianoDespierta ==
    /\ mediano.pc = "duerme"
    /\ enSuspReady > 0 /\ enSuspReady' = enSuspReady - 1
    /\ intentarSuspReady > 0 /\ intentarSuspReady' = intentarSuspReady - 1
    /\ mediano' = [mediano EXCEPT !.pc = "consulta"]
    /\ UNCHANGED <<colas, proximo, lugar, memoria, semNew, sinProcesos, bloqueo, largo, intento,
                   estorbo>>

MedianoPregunta ==
    /\ mediano.pc = "consulta"
    /\ EsElProximo(Head(suspListos))
    /\ mediano' = [pc |-> "pregunta", proc |-> Head(suspListos)]
    /\ UNCHANGED <<colas, proximo, lugar, memoria, semNew, semSusp, bloqueo, largo, intento, estorbo>>

\* desuspender_proceso finds the record, and there is room.
MedianoAceptado ==
    /\ mediano.pc = "pregunta"
    /\ mediano.proc \in enSwap
    /\ Tam[mediano.proc] <= libres
    /\ libres' = libres - Tam[mediano.proc]
    /\ enSwap' = enSwap \ {mediano.proc}
    /\ mediano' = [mediano EXCEPT !.pc = "aceptado"]
    /\ estorbo' = FALSE
    /\ UNCHANGED <<colas, proximo, lugar, semNew, semSusp, bloqueo, largo, intento>>

\* The process may also be there without having been swapped out.
MedianoRechaza ==
    \/ mediano.pc = "consulta" /\ NoEsElProximo(Head(suspListos))
    \/ mediano.pc = "pregunta" /\ (mediano.proc \notin enSwap \/ Tam[mediano.proc] > libres)
    \/ mediano.pc = "rechazado"

MedianoRechazado ==
    /\ MedianoRechaza
    /\ enSuspReady' = enSuspReady + 1
    /\ mediano' = Duerme
    /\ UNCHANGED <<colas, proximo, lugar, memoria, semNew, intentarSuspReady, sinProcesos, bloqueo,
                   largo, intento, estorbo>>

\* It posts for the next one twice; when there is none the long term planner may go on.
MedianoAdmite ==
    /\ mediano.pc = "aceptado"
    /\ suspListos' = Tail(suspListos)
    /\ lugar' = [lugar EXCEPT ![Head(suspListos)] = "adentro"]
    /\ intentarSuspReady' = intentarSuspReady + 2
    /\ IF Tail(suspListos) = <<>>
       THEN proximo' = Actualizado(nuevos) /\ sinProcesos' = sinProcesos + 1
       ELSE proximo' = Actualizado(Tail(suspListos)) /\ UNCHANGED sinProcesos
    /\ mediano' = Duerme
    /\ UNCHANGED <<nuevos, memoria, semNew, enSuspReady, bloqueo, largo, intento, estorbo>>

\* inicializar_proceso counts the free frames and takes them one by one: both are
\* told that they fit, neither gets its last frame, and both give theirs back.
SeEstorban ==
    /\ largo.pc = "pregunta" /\ mediano.pc = "pregunta"
    /\ mediano.proc \in enSwap
    /\ Tam[largo.proc] <= libres /\ Tam[mediano.proc] <= libres
    /\ (Tam[largo.proc] - 1) + (Tam[mediano.proc] - 1) >= libres
    /\ libres > 0
    /\ largo' = [largo EXCEPT !.pc = "rechazado"]
    /\ mediano' = [mediano EXCEPT !.pc = "rechazado"]
    /\ estorbo' = TRUE
    /\ UNCHANGED <<colas, proximo, lugar, memoria, semNew, semSusp, bloqueo, intento>>

-----------------------------------------------------------------------------

Largo ==
    \/ LargoDespierta \/ LargoEsperaVacia \/ LargoPregunta
    \/ LargoAceptado \/ LargoRechazado \/ LargoAdmite
Mediano ==
    \/ MedianoDespierta \/ MedianoPregunta \/ MedianoAceptado
    \/ MedianoRechazado \/ MedianoAdmite
IntentarIniciar(h) == IntentarMira(h) \/ IntentarIniciarSuspReady(h) \/ IntentarIniciarNew(h)
FinDeRafaga(p) == LlegaASuspReady(p) \/ TransicionarASuspReady(p)
Suspension == ElegirASuspender \/ NadieASuspender \/ Suspender

Next ==
    \/ \E p \in Procs : TransicionarANew(p) \/ Demorar(p) \/ FinDeRafaga(p) \/ Finalizar(p)
    \/ \E h \in Hilos : IntentarIniciar(h)
    \/ Suspension \/ Largo \/ Mediano \/ SeEstorban

Spec == Init /\ [][Next]_vars

\* Every thread goes on while it can, bursts end, and so do programs.
FairSpec ==
    /\ Spec
    /\ WF_vars(Largo) /\ WF_vars(Mediano) /\ WF_vars(Suspension)
    /\ \A h \in Hilos : WF_vars(IntentarIniciar(h))
    /\ \A p \in Procs : WF_vars(FinDeRafaga(p)) /\ WF_vars(Finalizar(p))

-----------------------------------------------------------------------------
(* Properties.                                                             *)

Despierto(plani) == IF plani.pc = "duerme" THEN 0 ELSE 1

\* Where a process is, where the threads are.
Lugares == {"sin crear", "NEW", "adentro", "SUSP_BLOCKED", "llega", "SUSP_READY", "termino"}
Medianos == [pc : {"duerme", "consulta", "pregunta", "aceptado", "rechazado"}, proc : Procs \cup {Nadie}]
Largos == Medianos \cup [pc : {"esperaVacia"}, proc : Procs \cup {Nadie}]
Intentos == {"no", "mira", "SUSP_READY", "NEW"}

\* Every variable has its type.
TypeOK ==
    /\ nuevos \in Seq(Procs) /\ suspListos \in Seq(Procs)
    /\ proximo \in Procs
    /\ lugar \in [Procs -> Lugares]
    /\ libres \in Int /\ enSwap \subseteq Procs
    /\ enNew \in Nat /\ enSuspReady \in Nat
    /\ intentarNew \in Nat /\ intentarSuspReady \in Nat /\ sinProcesos \in Nat
    /\ largo \in Largos
    /\ mediano \in Medianos
    /\ intento \in [Hilos -> Intentos]
    /\ enSuspBlocked \in Nat /\ marcados \subseteq Procs /\ elegido \in Procs \cup {Nadie}
    /\ estorbo \in BOOLEAN
    /\ suspensiones \in [Procs -> Nat]

\* The semaphores of NEW and SUSP_READY count their queues, minus the process that
\* each planner deals with: a planner never takes the pid of the first process of an
\* empty queue, whichever of its four ways back to sleep it takes.
FichasDeAdmision ==
    /\ Len(nuevos) = enNew + Despierto(largo)
    /\ Len(suspListos) = enSuspReady + Despierto(mediano)

\* Queues are sorted by size and processes arrive at any time, so a smaller one may
\* come in at the front while the memory module is asked: the process a planner takes
\* out is still the one it asked about.
AdmiteAlConsultado ==
    /\ largo.pc \in Consultas => nuevos # <<>> /\ Head(nuevos) = largo.proc
    /\ mediano.pc \in Consultas => suspListos # <<>> /\ Head(suspListos) = mediano.proc

\* The first of SUSP_READY is not the one to ask about.
Olvidado == suspListos # <<>> /\ proximo # Head(suspListos)

\* One that the suspending planner did not choose in time is in SUSP_READY, with its
\* frames, and the memory module has nothing to bring back.
SinSuspender == \E p \in Procs : lugar[p] = "SUSP_READY" /\ p \notin enSwap

\* Every process that was created ends, unless from some point on the first of
\* SUSP_READY is forgotten, some process is there that was never swapped out, or the
\* last requests of both planners refused each other: nothing else in these threads
\* stops them.  In particular every wakeup that intentar_iniciar gives to one planner
\* only, after a look without a mutex, is enough.
TerminanSalvoOlvido ==
    <>[](Olvidado \/ SinSuspender \/ estorbo \/ \A p \in Procs : lugar[p] \in {"sin crear", "termino"})

\* planificacion.c:80, "si no hay nada espera a que llegue un proceso": only then; a
\* process that is in SUSP_READY, with or without others, comes back.
SuspReadyVuelve == \A p \in Procs : lugar[p] = "SUSP_READY" ~> lugar[p] # "SUSP_READY"

=============================================================================
