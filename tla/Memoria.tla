------------------------------ MODULE Memoria ------------------------------
(***************************************************************************)
(* The memory module: frames, page tables, the list of resident processes,  *)
(* the swap file with its two lists, and one thread per request of the      *)
(* Kernel, which has one thread of its own for each of admission, resumption *)
(* and suspension.                                                         *)
(*                                                                         *)
(* Requests are indexed by the process they are about, so this module covers *)
(* the runs in which no request about a process is sent before the previous  *)
(* one about it was answered (UnoPorProceso).  That is a restriction of the  *)
(* model: nothing in the Kernel keeps a resumption from being sent while the *)
(* suspension of the same process is at work (planificacion.c:202-209 and    *)
(* 221-225).  MemoriaJunta adds that overlap.                              *)
(*                                                                         *)
(* One action is one critical section, one unprotected access to a shared   *)
(* list or one access to the swap file.  Failures of malloc and fopen on    *)
(* the swap file are left out; a program file that is missing is not.       *)
(***************************************************************************)
EXTENDS Integers, FiniteSets, SequencesExt

CONSTANTS
    Procs,            \* processes the Kernel may ask about
    Paginas,          \* pages, hence frames, each one needs
    Marcos,           \* cantidad_marcos
    SinArchivo,       \* processes whose pseudocode file does not exist
    MaxEscrituras,    \* bound: page writes of each process
    MaxSuspensiones,  \* bound: suspensions, of all processes together
    Solapan           \* may list operations without a mutex overlap?

ASSUME MemoriaAssumption ==
    /\ IsFiniteSet(Procs)
    /\ Paginas \in [Procs -> Nat]
    /\ Marcos \in Nat
    /\ SinArchivo \subseteq Procs
    /\ MaxEscrituras \in Nat
    /\ MaxSuspensiones \in Nat
    /\ Solapan \in BOOLEAN

VARIABLES
    ocupado,          \* frames with marcos[i].ocupado
    contenido,        \* memoria_usuario, one value per frame
    tabla,            \* frames in the page table of each process, in page order
    enMemoria,        \* procesos_en_memoria
    enSwap,           \* procesos_swap
    huecos,           \* huecos_swap
    archivo,          \* the swap file, one value per page
    pedido,           \* request in flight about each process
    pc,               \* step its thread is at
    buffer,           \* the thread's copy of the pages
    lugar,            \* the thread's offset in the swap file
    ultimo,           \* last node a list_add saw before linking its own
    vida,             \* what the Kernel was last told about the process
    escrito,          \* ghost: what each page of the process should hold
    escrituras,       \* page writes so far
    suspensiones      \* suspensions so far

fisica == <<ocupado, contenido>>
swap   == <<enSwap, huecos, archivo>>
hilos  == <<pedido, pc, buffer, lugar, ultimo>>
cuenta == <<escrituras, suspensiones>>
vars   == <<fisica, tabla, enMemoria, swap, hilos, vida, escrito, cuenta>>

NroMarcos == 0 .. Marcos - 1

\* A page holds the zeros of the start or the last thing written to it: which
\* process wrote it, to which page of its own, and which write it was.
Cero == <<>>
Datos == {Cero} \cup (Procs \X Nat \X (1 .. MaxEscrituras))

-----------------------------------------------------------------------------
(* Frames.                                                                 *)

Libres == NroMarcos \ ocupado

\* Mutants: the frame after the last one taken; one frame too many.
SiguientePorCuenta == Cardinality(ocupado) % Marcos
SiguienteUnoDeMas == Max(ocupado \cup {-1}) + 1

\* obtener_siguiente_marco_libre: the lowest free frame.
SiguienteMarcoLibre == CHOOSE m \in Libres : \A n \in Libres : m <= n

\* What the pages of p hold.
Contenidos(p) == [i \in DOMAIN tabla[p] |-> contenido[tabla[p][i]]]

(* Areas of the swap file.                                                 *)

Area(r) == r.offset .. r.offset + r.tam - 1

\* First hole where n pages fit, if any.
HuecosAptos(n) == {i \in DOMAIN huecos : huecos[i].tam >= n /\ \A j \in 1 .. i - 1 : huecos[j].tam < n}

\* Mutant: the hole is not moved forward.
AchicarSinMover(h, n) == [h EXCEPT !.tam = @ - n]

\* What is left of a hole after n of its pages were given away.
Achicar(h, n) == [h EXCEPT !.offset = @ + n, !.tam = @ - n]

\* The list of holes after n pages of the i-th one were given away.
HuecosTras(i, n) == IF huecos[i].tam > n THEN [huecos EXCEPT ![i] = Achicar(@, n)]
                    ELSE RemoveAt(huecos, i)

\* The file after writing "datos" at offset "o"; it grows if needed.
Grabar(datos, o) ==
    [i \in 1 .. (IF Len(archivo) < o + Len(datos) THEN o + Len(datos) ELSE Len(archivo)) |->
        IF i \in o + 1 .. o + Len(datos) THEN datos[i - o] ELSE archivo[i]]

\* Records of p in procesos_swap; the code takes the first one.
RegistrosDe(p) == {i \in DOMAIN enSwap : enSwap[i].pid = p}
PosRegistro(p) == CHOOSE i \in RegistrosDe(p) : \A j \in RegistrosDe(p) : i <= j
RegistroDe(p) == enSwap[PosRegistro(p)]

\* Mutant: the first record is removed, whoever it is about.
SinElPrimero(p) == Tail(enSwap)

\* procesos_swap without the record of p.
SinRegistro(p) == RemoveAt(enSwap, PosRegistro(p))

(* Threads.                                                                *)

En(p, paso) == pc[p] = paso
Pasa(p, paso) == pc' = [pc EXCEPT ![p] = paso]
EnVuelo(op) == \E p \in Procs : pedido[p] = op

\* A node of either list is told apart by where its area ends, which cutting a
\* hole from the front does not change; 0 stands for no node.
Fin(r) == r.offset + r.tam

\* list_add reads the last node and then links the new one after it.
Ultimo(lista) == IF lista = <<>> THEN 0 ELSE Fin(Last(lista))

\* Linking after a node that was taken out meanwhile loses the new one.
Enlazar(lista, visto, r) ==
    IF visto = 0 \/ \E i \in DOMAIN lista : Fin(lista[i]) = visto THEN Append(lista, r) ELSE lista

\* Nobody is in the middle of a list_add on the list that step links to.
Quieta(paso) == Solapan \/ \A q \in Procs : pc[q] # paso

-----------------------------------------------------------------------------
Init ==
    /\ ocupado = {}
    /\ contenido = [m \in NroMarcos |-> Cero]
    /\ tabla = [p \in Procs |-> <<>>]
    /\ enMemoria = {}
    /\ enSwap = <<>>
    /\ huecos = <<>>
    /\ archivo = <<>>
    /\ pedido = [p \in Procs |-> "nada"]
    /\ pc = [p \in Procs |-> "libre"]
    /\ buffer = [p \in Procs |-> <<>>]
    /\ lugar = [p \in Procs |-> 0]
    /\ ultimo = [p \in Procs |-> 0]
    /\ vida = [p \in Procs |-> "nuevo"]
    /\ escrito = [p \in Procs |-> <<>>]
    /\ escrituras = [p \in Procs |-> 0]
    /\ suspensiones = 0

(* Requests of the Kernel.                                                 *)

\* The restriction of this module: the previous request about p was answered.
UnoPorProceso(p) == pedido[p] = "nada"

\* A thread takes the request.
Recibir(p, op, paso) ==
    /\ pedido' = [pedido EXCEPT ![p] = op]
    /\ Pasa(p, paso)

PedirInicio(p) ==
    /\ UnoPorProceso(p)
    /\ vida[p] = "nuevo"
    /\ ~EnVuelo("INICIALIZAR_PROCESO_DESDE_NEW")
    /\ Recibir(p, "INICIALIZAR_PROCESO_DESDE_NEW", "contando")
    /\ UNCHANGED <<fisica, tabla, enMemoria, swap, buffer, lugar, ultimo, vida, escrito, cuenta>>

\* desuspender_proceso finds the record and reads the file.
PedirReanudacion(p) ==
    /\ UnoPorProceso(p)
    /\ vida[p] = "suspendido"
    /\ ~EnVuelo("INICIALIZAR_PROCESO_SUSPENDIDO")
    /\ RegistrosDe(p) # {}
    /\ Recibir(p, "INICIALIZAR_PROCESO_SUSPENDIDO", "contando")
    /\ buffer' = [buffer EXCEPT ![p] =
                    SubSeq(archivo, RegistroDe(p).offset + 1, Fin(RegistroDe(p)))]
    /\ UNCHANGED <<fisica, tabla, enMemoria, swap, lugar, ultimo, vida, escrito, cuenta>>

PedirReanudacionSinRegistro(p) ==
    /\ UnoPorProceso(p)
    /\ vida[p] = "suspendido"
    /\ ~EnVuelo("INICIALIZAR_PROCESO_SUSPENDIDO")
    /\ RegistrosDe(p) = {}
    /\ Recibir(p, "INICIALIZAR_PROCESO_SUSPENDIDO", "rechaza")
    /\ UNCHANGED <<fisica, tabla, enMemoria, swap, buffer, lugar, ultimo, vida, escrito, cuenta>>

\* Mutant: every page is read from the first frame.
LeerPrimera(p) == [i \in DOMAIN tabla[p] |-> contenido[tabla[p][1]]]

LeerMarcos(p) == [i \in DOMAIN tabla[p] |-> contenido[tabla[p][i]]]

\* suspender_proceso copies the frames.  A process without frames is left where
\* it is, and the answer is the same.
PedirSuspension(p) ==
    /\ UnoPorProceso(p)
    /\ vida[p] = "residente"
    /\ ~EnVuelo("SUSPENDER_PROCESO")
    /\ suspensiones < MaxSuspensiones
    /\ suspensiones' = suspensiones + 1
    /\ Recibir(p, "SUSPENDER_PROCESO", IF tabla[p] = <<>> THEN "confirma" ELSE "ubicando")
    /\ buffer' = [buffer EXCEPT ![p] = LeerMarcos(p)]
    /\ UNCHANGED <<fisica, tabla, enMemoria, swap, lugar, ultimo, vida, escrito, escrituras>>

\* finalizar_proceso; a suspended process is not in the list, and its swap area stays.
PedirFin(p) ==
    /\ UnoPorProceso(p)
    /\ vida[p] \in {"residente", "suspendido"}
    /\ Recibir(p, "FINALIZAR_PROCESO", IF p \in enMemoria THEN "soltando" ELSE "confirma")
    /\ enMemoria' = enMemoria \ {p}
    /\ UNCHANGED <<fisica, tabla, swap, buffer, lugar, ultimo, vida, escrito, cuenta>>

(* inicializar_proceso, for a new process and for one that comes back.     *)

\* Mutant: a process that needs exactly what is left is refused.
AlcanzaConSobra(p) == Cardinality(Libres) > Paginas[p]

Alcanza(p) == Cardinality(Libres) >= Paginas[p]

Contar(p) ==
    /\ En(p, "contando")
    /\ Pasa(p, IF Alcanza(p) THEN "tomando" ELSE "rechaza")
    /\ UNCHANGED <<fisica, tabla, enMemoria, swap, pedido, buffer, lugar, ultimo, vida, escrito, cuenta>>

\* asignar_marcos_a_todas_las_paginas, one obtener_siguiente_marco_libre at a time.
TomarMarco(p) ==
    /\ En(p, "tomando")
    /\ Len(tabla[p]) < Paginas[p]
    /\ Libres # {}
    /\ ocupado' = ocupado \cup {SiguienteMarcoLibre}
    /\ tabla' = [tabla EXCEPT ![p] = Append(@, SiguienteMarcoLibre)]
    /\ UNCHANGED <<contenido, enMemoria, swap, hilos, vida, escrito, cuenta>>

\* Mutant: iniciar_proceso_paginacion returns NULL and gives nothing back.
SinMarcosSinSoltar(p) ==
    /\ En(p, "tomando")
    /\ Len(tabla[p]) < Paginas[p]
    /\ Libres = {}
    /\ Pasa(p, "rechaza")
    /\ UNCHANGED <<fisica, tabla, enMemoria, swap, pedido, buffer, lugar, ultimo, vida, escrito, cuenta>>

\* Another request took the frames that were counted.
SinMarcos(p) ==
    /\ En(p, "tomando")
    /\ Len(tabla[p]) < Paginas[p]
    /\ Libres = {}
    /\ Pasa(p, "soltando")
    /\ UNCHANGED <<fisica, tabla, enMemoria, swap, pedido, buffer, lugar, ultimo, vida, escrito, cuenta>>

\* generar_instrucciones_proceso returned NULL.
SinPrograma(p) ==
    /\ En(p, "tomando")
    /\ Len(tabla[p]) = Paginas[p]
    /\ p \in SinArchivo
    /\ Pasa(p, "soltando")
    /\ UNCHANGED <<fisica, tabla, enMemoria, swap, pedido, buffer, lugar, ultimo, vida, escrito, cuenta>>

\* list_add to procesos_en_memoria.  Frames are not cleared.
Alta(p) ==
    /\ En(p, "tomando")
    /\ Len(tabla[p]) = Paginas[p]
    /\ p \notin SinArchivo
    /\ enMemoria' = enMemoria \cup {p}
    /\ IF pedido[p] = "INICIALIZAR_PROCESO_DESDE_NEW"
       THEN /\ Pasa(p, "acepta")
            /\ escrito' = [escrito EXCEPT ![p] = Contenidos(p)]
       ELSE /\ Pasa(p, "copiando")
            /\ UNCHANGED escrito
    /\ UNCHANGED <<fisica, tabla, swap, pedido, buffer, lugar, ultimo, vida, cuenta>>

(* The rest of desuspender_proceso.                                        *)

CopiarAMarcos(p) ==
    /\ En(p, "copiando")
    /\ contenido' = [m \in NroMarcos |->
                        IF \E i \in DOMAIN tabla[p] : tabla[p][i] = m
                        THEN buffer[p][CHOOSE i \in DOMAIN tabla[p] : tabla[p][i] = m]
                        ELSE contenido[m]]
    /\ Pasa(p, "devolviendo")
    /\ UNCHANGED <<ocupado, tabla, enMemoria, swap, pedido, buffer, lugar, ultimo, vida, escrito, cuenta>>

\* list_add(huecos_swap, hueco), without a mutex.
DevolverHueco(p) ==
    /\ En(p, "devolviendo")
    /\ ultimo' = [ultimo EXCEPT ![p] = Ultimo(huecos)]
    /\ Pasa(p, "enlazandoHueco")
    /\ UNCHANGED <<fisica, tabla, enMemoria, swap, pedido, buffer, lugar, vida, escrito, cuenta>>

EnlazarHueco(p) ==
    /\ En(p, "enlazandoHueco")
    /\ huecos' = Enlazar(huecos, ultimo[p], [offset |-> RegistroDe(p).offset, tam |-> RegistroDe(p).tam])
    /\ Pasa(p, "olvidando")
    /\ UNCHANGED <<fisica, tabla, enMemoria, enSwap, archivo, pedido, buffer, lugar, ultimo, vida, escrito, cuenta>>

\* list_remove_element(procesos_swap, pswap), without a mutex.
OlvidarRegistro(p) ==
    /\ En(p, "olvidando")
    /\ Quieta("enlazandoRegistro")
    /\ enSwap' = SinRegistro(p)
    /\ Pasa(p, "acepta")
    /\ UNCHANGED <<fisica, tabla, enMemoria, huecos, archivo, pedido, buffer, lugar, ultimo, vida, escrito, cuenta>>

(* The rest of suspender_proceso.                                          *)

\* buscar_espacio_libre_swap: first fit, or the end of the file.
UbicarEnHueco(p) ==
    /\ En(p, "ubicando")
    /\ Quieta("enlazandoHueco")
    /\ \E i \in HuecosAptos(Len(buffer[p])) :
          /\ lugar' = [lugar EXCEPT ![p] = huecos[i].offset]
          /\ huecos' = HuecosTras(i, Len(buffer[p]))
    /\ Pasa(p, "grabando")
    /\ UNCHANGED <<fisica, tabla, enMemoria, enSwap, archivo, pedido, buffer, ultimo, vida, escrito, cuenta>>

UbicarAlFinal(p) ==
    /\ En(p, "ubicando")
    /\ HuecosAptos(Len(buffer[p])) = {}
    /\ lugar' = [lugar EXCEPT ![p] = Len(archivo)]
    /\ Pasa(p, "grabando")
    /\ UNCHANGED <<fisica, tabla, enMemoria, swap, pedido, buffer, ultimo, vida, escrito, cuenta>>

EscribirEnSwap(p) ==
    /\ En(p, "grabando")
    /\ archivo' = Grabar(buffer[p], lugar[p])
    /\ Pasa(p, "registrando")
    /\ UNCHANGED <<fisica, tabla, enMemoria, enSwap, huecos, pedido, buffer, lugar, ultimo, vida, escrito, cuenta>>

\* list_add(procesos_swap, pswap); only this side takes mutex_swap.
Registrar(p) ==
    /\ En(p, "registrando")
    /\ ultimo' = [ultimo EXCEPT ![p] = Ultimo(enSwap)]
    /\ Pasa(p, "enlazandoRegistro")
    /\ UNCHANGED <<fisica, tabla, enMemoria, swap, pedido, buffer, lugar, vida, escrito, cuenta>>

\* ... and finalizar_proceso takes the process out of procesos_en_memoria.
EnlazarRegistro(p) ==
    /\ En(p, "enlazandoRegistro")
    /\ enSwap' = Enlazar(enSwap, ultimo[p], [pid |-> p, offset |-> lugar[p], tam |-> Len(buffer[p])])
    /\ enMemoria' = enMemoria \ {p}
    /\ Pasa(p, "soltando")
    /\ UNCHANGED <<fisica, tabla, huecos, archivo, pedido, buffer, lugar, ultimo, vida, escrito, cuenta>>

(* destruir_tabla_y_marcos and the answer.                                 *)

LiberarMarco(p) ==
    /\ En(p, "soltando")
    /\ tabla[p] # <<>>
    /\ ocupado' = ocupado \ {Head(tabla[p])}
    /\ tabla' = [tabla EXCEPT ![p] = Tail(@)]
    /\ UNCHANGED <<contenido, enMemoria, swap, hilos, vida, escrito, cuenta>>

Entra(p) == pedido[p] \in {"INICIALIZAR_PROCESO_DESDE_NEW", "INICIALIZAR_PROCESO_SUSPENDIDO"}

TablaDestruida(p) ==
    /\ En(p, "soltando")
    /\ tabla[p] = <<>>
    /\ Pasa(p, IF Entra(p) THEN "rechaza" ELSE "confirma")
    /\ UNCHANGED <<fisica, tabla, enMemoria, swap, pedido, buffer, lugar, ultimo, vida, escrito, cuenta>>

Contestar(p) ==
    /\ pc[p] \in {"acepta", "rechaza", "confirma"}
    /\ Pasa(p, "libre")
    /\ pedido' = [pedido EXCEPT ![p] = "nada"]
    /\ vida' = [vida EXCEPT ![p] = CASE pc[p] = "acepta" -> "residente"
                                     [] pc[p] = "rechaza" -> @
                                     [] pedido[p] = "SUSPENDER_PROCESO" -> "suspendido"
                                     [] OTHER -> "fin"]
    /\ buffer' = [buffer EXCEPT ![p] = <<>>]
    /\ lugar' = [lugar EXCEPT ![p] = 0]
    /\ ultimo' = [ultimo EXCEPT ![p] = 0]
    /\ UNCHANGED <<fisica, tabla, enMemoria, swap, escrito, cuenta>>

(* The CPU that runs the process updates a page, in the frame its table gives. *)
EscribirPagina(p) ==
    /\ vida[p] = "residente"
    /\ pedido[p] = "nada"
    /\ escrituras[p] < MaxEscrituras
    /\ escrituras' = [escrituras EXCEPT ![p] = @ + 1]
    /\ \E i \in DOMAIN tabla[p] :
          LET d == <<p, i, escrituras[p] + 1>>
          IN /\ contenido' = [contenido EXCEPT ![tabla[p][i]] = d]
             /\ escrito' = [escrito EXCEPT ![p][i] = d]
    /\ UNCHANGED <<ocupado, tabla, enMemoria, swap, hilos, vida, suspensiones>>

Pide(p) == PedirInicio(p) \/ PedirReanudacion(p) \/ PedirReanudacionSinRegistro(p)
           \/ PedirSuspension(p) \/ PedirFin(p)

Inicializa(p) == Contar(p) \/ TomarMarco(p) \/ SinMarcos(p) \/ SinPrograma(p) \/ Alta(p)

Reanuda(p) == CopiarAMarcos(p) \/ DevolverHueco(p) \/ EnlazarHueco(p) \/ OlvidarRegistro(p)

Suspende(p) == UbicarEnHueco(p) \/ UbicarAlFinal(p) \/ EscribirEnSwap(p) \/ Registrar(p)
               \/ EnlazarRegistro(p)

Termina(p) == LiberarMarco(p) \/ TablaDestruida(p) \/ Contestar(p)

Next == \E p \in Procs : Pide(p) \/ Inicializa(p) \/ Reanuda(p) \/ Suspende(p) \/ Termina(p)
                         \/ EscribirPagina(p)

Spec == Init /\ [][Next]_vars

-----------------------------------------------------------------------------
(* Properties.                                                             *)

Pedidos == {"nada", "INICIALIZAR_PROCESO_DESDE_NEW", "INICIALIZAR_PROCESO_SUSPENDIDO",
            "SUSPENDER_PROCESO", "FINALIZAR_PROCESO"}

Pasos == {"libre", "contando", "tomando", "copiando", "devolviendo", "enlazandoHueco", "olvidando",
          "ubicando", "grabando", "registrando", "enlazandoRegistro", "soltando",
          "acepta", "rechaza", "confirma"}

Hueco == [offset : Nat, tam : Nat \ {0}]
Registro == [pid : Procs, offset : Nat, tam : Nat \ {0}]

\* Every variable keeps its type; in particular no frame number leaves the
\* memory (obtener_siguiente_marco_libre) and no hole or area of the swap file
\* is empty (buscar_espacio_libre_swap).
TypeOK ==
    /\ ocupado \subseteq NroMarcos
    /\ contenido \in [NroMarcos -> Datos]
    /\ tabla \in [Procs -> Seq(NroMarcos)]
    /\ enMemoria \subseteq Procs
    /\ enSwap \in Seq(Registro)
    /\ huecos \in Seq(Hueco)
    /\ archivo \in Seq(Datos)
    /\ pedido \in [Procs -> Pedidos]
    /\ pc \in [Procs -> Pasos]
    /\ buffer \in [Procs -> Seq(Datos)]
    /\ lugar \in [Procs -> Nat]
    /\ ultimo \in [Procs -> Nat]
    /\ vida \in [Procs -> {"nuevo", "residente", "suspendido", "fin"}]
    /\ escrito \in [Procs -> Seq(Datos)]
    /\ escrituras \in [Procs -> 0 .. MaxEscrituras]
    /\ suspensiones \in 0 .. MaxSuspensiones

\* No frame is in two page tables or twice in one, whatever requests ran
\* together.
MarcosPropios ==
    \A p, q \in Procs : \A i \in DOMAIN tabla[p], j \in DOMAIN tabla[q] :
        tabla[p][i] = tabla[q][j] => p = q /\ i = j

\* Processes that may hold frames: the residents, and those a thread is giving
\* frames to or taking them from.
Duenos == enMemoria \cup {p \in Procs : pc[p] \in {"tomando", "soltando"}}

\* The occupied frames are those of these processes: one that was refused after
\* it took some frames, was suspended or ended gave back all of its own.
SinFugas == ocupado = UNION {Range(tabla[p]) : p \in Duenos}

\* Areas of the swap file somebody holds: the registered ones (unless their hole
\* was just given back), those being written, and the holes.
AreasRegistradas == {i \in DOMAIN enSwap : pc[enSwap[i].pid] # "olvidando"}
EnGrabacion == {p \in Procs : pc[p] \in {"grabando", "registrando", "enlazandoRegistro"}}
AreaDe(p) == lugar[p] .. lugar[p] + Len(buffer[p]) - 1

\* Two areas of the swap file never share a page, be they of suspended
\* processes, holes, or places a suspension is writing to, and together they are
\* the whole file: no page is lost.
SwapRepartido ==
    LET usadas == {<<"proceso", i>> : i \in AreasRegistradas} \cup {<<"hueco", i>> : i \in DOMAIN huecos}
                  \cup {<<"grabando", p>> : p \in EnGrabacion}
        area(u) == CASE u[1] = "proceso" -> Area(enSwap[u[2]])
                     [] u[1] = "hueco" -> Area(huecos[u[2]])
                     [] OTHER -> AreaDe(u[2])
    IN /\ \A u, v \in usadas : u # v => area(u) \cap area(v) = {}
       /\ 0 .. Len(archivo) - 1 \subseteq UNION {area(u) : u \in usadas}

\* A resident process finds in its frames what it last wrote there (or what the
\* frames held when it was admitted), however many times it went to the swap file
\* and back and whatever other processes did meanwhile; and a suspended one has
\* it in its area of the file.  So it is while UnoPorProceso holds of the Kernel:
\* MemoriaJunta shows the contents lost when it does not (SWAP.c:84-87 between
\* 160 and 202).
ContenidoPreservado ==
    \A p \in Procs : pedido[p] = "nada" =>
        /\ vida[p] = "residente" => Contenidos(p) = escrito[p]
        /\ vida[p] = "suspendido" /\ RegistrosDe(p) # {} =>
              SubSeq(archivo, RegistroDe(p).offset + 1, Fin(RegistroDe(p))) = escrito[p]

\* A suspended process can come back: desuspender_proceso will find it in
\* procesos_swap.
SuspendidoEnSwap ==
    \A p \in Procs : vida[p] = "suspendido" /\ pedido[p] = "nada" => RegistrosDe(p) # {}

\* The same for the processes that have memory at all, as long as list operations
\* do not overlap.
ConPaginasEnSwap ==
    \A p \in Procs : vida[p] = "suspendido" /\ pedido[p] = "nada" /\ Paginas[p] > 0
                        => Cardinality(RegistrosDe(p)) = 1

(* What the Kernel is promised: MemoriaAbstracta.                          *)

Situacion(p) ==
    CASE pc[p] \in {"contando", "tomando"} -> "entrando"
      [] En(p, "soltando") -> "saliendo"
      [] p \in enMemoria -> "residente"
      [] OTHER -> "afuera"

Abstracta == INSTANCE MemoriaAbstracta WITH estado <- [p \in Procs |-> Situacion(p)]

\* Every admission, resumption, suspension and end does what MemoriaAbstracta
\* says: residents fit, and nobody is turned away who would fit beside everything
\* in progress.
CumpleMemoriaAbstracta == Abstracta!Spec

=============================================================================
