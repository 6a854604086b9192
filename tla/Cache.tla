------------------------------- MODULE Cache -------------------------------
(***************************************************************************)
(* A CPU with its page cache (ENTRADAS_CACHE > 0) and the connection to the  *)
(* memory module behind it: the instruction cycle, the cache replaced by     *)
(* CLOCK or CLOCKM, the TLB under it, the requests that travel one way and   *)
(* the replies that travel the other.                                       *)
(*                                                                         *)
(* A socket is a queue of messages in each direction.  The code sends a      *)
(* request in one place and reads its reply in another, or nowhere, so each  *)
(* send, each service and each read is a step.                              *)
(***************************************************************************)
EXTENDS Tlb, Paginacion, SequencesExt

CONSTANTS
    Procs,            \* processes, all of them in memory at first
    Nadie,            \* no process
    MarcosDe,         \* frames of each one, in page order
    Marcos,           \* cantidad_marcos
    ENTRADAS_CACHE,
    Algoritmos,       \* values REEMPLAZO_CACHE may have
    CodigoExito,      \* ACTUALIZACION_EXITOSA as a number; FALLIDA is the next
    Salidas,          \* ways a process leaves the CPU
    MaxAccesos        \* bound: READs and WRITEs of each process

ASSUME CacheAssumption ==
    /\ Nadie \notin Procs
    /\ Marcos \in Nat
    /\ MarcosDe \in [Procs -> Seq(0 .. Marcos - 1)]
    /\ ENTRADAS_CACHE \in Nat \ {0}
    /\ Algoritmos \subseteq {"CLOCK", "CLOCKM"}
    /\ {CodigoExito, CodigoExito + 1} \cup (0 .. Marcos - 1) \subseteq NrosMarco
    /\ Salidas \subseteq {"EXIT", "IO"}
    /\ MaxAccesos \in [Procs -> Nat]

VARIABLES
    reemplazoCache,   \* REEMPLAZO_CACHE
    cache,            \* the ring
    punteroCache,     \* where the clock stands
    liberadas,        \* entries whose contenido points to a block that was freed
    cpu,              \* the process the CPU has and what it does with it
    pedidos,          \* requests on their way to the memory module
    respuestas,       \* replies on their way back
    marcosDe,         \* frames of each process, none once it is finished
    contenido,        \* what each frame holds
    estado,           \* where each process is
    restan,           \* accesses each program has left
    sinLeer           \* ghost: replies that the CPU asked for and never reads

cacheVars == <<reemplazoCache, cache, punteroCache, liberadas>>
canalVars == <<pedidos, respuestas, sinLeer>>
procVars == <<estado, restan>>
memVars == <<marcosDe, contenido>>

vars == <<tlbVars, cacheVars, cpu, canalVars, memVars, procVars>>

Casillas == 1 .. ENTRADAS_CACHE

Libre == [numPag |-> -1, uso |-> -1, modificado |-> -1]

\* What a frame holds: what the last WRITE left there, and whether the address of
\* a buffer came over it since.  That is what obtenerContenido reads, and so what
\* any page in the cache holds, never the page.
Intacto == [de |-> <<>>, por |-> "nadie"]
Escrito(p, pag) == [de |-> <<p, pag>>, por |-> "write"]

Ocioso == [pid |-> Nadie, pc |-> "lista", instr |-> "ninguna", pag |-> -1,
           buscada |-> -1, nivel |-> 0, marco |-> -1, luego |-> "ninguno", i |-> 0]

Init ==
    /\ TlbInit
    /\ reemplazoCache \in Algoritmos
    /\ cache = [i \in Casillas |-> Libre]
    /\ punteroCache = 1
    /\ liberadas = {}
    /\ cpu = Ocioso
    /\ pedidos = <<>> /\ respuestas = <<>>
    /\ marcosDe = MarcosDe
    /\ contenido = [f \in 0 .. Marcos - 1 |-> Intacto]
    /\ estado = [p \in Procs |-> "listo"]
    /\ restan = MaxAccesos
    /\ sinLeer = 0

-----------------------------------------------------------------------------
(* The two directions of the socket.                                       *)

Pedido(op, pag, marco) == [op |-> op, pid |-> cpu.pid, pag |-> pag, marco |-> marco]

Enviar(op, pag, marco) == pedidos' = Append(pedidos, Pedido(op, pag, marco))

Llego(tipo) == respuestas # <<>> /\ Head(respuestas).tipo = tipo

\* recibir_op_code and recibir_entero take one word, whatever it is the reply to.
LeerPalabra ==
    /\ respuestas # <<>>
    /\ respuestas' = Tail(respuestas)

\* What a word says when it is taken for a number.
Numero == Head(respuestas).dato

\* Read as a package, anything else is a size and a buffer made out of the
\* replies that follow: the CPU executes what it finds there, and is lost.
Perderse ==
    /\ cpu' = [Ocioso EXCEPT !.pid = cpu.pid, !.pc = "perdida"]
    /\ respuestas' = <<>> /\ pedidos' = <<>>

-----------------------------------------------------------------------------
(* The instruction cycle.                                                  *)

Despachar(p) ==
    /\ cpu.pc = "lista"
    /\ estado[p] = "listo"
    /\ cpu' = [Ocioso EXCEPT !.pid = p, !.pc = "fetch"]
    /\ estado' = [estado EXCEPT ![p] = "ejecuta"]
    /\ UNCHANGED <<tlbVars, cacheVars, canalVars, memVars, restan>>

Fetch ==
    /\ cpu.pc = "fetch"
    /\ Enviar("FETCH_INSTRUCCION", -1, -1)
    /\ cpu' = [cpu EXCEPT !.pc = "esperaInstruccion"]
    /\ UNCHANGED <<tlbVars, cacheVars, respuestas, sinLeer, memVars, procVars>>

\* The instruction is a READ or a WRITE of a page of the process.
LlegaAcceso(instr, pag) ==
    /\ cpu.pc = "esperaInstruccion"
    /\ Llego("instruccion")
    /\ restan[cpu.pid] > 0
    /\ pag < Len(MarcosDe[cpu.pid])
    /\ LeerPalabra
    /\ cpu' = [cpu EXCEPT !.pc = "usaCache", !.instr = instr, !.pag = pag]
    /\ restan' = [restan EXCEPT ![cpu.pid] = @ - 1]
    /\ UNCHANGED <<tlbVars, cacheVars, pedidos, sinLeer, memVars, estado>>

\* EXIT goes to the Kernel first; then the TLB is emptied, then the cache.
LlegaExit ==
    /\ "EXIT" \in Salidas
    /\ cpu.pc = "esperaInstruccion"
    /\ Llego("instruccion")
    /\ LeerPalabra
    /\ DesalojarProcesoTLB
    /\ cpu' = [cpu EXCEPT !.pc = "desaloja", !.i = 1]
    /\ estado' = [estado EXCEPT ![cpu.pid] = "saliendo"]
    /\ UNCHANGED <<cacheVars, pedidos, sinLeer, memVars, restan>>

\* After an IO both stay as they are.
LlegaIo ==
    /\ "IO" \in Salidas
    /\ cpu.pc = "esperaInstruccion"
    /\ Llego("instruccion")
    /\ LeerPalabra
    /\ cpu' = Ocioso
    /\ estado' = [estado EXCEPT ![cpu.pid] = "listo"]
    /\ UNCHANGED <<tlbVars, cacheVars, pedidos, sinLeer, memVars, restan>>

LlegaOtraCosa ==
    /\ cpu.pc = "esperaInstruccion"
    /\ respuestas # <<>> /\ ~Llego("instruccion")
    /\ Perderse
    /\ UNCHANGED <<tlbVars, cacheVars, sinLeer, memVars, procVars>>

-----------------------------------------------------------------------------
(* The cache.                                                              *)

\* Mutant: the search stops one entry early.
EstaEnCacheSinUltima(pag) == \E i \in 1 .. ENTRADAS_CACHE - 1 : cache[i].numPag = pag

EstaEnCache(pag) == \E i \in Casillas : cache[i].numPag = pag

BitModificado(instr) == IF instr = "WRITE" THEN 1 ELSE 0

\* conseguirMarcoCache is called for a page and goes on as said.
PedirMarco(pag, luego) == [cpu EXCEPT !.pc = "marco", !.buscada = pag, !.luego = luego]

\* A hit: the bit says what this access is, not whether one modified the page.
UsarCacheAcierto ==
    /\ cpu.pc = "usaCache"
    /\ EstaEnCache(cpu.pag)
    /\ cache' = [i \in Casillas |->
                   IF cache[i].numPag = cpu.pag
                   THEN [cache[i] EXCEPT !.uso = 1, !.modificado = BitModificado(cpu.instr)]
                   ELSE cache[i]]
    /\ cpu' = PedirMarco(cpu.pag, "accede")
    /\ UNCHANGED <<tlbVars, reemplazoCache, punteroCache, liberadas, canalVars, memVars, procVars>>

\* A miss: obtenerContenido asks for the page.
UsarCacheFallo ==
    /\ cpu.pc = "usaCache"
    /\ ~EstaEnCache(cpu.pag)
    /\ Enviar("ENVIO_PID_NROPAG", cpu.pag, -1)
    /\ cpu' = [cpu EXCEPT !.pc = "esperaContenido"]
    /\ UNCHANGED <<tlbVars, cacheVars, respuestas, sinLeer, memVars, procVars>>

\* Mutant: the last entry is not looked at.
CasillasLibresMenosUna == {i \in 1 .. ENTRADAS_CACHE - 1 : cache[i].numPag = -1}

CasillasLibres == {i \in Casillas : cache[i].numPag = -1}

Cargada(modificado) == [numPag |-> cpu.pag, uso |-> 1, modificado |-> modificado]

\* The page is loaded into entry i, with a block of its own for the contents.
Cargar(i, modificado) ==
    /\ cache' = [cache EXCEPT ![i] = Cargada(modificado)]
    /\ liberadas' = liberadas \ {i}

\* The page arrives: into the first free entry, or the clock looks for one.  The recv
\* would take older replies with it, but no CPU gets here with one: its fetch comes
\* first, and would be lost.
AgregarPagCache ==
    /\ cpu.pc = "esperaContenido"
    /\ LeerPalabra
    /\ \/ /\ CasillasLibres # {}
          /\ Cargar(Min(CasillasLibres), BitModificado(cpu.instr))
          /\ cpu' = PedirMarco(cpu.pag, "accede")
       \/ /\ CasillasLibres = {}
          /\ cpu' = [cpu EXCEPT !.pc = "reloj"]
          /\ UNCHANGED <<cache, liberadas>>
    /\ UNCHANGED <<tlbVars, reemplazoCache, punteroCache, pedidos, sinLeer, memVars, procVars>>

Apuntada == cache[punteroCache]

\* Mutant: the clock walks off the end of the ring.
AvanzarSinVuelta ==
    /\ cpu.pc = "reloj"
    /\ Apuntada.uso # 0
    /\ cache' = [cache EXCEPT ![punteroCache].uso = 0]
    /\ punteroCache' = punteroCache + 1
    /\ UNCHANGED <<tlbVars, reemplazoCache, liberadas, cpu, canalVars, memVars, procVars>>

\* Mutant: the bit is not cleared.
AvanzarSinBorrar ==
    /\ cpu.pc = "reloj"
    /\ Apuntada.uso # 0
    /\ punteroCache' = (punteroCache % ENTRADAS_CACHE) + 1
    /\ UNCHANGED <<tlbVars, reemplazoCache, cache, liberadas, cpu, canalVars, memVars, procVars>>

\* A page that was used gets another chance.
Avanzar ==
    /\ cpu.pc = "reloj"
    /\ Apuntada.uso # 0
    /\ cache' = [cache EXCEPT ![punteroCache].uso = 0]
    /\ punteroCache' = (punteroCache % ENTRADAS_CACHE) + 1
    /\ UNCHANGED <<tlbVars, reemplazoCache, liberadas, cpu, canalVars, memVars, procVars>>

\* A page nobody modified is replaced at once; the clock does not move on.
ReemplazarLimpia ==
    /\ cpu.pc = "reloj"
    /\ Apuntada.uso = 0 /\ Apuntada.modificado # 1
    /\ Cargar(punteroCache, BitModificado(cpu.instr))
    /\ cpu' = PedirMarco(cpu.pag, "accede")
    /\ UNCHANGED <<tlbVars, reemplazoCache, punteroCache, canalVars, memVars, procVars>>

\* A modified one is written first.  CLOCK asks for the frame of the page that
\* comes in, CLOCKM for that of the page that goes.
ReemplazarModificada ==
    /\ cpu.pc = "reloj"
    /\ Apuntada.uso = 0 /\ Apuntada.modificado = 1
    /\ cpu' = PedirMarco(IF reemplazoCache = "CLOCK" THEN cpu.pag ELSE Apuntada.numPag, "actualiza")
    /\ UNCHANGED <<tlbVars, cacheVars, canalVars, memVars, procVars>>

\* Mutant: CLOCK goes on like CLOCKM.
ActualizarClockSinEsperar ==
    /\ cpu.pc = "actualiza" /\ reemplazoCache = "CLOCK"
    /\ Enviar("ENVIO_PID_NROPAG_CONTENIDO_MARCO", Apuntada.numPag, cpu.marco)
    /\ Cargar(punteroCache, 1)
    /\ cpu' = PedirMarco(cpu.pag, "accede")
    /\ UNCHANGED <<tlbVars, reemplazoCache, punteroCache, respuestas, sinLeer, memVars, procVars>>

\* CLOCK waits for the reply.
ActualizarClock ==
    /\ cpu.pc = "actualiza" /\ reemplazoCache = "CLOCK"
    /\ Enviar("ENVIO_PID_NROPAG_CONTENIDO_MARCO", Apuntada.numPag, cpu.marco)
    /\ cpu' = [cpu EXCEPT !.pc = "esperaActualizacion"]
    /\ UNCHANGED <<tlbVars, cacheVars, respuestas, sinLeer, memVars, procVars>>

\* Whatever it says, the page is replaced, and the new one inherits the bit.
RespondeActualizacion ==
    /\ cpu.pc = "esperaActualizacion"
    /\ LeerPalabra
    /\ Cargar(punteroCache, 1)
    /\ cpu' = PedirMarco(cpu.pag, "accede")
    /\ UNCHANGED <<tlbVars, reemplazoCache, punteroCache, pedidos, sinLeer, memVars, procVars>>

\* CLOCKM does not.
ActualizarClockM ==
    /\ cpu.pc = "actualiza" /\ reemplazoCache = "CLOCKM"
    /\ Enviar("ENVIO_PID_NROPAG_CONTENIDO_MARCO", Apuntada.numPag, cpu.marco)
    /\ sinLeer' = sinLeer + 1
    /\ Cargar(punteroCache, BitModificado(cpu.instr))
    /\ cpu' = PedirMarco(cpu.pag, "accede")
    /\ UNCHANGED <<tlbVars, reemplazoCache, punteroCache, respuestas, memVars, procVars>>

-----------------------------------------------------------------------------
(* conseguirMarcoCache.                                                    *)

ConMarco(marco) == [cpu EXCEPT !.pc = cpu.luego, !.luego = "ninguno", !.buscada = -1, !.nivel = 0, !.marco = marco]

MarcoEnTlb ==
    /\ cpu.pc = "marco"
    /\ Acierto(cpu.buscada)
    /\ cpu' = ConMarco(BuscarTlb(cpu.buscada))
    /\ UNCHANGED <<cacheVars, canalVars, memVars, procVars>>

\* navegarNiveles asks for the entry of each level in turn ...
PedirNivel(nivel) ==
    /\ Enviar("ENVIO_PID_Y_ENTRADANIVEL", Indice(cpu.buscada, nivel), -1)
    /\ cpu' = [cpu EXCEPT !.pc = "esperaNivel", !.nivel = nivel]

MarcoANavegar ==
    /\ cpu.pc = "marco"
    /\ BuscarTlb(cpu.buscada) = -1
    /\ PedirNivel(1)
    /\ UNCHANGED <<tlbVars, cacheVars, respuestas, sinLeer, memVars, procVars>>

SiguienteNivel ==
    /\ cpu.pc = "esperaNivel" /\ cpu.nivel < CANTIDAD_NIVELES
    /\ LeerPalabra
    /\ PedirNivel(cpu.nivel + 1)
    /\ UNCHANGED <<tlbVars, cacheVars, sinLeer, memVars, procVars>>

\* ... and the last answer goes into the TLB.  What the failed search did to the
\* counters is taken here with it: nobody looks at them in between.
UltimoNivel ==
    /\ cpu.pc = "esperaNivel" /\ cpu.nivel = CANTIDAD_NIVELES
    /\ LeerPalabra
    /\ Fallo(cpu.buscada, Numero)
    /\ cpu' = ConMarco(Numero)
    /\ UNCHANGED <<cacheVars, pedidos, sinLeer, memVars, procVars>>

-----------------------------------------------------------------------------
(* The access itself, with the address of the program (see Traduccion).    *)

Acceder ==
    /\ cpu.pc = "accede"
    /\ Enviar(cpu.instr, cpu.pag, -1)
    /\ cpu' = [cpu EXCEPT !.pc = "esperaAcceso", !.marco = -1]
    /\ UNCHANGED <<tlbVars, cacheVars, respuestas, sinLeer, memVars, procVars>>

Terminar == cpu' = [Ocioso EXCEPT !.pid = cpu.pid, !.pc = "fetch"]

RespondeWrite ==
    /\ cpu.pc = "esperaAcceso" /\ cpu.instr = "WRITE"
    /\ LeerPalabra
    /\ Terminar
    /\ UNCHANGED <<tlbVars, cacheVars, pedidos, sinLeer, memVars, procVars>>

RespondeRead ==
    /\ cpu.pc = "esperaAcceso" /\ cpu.instr = "READ"
    /\ \/ Llego("valor") /\ LeerPalabra /\ Terminar /\ UNCHANGED pedidos
       \/ respuestas # <<>> /\ ~Llego("valor") /\ Perderse
    /\ UNCHANGED <<tlbVars, cacheVars, sinLeer, memVars, procVars>>

-----------------------------------------------------------------------------
(* desalojarProcesoCache, entry after entry.                               *)

Abortada == [Ocioso EXCEPT !.pid = cpu.pid, !.pc = "abortada"]

\* The entry is marked free and its contents are freed, but not set to NULL: unless
\* a page was loaded into it since, the next emptying frees the same block again.
\* free finds that out and the CPU aborts, or it does not and takes the block from
\* whoever got it in the meantime, which may be another entry.
Soltar ==
    /\ cache' = [cache EXCEPT ![cpu.i] = Libre]
    /\ \/ /\ cpu.i \in liberadas
          /\ cpu' = Abortada
          /\ UNCHANGED liberadas
       \/ /\ \E j \in (IF cpu.i \in liberadas THEN Casillas ELSE {cpu.i}) : liberadas' = liberadas \cup {j}
          /\ cpu' = [cpu EXCEPT !.pc = "desaloja", !.i = @ + 1, !.marco = -1]

Desalojar ==
    /\ cpu.pc = "desaloja" /\ cpu.i <= ENTRADAS_CACHE
    /\ \/ /\ cache[cpu.i].modificado = 1
          /\ cpu' = PedirMarco(cache[cpu.i].numPag, "desalojaEnvia")
          /\ UNCHANGED <<cache, liberadas>>
       \/ /\ cache[cpu.i].modificado # 1
          /\ Soltar
    /\ UNCHANGED <<tlbVars, reemplazoCache, punteroCache, canalVars, memVars, procVars>>

\* The reply is read by nobody.
DesalojarEnvia ==
    /\ cpu.pc = "desalojaEnvia"
    /\ Enviar("ENVIO_PID_NROPAG_CONTENIDO_MARCO", cache[cpu.i].numPag, cpu.marco)
    /\ sinLeer' = sinLeer + 1
    /\ Soltar
    /\ UNCHANGED <<tlbVars, reemplazoCache, punteroCache, respuestas, memVars, procVars>>

\* The Kernel answers the EXIT once the memory module confirmed the end.
SyscallEjecutada ==
    /\ cpu.pc = "desaloja" /\ cpu.i > ENTRADAS_CACHE
    /\ estado[cpu.pid] = "terminado"
    /\ cpu' = Ocioso
    /\ UNCHANGED <<tlbVars, cacheVars, canalVars, memVars, procVars>>

-----------------------------------------------------------------------------
(* The memory module.                                                      *)

\* finalizar_proceso, asked for by the Kernel on a connection of its own.
Finalizar(p) ==
    /\ estado[p] = "saliendo"
    /\ estado' = [estado EXCEPT ![p] = "terminado"]
    /\ marcosDe' = [marcosDe EXCEPT ![p] = <<>>]
    /\ UNCHANGED <<tlbVars, cacheVars, cpu, canalVars, contenido, restan>>

Respuesta(tipo, dato) == [tipo |-> tipo, dato |-> dato]

MarcoDePagina(p, pag) == IF marcosDe[p] = <<>> THEN -1 ELSE ObtenerMarco(TablaRaiz(marcosDe[p]), pag)

\* What manejar_cliente_cpu answers to a request.
Contesta(m) ==
    CASE m.op = "FETCH_INSTRUCCION" -> Respuesta("instruccion", 0)
      [] m.op = "ENVIO_PID_NROPAG" -> Respuesta("contenido", 0)
      [] m.op = "ENVIO_PID_Y_ENTRADANIVEL" -> Respuesta("marco", MarcoDePagina(m.pid, m.pag))
      [] m.op = "ENVIO_PID_NROPAG_CONTENIDO_MARCO" ->
           Respuesta("actualizada", IF m.marco \in 0 .. Marcos - 1 THEN CodigoExito ELSE CodigoExito + 1)
      [] m.op = "READ" -> Respuesta("valor", contenido[m.pag])
      [] m.op = "WRITE" -> Respuesta("terminada", 0)

\* What it does to the frames; an address is its page, counted from frame 0.
Deja(m) ==
    CASE m.op = "WRITE" -> [contenido EXCEPT ![m.pag] = Escrito(m.pid, m.pag)]
      [] m.op = "ENVIO_PID_NROPAG_CONTENIDO_MARCO" /\ m.marco \in 0 .. Marcos - 1 ->
           [contenido EXCEPT ![m.marco].por = "puntero"]
      [] OTHER -> contenido

\* Mutant: a READ goes unanswered, as one past the end of the memory does.
ManejarSinContestarRead ==
    /\ pedidos # <<>>
    /\ pedidos' = Tail(pedidos)
    /\ respuestas' = IF Head(pedidos).op = "READ" THEN respuestas
                     ELSE Append(respuestas, Contesta(Head(pedidos)))
    /\ contenido' = Deja(Head(pedidos))
    /\ UNCHANGED <<tlbVars, cacheVars, cpu, sinLeer, marcosDe, procVars>>

ManejarClienteCpu ==
    /\ pedidos # <<>>
    /\ pedidos' = Tail(pedidos)
    /\ respuestas' = Append(respuestas, Contesta(Head(pedidos)))
    /\ contenido' = Deja(Head(pedidos))
    /\ UNCHANGED <<tlbVars, cacheVars, cpu, sinLeer, marcosDe, procVars>>

-----------------------------------------------------------------------------

Cpu ==
    \/ \E p \in Procs : Despachar(p)
    \/ Fetch \/ LlegaExit \/ LlegaIo \/ LlegaOtraCosa
    \/ \E instr \in {"READ", "WRITE"}, pag \in NrosPagina : LlegaAcceso(instr, pag)
    \/ UsarCacheAcierto \/ UsarCacheFallo \/ AgregarPagCache
    \/ Avanzar \/ ReemplazarLimpia \/ ReemplazarModificada
    \/ ActualizarClock \/ RespondeActualizacion \/ ActualizarClockM
    \/ MarcoEnTlb \/ MarcoANavegar \/ SiguienteNivel \/ UltimoNivel
    \/ Acceder \/ RespondeWrite \/ RespondeRead
    \/ Desalojar \/ DesalojarEnvia \/ SyscallEjecutada

Memoria == ManejarClienteCpu \/ \E p \in Procs : Finalizar(p)

Next == Cpu \/ Memoria

Spec == Init /\ [][Next]_vars

\* Both programs go on while there is something to do.
FairSpec ==
    /\ Spec
    /\ WF_vars(Cpu)
    /\ WF_vars(ManejarClienteCpu)
    /\ \A p \in Procs : WF_vars(Finalizar(p))

-----------------------------------------------------------------------------
(* Properties.                                                             *)

Esperando == {"esperaInstruccion", "esperaContenido", "esperaNivel", "esperaActualizacion", "esperaAcceso"}

Etapas == Esperando \cup
    {"lista", "fetch", "usaCache", "reloj", "actualiza", "marco", "accede", "desaloja", "desalojaEnvia", "perdida", "abortada"}

Tipos == {"instruccion", "contenido", "marco", "actualizada", "valor", "terminada"}

\* Every variable has its type.
TypeOK ==
    /\ reemplazoCache \in Algoritmos
    /\ cache \in [Casillas -> [numPag : NrosPagina \cup {-1}, uso : {-1, 0, 1}, modificado : {-1, 0, 1}]]
    /\ punteroCache \in Casillas /\ liberadas \subseteq Casillas
    /\ cpu.pid \in Procs \cup {Nadie} /\ cpu.pc \in Etapas /\ cpu.i \in 0 .. ENTRADAS_CACHE + 1
    /\ cpu.nivel \in 0 .. CANTIDAD_NIVELES
    /\ \A m \in ToSet(pedidos) : m.pid \in Procs
    /\ \A r \in ToSet(respuestas) : r.tipo \in Tipos
    /\ estado \in [Procs -> {"listo", "ejecuta", "saliendo", "terminado"}]
    /\ \A p \in Procs : restan[p] \in 0 .. MaxAccesos[p]
    /\ sinLeer \in Nat

\* No page is in two entries of the cache: estaEnCache, the hit, and the write back
\* of EXIT walk the whole ring, and would mark and write both.
PaginasUnicas ==
    \A i, j \in Casillas : cache[i].numPag # -1 /\ cache[i].numPag = cache[j].numPag => i = j

\* The reply that the CPU waits for at each point.
Esperada ==
    CASE cpu.pc = "esperaInstruccion" -> "instruccion"
      [] cpu.pc = "esperaContenido" -> "contenido"
      [] cpu.pc = "esperaNivel" -> "marco"
      [] cpu.pc = "esperaActualizacion" -> "actualizada"
      [] cpu.pc = "esperaAcceso" /\ cpu.instr = "READ" -> "valor"
      [] cpu.pc = "esperaAcceso" /\ cpu.instr # "READ" -> "terminada"

\* As long as every reply asked for was read, whatever path an access took
\* (hit, miss, clock, TLB, walk of several levels) the reply the CPU takes is the
\* one it waits for, and none is left over behind it.
EnFase ==
    sinLeer = 0 /\ respuestas # <<>> =>
        /\ cpu.pc \in Esperando
        /\ respuestas = <<Head(respuestas)>> /\ pedidos = <<>>
        /\ Head(respuestas).tipo = Esperada

\* What is on the connection is what the CPU waits for and what nobody reads, no
\* more and no less: no request goes without a reply and none gets two.
CanalCuadra ==
    cpu.pc # "perdida" =>
        Len(pedidos) + Len(respuestas) = sinLeer + (IF cpu.pc \in Esperando THEN 1 ELSE 0)

\* The pages the cache holds.
EnCache == {cache[i].numPag : i \in Casillas} \ {-1}

Abstracta == INSTANCE CacheAbstracta WITH Capacidad <- ENTRADAS_CACHE, paginas <- EnCache

\* Both clocks, the hit, the miss and the emptying give the set of cached pages
\* the steps of a bounded set: no page comes in twice, none goes while there is
\* room, and a miss costs one page at most.
CumpleCacheAbstracta == Abstracta!Spec

\* An entry that the emptying has still to free, and that is free already.
RepiteFree == \E i \in liberadas : cpu.i <= i

\* A READ or a WRITE always comes to an end: the clock finds a victim, and no reply
\* that is waited for is missing.  So does the emptying of the cache, and the CPU is
\* there for the next process when each entry was loaded since it was last emptied;
\* the CPU may abort half way when one was not.
TerminaLoQueEmpieza ==
    /\ cpu.pc = "usaCache" ~> cpu.pc \in {"fetch", "perdida"}
    /\ cpu.pc = "desaloja" ~> cpu.pc \in {"lista", "abortada"}
    /\ cpu.pc = "desaloja" /\ ~RepiteFree ~> cpu.pc = "lista"

\* traduccion.c:61, "me envia el numero de marco unicamente": what conseguirMarco
\* reads is the number of a frame.
MarcoDeMemoria == cpu.pc = "esperaNivel" /\ respuestas # <<>> => Llego("marco")

\* pruebas/MEMORIA_BASE writes pages and reads them back: when what was last
\* written where a READ looks is what its process wrote there, it is still there.
LeeLoEscrito ==
    cpu.pc = "esperaAcceso" /\ Llego("valor") /\ Head(respuestas).dato.de = <<cpu.pid, cpu.pag>> =>
        Head(respuestas).dato = Escrito(cpu.pid, cpu.pag)

=============================================================================
