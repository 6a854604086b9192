---------------------------- MODULE CacheProofs ----------------------------
(***************************************************************************)
(* Machine-checked proofs about Cache, for any number of processes, pages,   *)
(* entries and levels: the connection holds exactly the replies that are     *)
(* waited for and those nobody reads; the CPU takes the reply it waits for   *)
(* as long as it leaves none unread; no page is in two entries; what is on   *)
(* the connection is well typed; the ring implements CacheAbstracta.         *)
(***************************************************************************)
EXTENDS Cache, FiniteSetTheorems, TLAPS

-----------------------------------------------------------------------------
(* Queues of messages, whatever the messages are.                          *)

EsCola(s) == \E S : s \in Seq(S)

LEMMA ColaVacia == EsCola(<<>>) /\ Len(<<>>) = 0
<1>1. <<>> \in Seq({})
  OBVIOUS
<1> QED BY <1>1 DEF EsCola

\* What Append and Tail do to the length and to the head.
LEMMA AlAgregar ==
    ASSUME NEW s, NEW e, EsCola(s)
    PROVE  /\ EsCola(Append(s, e))
           /\ Len(s) \in Nat /\ Len(Append(s, e)) = Len(s) + 1
           /\ Append(s, e) # <<>>
           /\ s # <<>> => Head(Append(s, e)) = Head(s)
           /\ s = <<>> => Head(Append(s, e)) = e
<1>1. PICK S : s \in Seq(S)
  BY DEF EsCola
<1> DEFINE T == S \cup {e}
<1>2. s \in Seq(T) /\ e \in T
  BY <1>1
<1>3. Append(s, e) \in Seq(T)
  BY <1>2
<1> HIDE DEF T
<1>4. EsCola(Append(s, e))
  BY <1>3 DEF EsCola
<1>5. /\ Len(s) \in Nat /\ Len(Append(s, e)) = Len(s) + 1
      /\ \A i \in 1 .. Len(s) : Append(s, e)[i] = s[i]
      /\ Append(s, e)[Len(s) + 1] = e
  BY <1>2
<1>6. s # <<>> => Len(s) >= 1
  BY <1>2
<1>7. Append(s, e) # <<>>
  BY <1>3, <1>5
<1>8. Head(Append(s, e)) = Append(s, e)[1] /\ Head(s) = s[1]
  OBVIOUS
<1> QED BY <1>4, <1>5, <1>6, <1>7, <1>8

LEMMA AlSacar ==
    ASSUME NEW s, EsCola(s), s # <<>>
    PROVE  /\ EsCola(Tail(s))
           /\ Len(s) \in Nat /\ Len(s) >= 1 /\ Len(Tail(s)) = Len(s) - 1
<1>1. PICK S : s \in Seq(S)
  BY DEF EsCola
<1>2. Tail(s) \in Seq(S)
  BY <1>1
<1> QED BY <1>1, <1>2 DEF EsCola

LEMMA ColaCorta ==
    ASSUME NEW s, EsCola(s)
    PROVE  /\ Len(s) \in Nat
           /\ Len(s) = 0 <=> s = <<>>
           /\ Len(s) = 1 => s = <<Head(s)>>
<1>1. PICK S : s \in Seq(S)
  BY DEF EsCola
<1> QED BY <1>1

-----------------------------------------------------------------------------
(* Where the CPU is.                                                       *)

Campos == {"pid", "pc", "instr", "pag", "buscada", "nivel", "marco", "luego", "i"}

\* The stages of a READ or a WRITE, and among them those of bringing its page in.
BuscaMarco(luego) == cpu.pc \in {"marco", "esperaNivel"} /\ cpu.luego = luego

EnReemplazo ==
    cpu.pc \in {"esperaContenido", "reloj", "actualiza", "esperaActualizacion"} \/ BuscaMarco("actualiza")

EnAcceso ==
    EnReemplazo \/ cpu.pc \in {"usaCache", "accede", "esperaAcceso"} \/ BuscaMarco("accede")

CpuInv ==
    /\ DOMAIN cpu = Campos
    /\ cpu.pc \in Etapas
    /\ cpu.pc \in {"marco", "esperaNivel"} => cpu.luego \in {"accede", "actualiza", "desalojaEnvia"}
    /\ EnAcceso => cpu.instr \in {"READ", "WRITE"}

LEMMA CpuInvInicial == Init => CpuInv
BY DEF Init, Ocioso, CpuInv, Campos, Etapas, Esperando, EnAcceso, EnReemplazo, BuscaMarco

\* An entry is freed: the CPU goes on with the next one, or aborts.
LEMMA AlSoltar ==
    ASSUME DOMAIN cpu = Campos, Soltar
    PROVE  /\ cache' = [cache EXCEPT ![cpu.i] = Libre]
           /\ DOMAIN cpu' = Campos /\ cpu'.pid = cpu.pid
           /\ \/ cpu'.pc = "abortada" /\ cpu'.i = 0 /\ cpu'.nivel = 0 /\ cpu'.pag = -1
              \/ cpu'.pc = "desaloja" /\ cpu'.i = cpu.i + 1 /\ cpu'.nivel = cpu.nivel /\ cpu'.pag = cpu.pag
<1>1. CASE cpu' = Abortada
  BY <1>1 DEF Soltar, Abortada, Ocioso, Campos
<1>2. CASE cpu' = [cpu EXCEPT !.pc = "desaloja", !.i = @ + 1, !.marco = -1]
  BY <1>2 DEF Soltar, Campos
<1> QED BY <1>1, <1>2 DEF Soltar

LEMMA CpuInvPasos == CpuInv /\ [Next]_vars => CpuInv'
<1> SUFFICES ASSUME CpuInv, [Next]_vars PROVE CpuInv'
  OBVIOUS
<1> USE DEF CpuInv, Campos, Etapas, Esperando, EnAcceso, EnReemplazo, BuscaMarco
<1>1. CASE UNCHANGED vars
  BY <1>1 DEF vars
<1>2. CASE \/ Avanzar \/ ManejarClienteCpu \/ \E p \in Procs : Finalizar(p)
  BY <1>2 DEF Avanzar, ManejarClienteCpu, Finalizar
<1>3. CASE LlegaIo \/ SyscallEjecutada
  BY <1>3 DEF LlegaIo, SyscallEjecutada, Ocioso
<1>12. CASE \E p \in Procs : Despachar(p)
  <2>1. PICK p \in Procs : Despachar(p)
    BY <1>12
  <2>2. cpu' = [pid |-> p, pc |-> "fetch", instr |-> "ninguna", pag |-> -1, buscada |-> -1,
                nivel |-> 0, marco |-> -1, luego |-> "ninguno", i |-> 0]
    BY <2>1 DEF Despachar, Ocioso
  <2> QED BY <2>2
<1>10. CASE LlegaOtraCosa
  BY <1>10 DEF LlegaOtraCosa, Perderse, Ocioso
<1>4. CASE Fetch \/ LlegaExit \/ \E instr \in {"READ", "WRITE"}, pag \in NrosPagina : LlegaAcceso(instr, pag)
  BY <1>4 DEF Fetch, LlegaExit, LlegaAcceso
<1>5. CASE UsarCacheAcierto \/ UsarCacheFallo \/ AgregarPagCache
  BY <1>5 DEF UsarCacheAcierto, UsarCacheFallo, AgregarPagCache, PedirMarco
<1>6. CASE \/ ReemplazarLimpia \/ ReemplazarModificada
           \/ ActualizarClock \/ RespondeActualizacion \/ ActualizarClockM
  BY <1>6 DEF ReemplazarLimpia, ReemplazarModificada, ActualizarClock, RespondeActualizacion,
              ActualizarClockM, PedirMarco
<1>7. CASE MarcoEnTlb \/ MarcoANavegar \/ SiguienteNivel \/ UltimoNivel
  BY <1>7 DEF MarcoEnTlb, MarcoANavegar, SiguienteNivel, UltimoNivel, PedirNivel, ConMarco
<1>8. CASE Acceder \/ RespondeWrite
  BY <1>8 DEF Acceder, RespondeWrite, Terminar, Ocioso
<1>11. CASE RespondeRead
  BY <1>11 DEF RespondeRead, Terminar, Perderse, Ocioso
<1>9. CASE Desalojar \/ DesalojarEnvia
  <2>1. CASE Soltar
    BY <2>1, AlSoltar
  <2> QED BY <1>9, <2>1 DEF Desalojar, DesalojarEnvia, PedirMarco
<1> QED BY <1>1, <1>2, <1>3, <1>4, <1>5, <1>6, <1>7, <1>8, <1>9, <1>10, <1>11, <1>12 DEF Next, Cpu, Memoria

-----------------------------------------------------------------------------
(* What is on the connection.                                              *)

\* The kind of reply that each request is given.
TipoDe(op) ==
    CASE op = "FETCH_INSTRUCCION" -> "instruccion"
      [] op = "ENVIO_PID_NROPAG" -> "contenido"
      [] op = "ENVIO_PID_Y_ENTRADANIVEL" -> "marco"
      [] op = "ENVIO_PID_NROPAG_CONTENIDO_MARCO" -> "actualizada"
      [] op = "READ" -> "valor"
      [] op = "WRITE" -> "terminada"
      [] OTHER -> "ninguna"

\* With nothing left unread, what is on its way is for what the CPU waits for.
EnOrden ==
    sinLeer = 0 /\ cpu.pc # "perdida" =>
        /\ pedidos # <<>> => TipoDe(Head(pedidos).op) = Esperada
        /\ respuestas # <<>> => Head(respuestas).tipo = Esperada

CanalInv ==
    /\ EsCola(pedidos) /\ EsCola(respuestas) /\ sinLeer \in Nat
    /\ CanalCuadra
    /\ cpu.pc = "perdida" => pedidos = <<>> /\ respuestas = <<>>
    /\ EnOrden

LEMMA Espera ==
    ASSUME cpu.pc \in Esperando
    PROVE  Esperada \in Tipos
BY DEF Esperando, Esperada, Tipos

\* A request is sent and its reply is waited for.
LEMMA AlEnviar ==
    ASSUME CanalInv, NEW m, pedidos' = Append(pedidos, m), respuestas' = respuestas, sinLeer' = sinLeer,
           cpu.pc \notin Esperando \cup {"perdida"}, cpu.pc' \in Esperando, TipoDe(m.op) = Esperada'
    PROVE  CanalInv'
<1>1. EsCola(pedidos') /\ Len(pedidos') = Len(pedidos) + 1 /\ Len(pedidos) \in Nat
  BY AlAgregar DEF CanalInv
<1>2. EsCola(respuestas') /\ Len(respuestas) \in Nat /\ sinLeer' \in Nat
  BY ColaCorta DEF CanalInv
<1>3. CanalCuadra'
  BY <1>1, <1>2 DEF CanalInv, CanalCuadra
<1>4. ASSUME sinLeer' = 0 PROVE pedidos = <<>> /\ respuestas = <<>>
  <2>1. Len(pedidos) = 0 /\ Len(respuestas) = 0
    BY <1>1, <1>2, <1>4 DEF CanalInv, CanalCuadra
  <2> QED BY <2>1, ColaCorta DEF CanalInv
<1>5. ASSUME sinLeer' = 0 PROVE Head(pedidos') = m
  BY <1>4, <1>5, AlAgregar DEF CanalInv
<1>6. EnOrden'
  BY <1>4, <1>5 DEF EnOrden
<1>7. cpu.pc' # "perdida"
  BY DEF Esperando
<1> QED BY <1>1, <1>2, <1>3, <1>6, <1>7 DEF CanalInv

\* A reply is read.
LEMMA AlLeer ==
    ASSUME CanalInv, LeerPalabra, pedidos' = pedidos, sinLeer' = sinLeer,
           cpu.pc \in Esperando, cpu.pc' \notin Esperando \cup {"perdida"}
    PROVE  CanalInv'
<1>1. /\ EsCola(respuestas') /\ Len(respuestas') = Len(respuestas) - 1
      /\ Len(respuestas) \in Nat /\ Len(respuestas) >= 1
  BY AlSacar DEF CanalInv, LeerPalabra
<1>2. EsCola(pedidos') /\ Len(pedidos) \in Nat /\ sinLeer' \in Nat
  BY ColaCorta DEF CanalInv
<1>3. cpu.pc # "perdida"
  BY DEF Esperando
<1>4. CanalCuadra'
  BY <1>1, <1>2, <1>3 DEF CanalInv, CanalCuadra
<1>5. ASSUME sinLeer' = 0 PROVE pedidos' = <<>> /\ respuestas' = <<>>
  <2>1. Len(pedidos) = 0 /\ Len(respuestas') = 0
    BY <1>1, <1>2, <1>3, <1>5 DEF CanalInv, CanalCuadra
  <2> QED BY <1>1, <2>1, ColaCorta DEF CanalInv
<1>6. EnOrden'
  BY <1>5 DEF EnOrden
<1> QED BY <1>1, <1>2, <1>4, <1>6 DEF CanalInv

\* A request is sent whose reply nobody reads.
LEMMA AlOlvidar ==
    ASSUME CanalInv, NEW m, pedidos' = Append(pedidos, m), respuestas' = respuestas, sinLeer' = sinLeer + 1,
           cpu.pc \notin Esperando \cup {"perdida"}, cpu.pc' \notin Esperando \cup {"perdida"}
    PROVE  CanalInv'
<1>1. EsCola(pedidos') /\ Len(pedidos') = Len(pedidos) + 1 /\ Len(pedidos) \in Nat
  BY AlAgregar DEF CanalInv
<1>2. EsCola(respuestas') /\ Len(respuestas) \in Nat /\ sinLeer' \in Nat /\ sinLeer' # 0
  BY ColaCorta DEF CanalInv
<1>3. CanalCuadra'
  BY <1>1, <1>2 DEF CanalInv, CanalCuadra
<1> QED BY <1>1, <1>2, <1>3 DEF CanalInv, EnOrden

\* Nothing happens on the connection.
LEMMA AlCallar ==
    ASSUME CanalInv, UNCHANGED canalVars,
           \/ cpu.pc \notin Esperando \cup {"perdida"} /\ cpu.pc' \notin Esperando \cup {"perdida"}
           \/ cpu' = cpu
    PROVE  CanalInv'
<1>1. CASE cpu' = cpu
  BY <1>1 DEF CanalInv, CanalCuadra, EnOrden, canalVars, Esperada
<1>2. CASE cpu.pc \notin Esperando \cup {"perdida"} /\ cpu.pc' \notin Esperando \cup {"perdida"}
  <2>1. EsCola(pedidos') /\ EsCola(respuestas') /\ sinLeer' \in Nat /\ CanalCuadra'
    BY <1>2 DEF CanalInv, CanalCuadra, canalVars
  <2>2. ASSUME sinLeer' = 0 PROVE pedidos' = <<>> /\ respuestas' = <<>>
    <3>1. Len(pedidos) \in Nat /\ Len(respuestas) \in Nat
      BY ColaCorta DEF CanalInv
    <3>2. Len(pedidos) = 0 /\ Len(respuestas) = 0
      BY <1>2, <2>2, <3>1 DEF CanalInv, CanalCuadra, canalVars
    <3> QED BY <3>2, ColaCorta DEF CanalInv, canalVars
  <2> QED BY <1>2, <2>1, <2>2 DEF CanalInv, EnOrden
<1> QED BY <1>1, <1>2

\* The memory module answers.
LEMMA AlContestar ==
    ASSUME CanalInv, ManejarClienteCpu
    PROVE  CanalInv'
<1> DEFINE m == Head(pedidos)
<1>1. /\ pedidos # <<>> /\ pedidos' = Tail(pedidos) /\ respuestas' = Append(respuestas, Contesta(m))
      /\ cpu' = cpu /\ sinLeer' = sinLeer
  BY DEF ManejarClienteCpu
<1>2. EsCola(pedidos') /\ Len(pedidos') = Len(pedidos) - 1 /\ Len(pedidos) \in Nat /\ Len(pedidos) >= 1
  BY <1>1, AlSacar DEF CanalInv
<1>3. EsCola(respuestas') /\ Len(respuestas') = Len(respuestas) + 1 /\ Len(respuestas) \in Nat
  BY <1>1, AlAgregar DEF CanalInv
<1>4. cpu.pc # "perdida"
  BY <1>1 DEF CanalInv
<1>5. CanalCuadra'
  <2>1. Len(pedidos') + Len(respuestas') = Len(pedidos) + Len(respuestas)
    BY <1>2, <1>3
  <2> QED BY <1>1, <2>1 DEF CanalInv, CanalCuadra
<1>6. ASSUME sinLeer = 0 PROVE EnOrden'
  <2>1. Len(pedidos') = 0 /\ Len(respuestas) = 0 /\ cpu.pc \in Esperando
    BY <1>2, <1>3, <1>4, <1>6 DEF CanalInv, CanalCuadra
  <2>2. pedidos' = <<>> /\ respuestas = <<>>
    BY <1>2, <2>1, ColaCorta DEF CanalInv
  <2>3. TipoDe(m.op) = Esperada /\ Esperada \in Tipos
    BY <1>1, <1>4, <1>6, <2>1, Espera DEF CanalInv, EnOrden
  <2>4. Contesta(m).tipo = TipoDe(m.op)
    BY <2>3 DEF TipoDe, Contesta, Respuesta, Tipos
  <2>5. Head(respuestas') = Contesta(m)
    BY <1>1, <2>2, AlAgregar DEF CanalInv
  <2>6. Esperada' = Esperada
    BY <1>1 DEF Esperada
  <2> QED BY <2>2, <2>3, <2>4, <2>5, <2>6 DEF EnOrden
<1>7. EnOrden'
  BY <1>1, <1>6 DEF EnOrden
<1> QED BY <1>1, <1>2, <1>3, <1>4, <1>5, <1>7 DEF CanalInv

LEMMA CanalInvInicial == Init => CanalInv
<1> SUFFICES ASSUME Init PROVE CanalInv
  OBVIOUS
<1>1. pedidos = <<>> /\ respuestas = <<>> /\ sinLeer = 0 /\ cpu.pc = "lista"
  BY DEF Init, Ocioso
<1> QED BY <1>1, ColaVacia DEF CanalInv, CanalCuadra, EnOrden, Esperando

LEMMA CanalInvPasos == CpuInv /\ CanalInv /\ [Next]_vars => CanalInv'
<1> SUFFICES ASSUME CpuInv, CanalInv, [Next]_vars PROVE CanalInv'
  OBVIOUS
<1> USE DEF Esperando
<1>1. CASE UNCHANGED vars
  BY <1>1, AlCallar DEF vars
<1>2. CASE ManejarClienteCpu
  BY <1>2, AlContestar
<1>3. CASE Avanzar \/ \E p \in Procs : Finalizar(p)
  BY <1>3, AlCallar DEF Avanzar, Finalizar
<1>4. CASE SyscallEjecutada \/ \E p \in Procs : Despachar(p)
  <2>1. CASE SyscallEjecutada
    <3>1. cpu.pc = "desaloja" /\ cpu'.pc = "lista" /\ UNCHANGED canalVars
      BY <2>1 DEF SyscallEjecutada, Ocioso
    <3> QED BY <3>1, AlCallar
  <2>2. ASSUME NEW p \in Procs, Despachar(p) PROVE CanalInv'
    <3>1. cpu.pc = "lista" /\ cpu'.pc = "fetch" /\ UNCHANGED canalVars
      BY <2>2 DEF Despachar, Ocioso
    <3> QED BY <3>1, AlCallar
  <2> QED BY <1>4, <2>1, <2>2
<1>5. CASE LlegaOtraCosa
  <2>1. cpu'.pc = "perdida" /\ pedidos' = <<>> /\ respuestas' = <<>> /\ sinLeer' = sinLeer
    BY <1>5 DEF LlegaOtraCosa, Perderse, Ocioso
  <2> QED BY <2>1, ColaVacia DEF CanalInv, CanalCuadra, EnOrden
<1>6. CASE RespondeRead
  <2>1. CASE cpu'.pc = "perdida" /\ pedidos' = <<>> /\ respuestas' = <<>> /\ sinLeer' = sinLeer
    BY <2>1, ColaVacia DEF CanalInv, CanalCuadra, EnOrden
  <2>2. CASE LeerPalabra /\ cpu'.pc = "fetch" /\ pedidos' = pedidos /\ sinLeer' = sinLeer
    BY <1>6, <2>2, AlLeer DEF RespondeRead
  <2> QED BY <1>6, <2>1, <2>2 DEF RespondeRead, Terminar, Perderse, Ocioso
<1>7. CASE LlegaIo \/ RespondeWrite
  <2>1. cpu.pc \in Esperando /\ LeerPalabra /\ pedidos' = pedidos /\ sinLeer' = sinLeer
    BY <1>7 DEF LlegaIo, RespondeWrite
  <2>2. CASE LlegaIo
    <3>1. cpu'.pc = "lista"
      BY <2>2 DEF LlegaIo, Ocioso
    <3> QED BY <2>1, <3>1, AlLeer
  <2>3. CASE RespondeWrite
    <3>1. cpu'.pc = "fetch"
      BY <2>3 DEF RespondeWrite, Terminar, Ocioso
    <3> QED BY <2>1, <3>1, AlLeer
  <2> QED BY <1>7, <2>2, <2>3
<1>8. CASE LlegaExit \/ \E instr \in {"READ", "WRITE"}, pag \in NrosPagina : LlegaAcceso(instr, pag)
  <2>1. /\ LeerPalabra /\ pedidos' = pedidos /\ sinLeer' = sinLeer
        /\ cpu.pc \in Esperando /\ cpu'.pc \in {"desaloja", "usaCache"}
    BY <1>8 DEF LlegaExit, LlegaAcceso, CpuInv, Campos
  <2> QED BY <2>1, AlLeer
<1>9. CASE UsarCacheAcierto \/ ReemplazarLimpia \/ ReemplazarModificada
  <2>1. cpu.pc \in {"usaCache", "reloj"} /\ cpu'.pc = "marco" /\ UNCHANGED canalVars
    BY <1>9 DEF UsarCacheAcierto, ReemplazarLimpia, ReemplazarModificada, PedirMarco, CpuInv, Campos
  <2> QED BY <2>1, AlCallar
<1>10. CASE AgregarPagCache \/ RespondeActualizacion
  <2>1. /\ LeerPalabra /\ pedidos' = pedidos /\ sinLeer' = sinLeer
        /\ cpu.pc \in Esperando /\ cpu'.pc \in {"marco", "reloj"}
    BY <1>10 DEF AgregarPagCache, RespondeActualizacion, PedirMarco, CpuInv, Campos
  <2> QED BY <2>1, AlLeer
<1>11. CASE Fetch
  <2>1. cpu.pc = "fetch" /\ cpu'.pc = "esperaInstruccion"
    BY <1>11 DEF Fetch, CpuInv, Campos
  <2> QED BY <1>11, <2>1, AlEnviar DEF Fetch, Enviar, Pedido, TipoDe, Esperada
<1>12. CASE UsarCacheFallo
  <2>1. cpu.pc = "usaCache" /\ cpu'.pc = "esperaContenido"
    BY <1>12 DEF UsarCacheFallo, CpuInv, Campos
  <2> QED BY <1>12, <2>1, AlEnviar DEF UsarCacheFallo, Enviar, Pedido, TipoDe, Esperada
<1>13. CASE ActualizarClock
  <2>1. cpu.pc = "actualiza" /\ cpu'.pc = "esperaActualizacion"
    BY <1>13 DEF ActualizarClock, CpuInv, Campos
  <2> QED BY <1>13, <2>1, AlEnviar DEF ActualizarClock, Enviar, Pedido, TipoDe, Esperada
<1>14. CASE ActualizarClockM
  <2>1. cpu.pc = "actualiza" /\ cpu'.pc = "marco"
    BY <1>14 DEF ActualizarClockM, PedirMarco, CpuInv, Campos
  <2> QED BY <1>14, <2>1, AlOlvidar DEF ActualizarClockM, Enviar
<1>15. CASE MarcoEnTlb
  <2>1. cpu.pc = "marco" /\ cpu'.pc \in {"accede", "actualiza", "desalojaEnvia"} /\ UNCHANGED canalVars
    BY <1>15 DEF MarcoEnTlb, ConMarco, CpuInv, Campos
  <2> QED BY <2>1, AlCallar
<1>16. CASE MarcoANavegar
  <2>1. cpu.pc = "marco" /\ cpu'.pc = "esperaNivel"
    BY <1>16 DEF MarcoANavegar, PedirNivel, CpuInv, Campos
  <2> QED BY <1>16, <2>1, AlEnviar DEF MarcoANavegar, PedirNivel, Enviar, Pedido, TipoDe, Esperada
<1>17. CASE SiguienteNivel
  <2> DEFINE m == Pedido("ENVIO_PID_Y_ENTRADANIVEL", Indice(cpu.buscada, cpu.nivel + 1), -1)
  <2>1. /\ cpu.pc = "esperaNivel" /\ cpu'.pc = "esperaNivel" /\ sinLeer' = sinLeer
        /\ LeerPalabra /\ pedidos' = Append(pedidos, m)
        /\ TipoDe(m.op) = Esperada'
    BY <1>17 DEF SiguienteNivel, PedirNivel, Enviar, Pedido, TipoDe, Esperada, CpuInv, Campos
  <2> HIDE DEF m
  <2>2. EsCola(pedidos') /\ Len(pedidos') = Len(pedidos) + 1 /\ Len(pedidos) \in Nat
    BY <2>1, AlAgregar DEF CanalInv
  <2>3. /\ EsCola(respuestas') /\ Len(respuestas') = Len(respuestas) - 1
        /\ Len(respuestas) \in Nat /\ Len(respuestas) >= 1
    BY <2>1, AlSacar DEF CanalInv, LeerPalabra
  <2>4. CanalCuadra'
    BY <2>1, <2>2, <2>3 DEF CanalInv, CanalCuadra
  <2>5. ASSUME sinLeer' = 0 PROVE EnOrden'
    <3>1. Len(pedidos) = 0 /\ Len(respuestas') = 0
      BY <2>1, <2>2, <2>3, <2>5 DEF CanalInv, CanalCuadra
    <3>2. pedidos = <<>> /\ respuestas' = <<>>
      BY <2>3, <3>1, ColaCorta DEF CanalInv
    <3>3. Head(pedidos') = m
      BY <2>1, <3>2, AlAgregar DEF CanalInv
    <3> QED BY <2>1, <3>2, <3>3 DEF EnOrden
  <2>6. EnOrden'
    BY <2>5 DEF EnOrden
  <2> QED BY <2>1, <2>2, <2>3, <2>4, <2>6 DEF CanalInv
<1>18. CASE UltimoNivel
  <2>1. /\ LeerPalabra /\ pedidos' = pedidos /\ sinLeer' = sinLeer
        /\ cpu.pc = "esperaNivel" /\ cpu'.pc \in {"accede", "actualiza", "desalojaEnvia"}
    BY <1>18 DEF UltimoNivel, ConMarco, CpuInv, Campos
  <2> QED BY <2>1, AlLeer
<1>19. CASE Acceder
  <2>1. cpu.pc = "accede" /\ cpu'.pc = "esperaAcceso" /\ cpu.instr \in {"READ", "WRITE"} /\ cpu'.instr = cpu.instr
    BY <1>19 DEF Acceder, CpuInv, Campos, EnAcceso
  <2> QED BY <1>19, <2>1, AlEnviar DEF Acceder, Enviar, Pedido, TipoDe, Esperada
<1>20. CASE Desalojar
  <2>1. cpu.pc = "desaloja" /\ cpu'.pc \in {"marco", "desaloja", "abortada"} /\ UNCHANGED canalVars
    BY <1>20, AlSoltar DEF Desalojar, PedirMarco, CpuInv, Campos
  <2> QED BY <2>1, AlCallar
<1>21. CASE DesalojarEnvia
  <2>1. cpu.pc = "desalojaEnvia" /\ cpu'.pc \in {"desaloja", "abortada"}
    BY <1>21, AlSoltar DEF DesalojarEnvia, CpuInv, Campos
  <2> QED BY <1>21, <2>1, AlOlvidar DEF DesalojarEnvia, Enviar
<1> QED BY <1>1, <1>2, <1>3, <1>4, <1>5, <1>6, <1>7, <1>8, <1>9, <1>10, <1>11, <1>12, <1>13, <1>14,
           <1>15, <1>16, <1>17, <1>18, <1>19, <1>20, <1>21 DEF Next, Cpu, Memoria

LEMMA UnaSola ==
    ASSUME NEW a \in Nat, NEW b \in Nat, b # 0, a + b = 1
    PROVE  a = 0 /\ b = 1
OBVIOUS

LEMMA CanalSiempre == Spec => [](CpuInv /\ CanalInv)
<1>1. Init => CpuInv /\ CanalInv
  BY CpuInvInicial, CanalInvInicial
<1>2. CpuInv /\ CanalInv /\ [Next]_vars => (CpuInv /\ CanalInv)'
  BY CpuInvPasos, CanalInvPasos
<1> QED BY <1>1, <1>2, PTL DEF Spec

\* The connection holds one reply for what the CPU waits for and one for each that
\* it never reads (algoritmoClockM, desalojarProcesoCache): every request that
\* manejar_cliente_cpu takes is answered once.
THEOREM SpecCanalCuadra == Spec => []CanalCuadra
<1>1. CanalInv => CanalCuadra
  BY DEF CanalInv
<1> QED BY <1>1, CanalSiempre, PTL

\* Until the first reply left unread, the reply that the CPU takes at any point of
\* the cycle is the one to what it asked there.
THEOREM SpecEnFase == Spec => []EnFase
<1>1. CpuInv /\ CanalInv => EnFase
  <2> SUFFICES ASSUME CpuInv, CanalInv, sinLeer = 0, respuestas # <<>>
               PROVE  /\ cpu.pc \in Esperando
                      /\ respuestas = <<Head(respuestas)>> /\ pedidos = <<>>
                      /\ Head(respuestas).tipo = Esperada
    BY DEF EnFase
  <2>1. cpu.pc # "perdida"
    BY DEF CanalInv
  <2>2. /\ Len(respuestas) \in Nat /\ Len(pedidos) \in Nat /\ Len(respuestas) # 0
    BY ColaCorta DEF CanalInv
  <2>3. Len(pedidos) + Len(respuestas) = IF cpu.pc \in Esperando THEN 1 ELSE 0
    BY <2>1, <2>2 DEF CanalInv, CanalCuadra
  <2>4. cpu.pc \in Esperando /\ Len(respuestas) = 1 /\ Len(pedidos) = 0
    <3>1. CASE cpu.pc \in Esperando
      <4>1. Len(pedidos) + Len(respuestas) = 1
        BY <2>3, <3>1
      <4> QED BY <2>2, <3>1, <4>1, UnaSola
    <3>2. CASE cpu.pc \notin Esperando
      <4>1. Len(pedidos) + Len(respuestas) = 0
        BY <2>3, <3>2
      <4> QED BY <2>2, <4>1
    <3> QED BY <3>1, <3>2
  <2> QED BY <2>1, <2>4, ColaCorta DEF CanalInv, EnOrden
<1> QED BY <1>1, CanalSiempre, PTL

-----------------------------------------------------------------------------
(* The entries of the cache.                                               *)

Casilla == [numPag : NrosPagina \cup {-1}, uso : {-1, 0, 1}, modificado : {-1, 0, 1}]

\* While a page is brought in it is nowhere in the cache.
CacheInv ==
    /\ cache \in [Casillas -> Casilla]
    /\ punteroCache \in Casillas
    /\ cpu.pag \in NrosPagina \cup {-1}
    /\ PaginasUnicas
    /\ EnReemplazo => ~EstaEnCache(cpu.pag)

LEMMA CacheInvInicial == Init => CacheInv
<1> SUFFICES ASSUME Init PROVE CacheInv
  OBVIOUS
<1>1. 1 \in Casillas
  BY CacheAssumption DEF Casillas
<1>2. Libre \in Casilla
  BY DEF Libre, Casilla
<1>3. cpu.pc = "lista" /\ cpu.pag = -1
  BY DEF Init, Ocioso
<1> QED BY <1>1, <1>2, <1>3 DEF Init, CacheInv, PaginasUnicas, Libre, EnReemplazo, BuscaMarco

\* The first free entry is an entry.
LEMMA PrimeraLibre == CasillasLibres # {} => Min(CasillasLibres) \in CasillasLibres
<1> SUFFICES ASSUME CasillasLibres # {} PROVE Min(CasillasLibres) \in CasillasLibres
  OBVIOUS
<1>1. CasillasLibres \subseteq Nat
  BY CacheAssumption DEF CasillasLibres, Casillas
<1>2. IsWellFoundedOn(OpToRel(<, Nat), Nat)
  BY NatLessThanWellFounded
<1>3. PICK m \in CasillasLibres : \A n \in CasillasLibres : <<n, m>> \notin OpToRel(<, Nat)
  BY <1>1, <1>2, WFMin
<1>4. \A n \in CasillasLibres : m <= n
  <2> SUFFICES ASSUME NEW n \in CasillasLibres, n < m PROVE FALSE
    BY <1>1
  <2>1. <<n, m>> \in OpToRel(<, Nat)
    BY <1>1 DEF OpToRel
  <2> QED BY <1>3, <2>1
<1> QED BY <1>4 DEF Min

\* A page that is not in the cache comes into an entry of it.
LEMMA AlCargar ==
    ASSUME CacheInv, ~EstaEnCache(cpu.pag), NEW k \in Casillas, NEW b \in {0, 1},
           cache' = [cache EXCEPT ![k] = Cargada(b)],
           punteroCache' = punteroCache, cpu.pag' = cpu.pag, ~EnReemplazo'
    PROVE  CacheInv'
<1>1. Cargada(b) \in Casilla /\ Cargada(b).numPag = cpu.pag
  BY DEF CacheInv, Cargada, Casilla
<1>2. cache' \in [Casillas -> Casilla]
  BY <1>1 DEF CacheInv
<1>3. \A i \in Casillas : cache'[i].numPag = IF i = k THEN cpu.pag ELSE cache[i].numPag
  BY <1>1 DEF CacheInv
<1>4. PaginasUnicas'
  <2> SUFFICES ASSUME NEW i \in Casillas, NEW j \in Casillas,
                      cache'[i].numPag # -1, cache'[i].numPag = cache'[j].numPag
               PROVE  i = j
    BY DEF PaginasUnicas, Casillas
  <2>1. CASE i # k /\ j # k
    BY <1>3, <2>1 DEF CacheInv, PaginasUnicas
  <2>2. CASE i = k /\ j # k
    BY <1>3, <2>2 DEF EstaEnCache
  <2>3. CASE i # k /\ j = k
    BY <1>3, <2>3 DEF EstaEnCache
  <2> QED BY <2>1, <2>2, <2>3
<1> QED BY <1>2, <1>4 DEF CacheInv, Casillas

\* The entries keep their pages, or lose them.
LEMMA AlConservar ==
    ASSUME CacheInv, cache' \in [Casillas -> Casilla],
           \A i \in Casillas : cache'[i].numPag \in {cache[i].numPag, -1},
           punteroCache' \in Casillas, cpu.pag' \in NrosPagina \cup {-1},
           \/ ~EnReemplazo'
           \/ cpu.pag' # -1 /\ ~EstaEnCache(cpu.pag')
           \/ EnReemplazo /\ cpu.pag' = cpu.pag /\ \A i \in Casillas : cache'[i].numPag = cache[i].numPag
    PROVE  CacheInv'
<1>1. PaginasUnicas'
  BY DEF CacheInv, PaginasUnicas, Casillas
<1>2. EnReemplazo' => ~EstaEnCache(cpu.pag)'
  BY DEF CacheInv, EstaEnCache, Casillas
<1> QED BY <1>1, <1>2 DEF CacheInv, Casillas

LEMMA CacheInvPasos == CpuInv /\ CacheInv /\ [Next]_vars => CacheInv'
<1> SUFFICES ASSUME CpuInv, CacheInv, [Next]_vars PROVE CacheInv'
  OBVIOUS
<1>1. CASE UNCHANGED vars
  BY <1>1 DEF vars, cacheVars, CacheInv, PaginasUnicas, EnReemplazo, BuscaMarco, EstaEnCache
<1>2. CASE ManejarClienteCpu \/ \E p \in Procs : Finalizar(p)
  BY <1>2 DEF ManejarClienteCpu, Finalizar, cacheVars, CacheInv, PaginasUnicas, EnReemplazo, BuscaMarco, EstaEnCache
\* What leaves the cache alone and brings no page in.
<1>3. ASSUME UNCHANGED cacheVars, cpu'.pag \in {cpu.pag, -1},
             cpu'.pc \in {"lista", "fetch", "perdida", "esperaInstruccion", "desaloja", "accede", "esperaAcceso", "desalojaEnvia"}
      PROVE  CacheInv'
  <2>1. ~EnReemplazo'
    BY <1>3 DEF EnReemplazo, BuscaMarco
  <2> QED BY <1>3, <2>1, AlConservar DEF CacheInv, cacheVars
<1>4. CASE SyscallEjecutada
  BY <1>3, <1>4 DEF SyscallEjecutada, Ocioso
<1>5. CASE \E p \in Procs : Despachar(p)
  <2> SUFFICES ASSUME NEW p \in Procs, Despachar(p) PROVE CacheInv'
    BY <1>5
  <2>1. cpu'.pc = "fetch" /\ cpu'.pag = -1 /\ UNCHANGED cacheVars
    BY DEF Despachar, Ocioso
  <2> QED BY <1>3, <2>1
<1>6. CASE LlegaOtraCosa
  <2>1. cpu'.pc = "perdida" /\ cpu'.pag = -1 /\ UNCHANGED cacheVars
    BY <1>6 DEF LlegaOtraCosa, Perderse, Ocioso
  <2> QED BY <1>3, <2>1
<1>7. CASE RespondeRead
  <2>1. cpu'.pc \in {"fetch", "perdida"} /\ cpu'.pag = -1 /\ UNCHANGED cacheVars
    <3>1. CASE Terminar
      BY <1>7, <3>1 DEF RespondeRead, Terminar, Ocioso
    <3>2. CASE Perderse
      BY <1>7, <3>2 DEF RespondeRead, Perderse, Ocioso
    <3> QED BY <1>7, <3>1, <3>2 DEF RespondeRead
  <2> QED BY <1>3, <2>1
<1>8. CASE RespondeWrite
  <2>1. cpu'.pc = "fetch" /\ cpu'.pag = -1 /\ UNCHANGED cacheVars
    BY <1>8 DEF RespondeWrite, Terminar, Ocioso
  <2> QED BY <1>3, <2>1
<1>9. CASE LlegaIo
  <2>1. cpu'.pc = "lista" /\ cpu'.pag = -1 /\ UNCHANGED cacheVars
    BY <1>9 DEF LlegaIo, Ocioso
  <2> QED BY <1>3, <2>1
<1>10. CASE Fetch \/ LlegaExit \/ Acceder
  <2>1. cpu'.pc \in {"esperaInstruccion", "desaloja", "esperaAcceso"} /\ cpu'.pag = cpu.pag /\ UNCHANGED cacheVars
    BY <1>10 DEF Fetch, LlegaExit, Acceder, CpuInv, Campos
  <2> QED BY <1>3, <2>1
<1>11. CASE \E instr \in {"READ", "WRITE"}, pag \in NrosPagina : LlegaAcceso(instr, pag)
  <2> SUFFICES ASSUME NEW instr \in {"READ", "WRITE"}, NEW pag \in NrosPagina, LlegaAcceso(instr, pag)
               PROVE  CacheInv'
    BY <1>11
  <2>1. cpu'.pc = "usaCache" /\ cpu'.pag = pag /\ UNCHANGED cacheVars
    BY DEF LlegaAcceso, CpuInv, Campos
  <2>2. ~EnReemplazo'
    BY <2>1 DEF EnReemplazo, BuscaMarco
  <2> QED BY <2>1, <2>2, AlConservar DEF CacheInv, cacheVars
<1>12. CASE UsarCacheAcierto
  <2>1. cpu'.pc = "marco" /\ cpu'.luego = "accede" /\ cpu'.pag = cpu.pag /\ punteroCache' = punteroCache
    BY <1>12 DEF UsarCacheAcierto, PedirMarco, CpuInv, Campos
  <2>2. ~EnReemplazo'
    BY <2>1 DEF EnReemplazo, BuscaMarco
  <2>3. BitModificado(cpu.instr) \in {0, 1}
    BY DEF BitModificado
  <2>4. /\ cache' \in [Casillas -> Casilla]
        /\ \A i \in Casillas : cache'[i].numPag = cache[i].numPag
    BY <1>12, <2>3 DEF UsarCacheAcierto, CacheInv, Casilla
  <2> QED BY <2>1, <2>2, <2>4, AlConservar DEF CacheInv
<1>13. CASE UsarCacheFallo
  <2>1. /\ ~EstaEnCache(cpu.pag) /\ cpu'.pag = cpu.pag /\ UNCHANGED cacheVars
    BY <1>13 DEF UsarCacheFallo, CpuInv, Campos
  <2> QED BY <2>1 DEF CacheInv, cacheVars, PaginasUnicas, EstaEnCache
<1>14. CASE AgregarPagCache
  <2>1. EnReemplazo /\ ~EstaEnCache(cpu.pag) /\ cpu'.pag = cpu.pag /\ punteroCache' = punteroCache
    BY <1>14 DEF AgregarPagCache, EnReemplazo, PedirMarco, CpuInv, Campos, CacheInv
  <2>2. CASE cache' = cache
    BY <2>1, <2>2 DEF CacheInv, PaginasUnicas, EstaEnCache
  <2>3. CASE /\ CasillasLibres # {}
             /\ Cargar(Min(CasillasLibres), BitModificado(cpu.instr))
             /\ cpu' = PedirMarco(cpu.pag, "accede")
    <3>1. Min(CasillasLibres) \in Casillas
      BY <2>3, PrimeraLibre DEF CasillasLibres
    <3>2. BitModificado(cpu.instr) \in {0, 1}
      BY DEF BitModificado
    <3>3. ~EnReemplazo'
      BY <2>3 DEF PedirMarco, EnReemplazo, BuscaMarco, CpuInv, Campos
    <3> QED BY <2>1, <2>3, <3>1, <3>2, <3>3, AlCargar DEF Cargar
  <2> QED BY <1>14, <2>2, <2>3 DEF AgregarPagCache
<1>15. CASE Avanzar
  <2>1. EnReemplazo /\ cpu' = cpu
    BY <1>15 DEF Avanzar, EnReemplazo
  <2>2. punteroCache' \in Casillas
    BY <1>15, CacheAssumption DEF Avanzar, CacheInv, Casillas
  <2>3. /\ cache' \in [Casillas -> Casilla]
        /\ \A i \in Casillas : cache'[i].numPag = cache[i].numPag
    BY <1>15 DEF Avanzar, CacheInv, Casilla
  <2> QED BY <2>1, <2>2, <2>3, AlConservar DEF CacheInv
<1>16. CASE ReemplazarLimpia \/ RespondeActualizacion \/ ActualizarClockM
  <2>1. /\ EnReemplazo /\ cpu'.pc = "marco" /\ cpu'.luego = "accede"
        /\ cpu'.pag = cpu.pag /\ punteroCache' = punteroCache
    BY <1>16 DEF ReemplazarLimpia, RespondeActualizacion, ActualizarClockM, PedirMarco, EnReemplazo, CpuInv, Campos
  <2>2. ~EnReemplazo'
    BY <2>1 DEF EnReemplazo, BuscaMarco
  <2>3. \E b \in {0, 1} : cache' = [cache EXCEPT ![punteroCache] = Cargada(b)]
    BY <1>16 DEF ReemplazarLimpia, RespondeActualizacion, ActualizarClockM, Cargar, BitModificado
  <2> QED BY <2>1, <2>2, <2>3, AlCargar DEF CacheInv
<1>17. CASE ReemplazarModificada \/ ActualizarClock \/ MarcoANavegar \/ SiguienteNivel
  <2>1. EnReemplazo' => EnReemplazo
    BY <1>17 DEF ReemplazarModificada, ActualizarClock, MarcoANavegar, SiguienteNivel, PedirMarco, PedirNivel,
                 EnReemplazo, BuscaMarco, CpuInv, Campos
  <2>2. cpu'.pag = cpu.pag /\ UNCHANGED cacheVars
    BY <1>17 DEF ReemplazarModificada, ActualizarClock, MarcoANavegar, SiguienteNivel, PedirMarco, PedirNivel,
                 CpuInv, Campos
  <2> QED BY <2>1, <2>2 DEF CacheInv, cacheVars, PaginasUnicas, EstaEnCache
<1>18. CASE MarcoEnTlb \/ UltimoNivel
  <2>1. EnReemplazo' => EnReemplazo
    BY <1>18 DEF MarcoEnTlb, UltimoNivel, ConMarco, EnReemplazo, BuscaMarco, CpuInv, Campos
  <2>2. cpu'.pag = cpu.pag /\ UNCHANGED cacheVars
    BY <1>18 DEF MarcoEnTlb, UltimoNivel, ConMarco, CpuInv, Campos
  <2> QED BY <2>1, <2>2 DEF CacheInv, cacheVars, PaginasUnicas, EstaEnCache
<1>19. CASE Desalojar \/ DesalojarEnvia
  <2>1. cpu'.pag \in {cpu.pag, -1} /\ punteroCache' = punteroCache
    BY <1>19, AlSoltar DEF Desalojar, DesalojarEnvia, PedirMarco, CpuInv, Campos
  <2>2. ~EnReemplazo'
    BY <1>19, AlSoltar DEF Desalojar, DesalojarEnvia, PedirMarco, EnReemplazo, BuscaMarco, CpuInv, Campos
  <2>3. cache' = cache \/ cache' = [cache EXCEPT ![cpu.i] = Libre]
    BY <1>19 DEF Desalojar, DesalojarEnvia, Soltar
  <2>4. Libre \in Casilla /\ Libre.numPag = -1
    BY DEF Libre, Casilla
  <2>5. /\ cache' \in [Casillas -> Casilla]
        /\ \A i \in Casillas : cache'[i].numPag \in {cache[i].numPag, -1}
    BY <2>3, <2>4 DEF CacheInv
  <2> QED BY <2>1, <2>2, <2>5, AlConservar DEF CacheInv
<1> QED BY <1>1, <1>2, <1>4, <1>5, <1>6, <1>7, <1>8, <1>9, <1>10, <1>11, <1>12, <1>13, <1>14,
           <1>15, <1>16, <1>17, <1>18, <1>19 DEF Next, Cpu, Memoria

\* Whichever clock runs, and however EXIT and IO cut in, no page is in two entries
\* of the cache (agregarPagCache, algoritmoClock, algoritmoClockM).
THEOREM SpecPaginasUnicas == Spec => []PaginasUnicas
<1>1. Init => CpuInv /\ CacheInv
  BY CpuInvInicial, CacheInvInicial
<1>2. CpuInv /\ CacheInv /\ [Next]_vars => (CpuInv /\ CacheInv)'
  BY CpuInvPasos, CacheInvPasos
<1>3. CacheInv => PaginasUnicas
  BY DEF CacheInv
<1> QED BY <1>1, <1>2, <1>3, PTL DEF Spec

-----------------------------------------------------------------------------
(* Types.  That a request carries a process, that a reply is of a known kind   *)
(* and that the walk over the ring stops at its end depend on where the CPU is. *)

Operaciones == {"FETCH_INSTRUCCION", "ENVIO_PID_NROPAG", "ENVIO_PID_Y_ENTRADANIVEL",
                "ENVIO_PID_NROPAG_CONTENIDO_MARCO", "READ", "WRITE"}

LEMMA ConjuntoDeCola ==
    ASSUME NEW s, EsCola(s)
    PROVE  /\ \A e : ToSet(Append(s, e)) \subseteq ToSet(s) \cup {e}
           /\ s # <<>> => ToSet(Tail(s)) \subseteq ToSet(s) /\ Head(s) \in ToSet(s)
<1>1. PICK S : s \in Seq(S)
  BY DEF EsCola
<1>2. Len(s) \in Nat /\ DOMAIN s = 1 .. Len(s)
  BY <1>1
<1>3. ASSUME NEW e
      PROVE  ToSet(Append(s, e)) \subseteq ToSet(s) \cup {e}
  <2> DEFINE T == S \cup {e}
  <2>1. s \in Seq(T) /\ e \in T
    BY <1>1
  <2> HIDE DEF T
  <2>2. /\ DOMAIN Append(s, e) = 1 .. Len(s) + 1
        /\ \A i \in 1 .. Len(s) : Append(s, e)[i] = s[i]
        /\ Append(s, e)[Len(s) + 1] = e
    BY <2>1
  <2>3. \A i \in 1 .. Len(s) + 1 : i \in 1 .. Len(s) \/ i = Len(s) + 1
    BY <1>2
  <2> QED BY <1>2, <2>2, <2>3 DEF ToSet
<1>4. ASSUME s # <<>>
      PROVE  ToSet(Tail(s)) \subseteq ToSet(s) /\ Head(s) \in ToSet(s)
  <2>1. /\ DOMAIN Tail(s) = 1 .. Len(s) - 1
        /\ \A i \in 1 .. Len(s) - 1 : Tail(s)[i] = s[i + 1]
        /\ Head(s) = s[1] /\ Len(s) >= 1
    BY <1>1, <1>4
  <2>2. \A i \in 1 .. Len(s) - 1 : i + 1 \in 1 .. Len(s)
    BY <1>2
  <2>3. 1 \in 1 .. Len(s)
    BY <1>2, <2>1
  <2> QED BY <1>2, <2>1, <2>2, <2>3 DEF ToSet
<1> QED BY <1>3, <1>4

MensajesBien ==
    /\ \A m \in ToSet(pedidos) : m.pid \in Procs /\ m.op \in Operaciones
    /\ \A r \in ToSet(respuestas) : r.tipo \in Tipos

\* The process the CPU has, the level it is at and the entry it empties.
CpuEnSuSitio ==
    /\ cpu.pid \in Procs \cup {Nadie}
    /\ cpu.pc # "lista" => cpu.pid \in Procs
    /\ cpu.nivel \in 0 .. CANTIDAD_NIVELES
    /\ cpu.i \in 0 .. ENTRADAS_CACHE + 1
    /\ cpu.pc = "desaloja" => cpu.i \in 1 .. ENTRADAS_CACHE + 1
    /\ cpu.pc = "desalojaEnvia" \/ BuscaMarco("desalojaEnvia") => cpu.i \in 1 .. ENTRADAS_CACHE

ProcesosBien ==
    /\ estado \in [Procs -> {"listo", "ejecuta", "saliendo", "terminado"}]
    /\ DOMAIN restan = Procs
    /\ \A p \in Procs : restan[p] \in 0 .. MaxAccesos[p]

TiposInv ==
    MensajesBien /\ CpuEnSuSitio /\ ProcesosBien /\ reemplazoCache \in Algoritmos /\ liberadas \subseteq Casillas

LEMMA TiposInvInicial == Init => TiposInv
<1> SUFFICES ASSUME Init PROVE TiposInv
  OBVIOUS
<1>1. MensajesBien
  <2>1. ToSet(<<>>) = {}
    BY DEF ToSet
  <2> QED BY <2>1 DEF Init, MensajesBien
<1>2. cpu.pc = "lista" /\ cpu.pid = Nadie /\ cpu.nivel = 0 /\ cpu.i = 0
  BY DEF Init, Ocioso
<1>3. CpuEnSuSitio
  BY <1>2, PaginacionAssumption, CacheAssumption DEF CpuEnSuSitio, BuscaMarco
<1>4. ProcesosBien
  <2>1. MaxAccesos \in [Procs -> Nat] /\ restan = MaxAccesos
    BY CacheAssumption DEF Init
  <2>2. \A p \in Procs : restan[p] \in 0 .. MaxAccesos[p]
    BY <2>1
  <2> QED BY <2>1, <2>2 DEF Init, ProcesosBien
<1> QED BY <1>1, <1>3, <1>4 DEF TiposInv, Init

\* A request goes out with the process of the CPU; a reply comes in.
LEMMA AlEnviarBien ==
    ASSUME EsCola(pedidos), MensajesBien, cpu.pid \in Procs,
           NEW op \in Operaciones, NEW pag, NEW marco, Enviar(op, pag, marco),
           ToSet(respuestas') \subseteq ToSet(respuestas)
    PROVE  MensajesBien'
<1>1. Pedido(op, pag, marco).pid \in Procs /\ Pedido(op, pag, marco).op \in Operaciones
  BY DEF Pedido
<1>2. ToSet(pedidos') \subseteq ToSet(pedidos) \cup {Pedido(op, pag, marco)}
  BY ConjuntoDeCola DEF Enviar
<1> QED BY <1>1, <1>2 DEF MensajesBien

LEMMA AlLeerBien ==
    ASSUME EsCola(respuestas), LeerPalabra
    PROVE  ToSet(respuestas') \subseteq ToSet(respuestas)
BY ConjuntoDeCola DEF LeerPalabra

LEMMA AlContestarBien ==
    ASSUME EsCola(pedidos), EsCola(respuestas), MensajesBien, ManejarClienteCpu
    PROVE  MensajesBien'
<1> DEFINE m == Head(pedidos)
<1>1. m.op \in Operaciones /\ ToSet(pedidos') \subseteq ToSet(pedidos)
  BY ConjuntoDeCola DEF ManejarClienteCpu, MensajesBien
<1>2. Contesta(m).tipo \in Tipos
  <2> HIDE DEF m
  <2> QED BY <1>1 DEF Contesta, Respuesta, Operaciones, Tipos
<1>3. ToSet(respuestas') \subseteq ToSet(respuestas) \cup {Contesta(m)}
  BY ConjuntoDeCola DEF ManejarClienteCpu
<1> QED BY <1>1, <1>2, <1>3 DEF MensajesBien

LEMMA CallarBien ==
    ASSUME MensajesBien, pedidos' = pedidos, ToSet(respuestas') \subseteq ToSet(respuestas)
    PROVE  MensajesBien'
BY DEF MensajesBien

LEMMA MensajesBienPasos ==
    ASSUME CpuInv, CanalInv, TiposInv, [Next]_vars
    PROVE  MensajesBien'
<1>1. EsCola(pedidos) /\ EsCola(respuestas) /\ MensajesBien
  BY DEF CanalInv, TiposInv
<1>2. cpu.pc # "lista" => cpu.pid \in Procs
  BY DEF TiposInv, CpuEnSuSitio
<1>3. ASSUME UNCHANGED <<pedidos, respuestas>> PROVE MensajesBien'
  BY <1>1, <1>3 DEF MensajesBien
<1>4. ASSUME pedidos' = pedidos, LeerPalabra PROVE MensajesBien'
  BY <1>1, <1>4, AlLeerBien, CallarBien
<1>5. ASSUME cpu.pc # "lista", ToSet(respuestas') \subseteq ToSet(respuestas),
             NEW op \in Operaciones, NEW pag, NEW marco, Enviar(op, pag, marco)
      PROVE  MensajesBien'
  BY <1>1, <1>2, <1>5, AlEnviarBien
<1>6. ASSUME pedidos' = <<>>, respuestas' = <<>> PROVE MensajesBien'
  <2>1. ToSet(<<>>) = {}
    BY DEF ToSet
  <2> QED BY <1>6, <2>1 DEF MensajesBien
<1>7. CASE ManejarClienteCpu
  BY <1>1, <1>7, AlContestarBien
<1>8. CASE \/ Avanzar \/ SyscallEjecutada \/ UsarCacheAcierto \/ ReemplazarLimpia \/ ReemplazarModificada
           \/ MarcoEnTlb \/ Desalojar \/ UNCHANGED vars
           \/ \E p \in Procs : Finalizar(p) \/ Despachar(p)
  BY <1>3, <1>8 DEF Avanzar, SyscallEjecutada, UsarCacheAcierto, ReemplazarLimpia, ReemplazarModificada,
                    MarcoEnTlb, Desalojar, vars, Finalizar, Despachar, canalVars
<1>9. CASE \/ LlegaExit \/ LlegaIo \/ AgregarPagCache \/ RespondeActualizacion \/ UltimoNivel \/ RespondeWrite
           \/ \E instr \in {"READ", "WRITE"}, pag \in NrosPagina : LlegaAcceso(instr, pag)
  BY <1>4, <1>9 DEF LlegaExit, LlegaIo, AgregarPagCache, RespondeActualizacion, UltimoNivel,
                    RespondeWrite, LlegaAcceso
<1>10. CASE LlegaOtraCosa
  BY <1>6, <1>10 DEF LlegaOtraCosa, Perderse
<1>11. CASE RespondeRead
  BY <1>4, <1>6, <1>11 DEF RespondeRead, Perderse
<1>12. CASE Fetch \/ UsarCacheFallo \/ ActualizarClock \/ ActualizarClockM \/ DesalojarEnvia
  <2>1. \E op \in Operaciones : \E pag, marco : Enviar(op, pag, marco)
    BY <1>12 DEF Fetch, UsarCacheFallo, ActualizarClock, ActualizarClockM, DesalojarEnvia, Operaciones
  <2>2. cpu.pc # "lista" /\ respuestas' = respuestas
    BY <1>12 DEF Fetch, UsarCacheFallo, ActualizarClock, ActualizarClockM, DesalojarEnvia
  <2> QED BY <1>5, <2>1, <2>2
<1>13. CASE Acceder
  <2>1. cpu.pc = "accede" /\ Enviar(cpu.instr, cpu.pag, -1) /\ respuestas' = respuestas
    BY <1>13 DEF Acceder
  <2>2. cpu.instr \in Operaciones
    BY <2>1 DEF CpuInv, EnAcceso, Operaciones
  <2> QED BY <1>5, <2>1, <2>2
<1>14. CASE MarcoANavegar \/ SiguienteNivel
  <2>1. \E pag : Enviar("ENVIO_PID_Y_ENTRADANIVEL", pag, -1)
    BY <1>14 DEF MarcoANavegar, SiguienteNivel, PedirNivel
  <2>2. cpu.pc # "lista" /\ (respuestas' = respuestas \/ LeerPalabra)
    BY <1>14 DEF MarcoANavegar, SiguienteNivel
  <2>3. ToSet(respuestas') \subseteq ToSet(respuestas)
    BY <1>1, <2>2, AlLeerBien
  <2>4. "ENVIO_PID_Y_ENTRADANIVEL" \in Operaciones
    BY DEF Operaciones
  <2> QED BY <1>5, <2>1, <2>2, <2>3, <2>4
<1> QED BY <1>7, <1>8, <1>9, <1>10, <1>11, <1>12, <1>13, <1>14 DEF Next, Cpu, Memoria

LEMMA CpuEnSuSitioPasos ==
    ASSUME CpuInv, CpuEnSuSitio, [Next]_vars
    PROVE  CpuEnSuSitio'
<1> USE DEF CpuEnSuSitio, BuscaMarco
<1>0. /\ 1 \in 1 .. ENTRADAS_CACHE + 1 /\ 1 \in 0 .. ENTRADAS_CACHE + 1 /\ 0 \in 0 .. ENTRADAS_CACHE + 1
      /\ 0 \in 0 .. CANTIDAD_NIVELES /\ 1 \in 0 .. CANTIDAD_NIVELES
      /\ CANTIDAD_NIVELES \in Nat /\ ENTRADAS_CACHE \in Nat
      /\ Nadie \notin Procs
  BY PaginacionAssumption, CacheAssumption
\* The CPU starts over.
<1>1. ASSUME cpu'.pid \in Procs \cup {Nadie}, cpu'.pc # "lista" => cpu'.pid \in Procs,
             cpu'.nivel = 0, cpu'.i = 0, cpu'.pc \in {"lista", "fetch", "perdida", "abortada"}
      PROVE  CpuEnSuSitio'
  BY <1>0, <1>1
<1>2. CASE LlegaIo \/ SyscallEjecutada
  <2>1. cpu' = Ocioso
    BY <1>2 DEF LlegaIo, SyscallEjecutada
  <2> QED BY <1>1, <2>1 DEF Ocioso
<1>3. ASSUME NEW p \in Procs, Despachar(p) PROVE CpuEnSuSitio'
  <2>1. cpu'.pid = p /\ cpu'.pc = "fetch" /\ cpu'.nivel = 0 /\ cpu'.i = 0
    BY <1>3 DEF Despachar, Ocioso
  <2> QED BY <1>1, <2>1
<1>4. CASE LlegaOtraCosa \/ RespondeRead \/ RespondeWrite
  <2>1. Terminar \/ Perderse
    BY <1>4 DEF LlegaOtraCosa, RespondeRead, RespondeWrite
  <2>2. cpu'.pid = cpu.pid /\ cpu'.pc \in {"fetch", "perdida"} /\ cpu'.nivel = 0 /\ cpu'.i = 0
    <3>1. CASE Terminar
      BY <3>1 DEF Terminar, Ocioso
    <3>2. CASE Perderse
      BY <3>2 DEF Perderse, Ocioso
    <3> QED BY <2>1, <3>1, <3>2
  <2>3. cpu.pid \in Procs
    BY <1>4 DEF LlegaOtraCosa, RespondeRead, RespondeWrite
  <2> QED BY <1>1, <2>2, <2>3
\* The CPU goes on with the same process, and the entry it empties stays.
<1>5. ASSUME cpu'.pid = cpu.pid, cpu.pc # "lista", cpu'.pc # "lista", cpu'.i = cpu.i,
             cpu'.nivel \in 0 .. CANTIDAD_NIVELES, cpu'.pc # "desaloja",
             \/ cpu'.pc # "desalojaEnvia" /\ ~BuscaMarco("desalojaEnvia")'
             \/ BuscaMarco("desalojaEnvia")
      PROVE  CpuEnSuSitio'
  BY <1>5
<1>6. CASE UNCHANGED vars \/ Avanzar \/ ManejarClienteCpu \/ \E p \in Procs : Finalizar(p)
  BY <1>6 DEF vars, Avanzar, ManejarClienteCpu, Finalizar
<1>7. CASE Fetch \/ UsarCacheFallo \/ ActualizarClock \/ Acceder
           \/ \E instr \in {"READ", "WRITE"}, pag \in NrosPagina : LlegaAcceso(instr, pag)
  <2>1. CASE Fetch \/ UsarCacheFallo
    BY <1>5, <2>1 DEF Fetch, UsarCacheFallo, CpuInv, Campos
  <2>2. CASE ActualizarClock \/ Acceder
    BY <1>5, <2>2 DEF ActualizarClock, Acceder, CpuInv, Campos
  <2>3. CASE \E instr \in {"READ", "WRITE"}, pag \in NrosPagina : LlegaAcceso(instr, pag)
    BY <1>5, <2>3 DEF LlegaAcceso, CpuInv, Campos
  <2> QED BY <1>7, <2>1, <2>2, <2>3
<1>8. CASE \/ UsarCacheAcierto \/ AgregarPagCache
           \/ ReemplazarLimpia \/ ReemplazarModificada \/ RespondeActualizacion \/ ActualizarClockM
  BY <1>5, <1>8 DEF UsarCacheAcierto, AgregarPagCache, ReemplazarLimpia, ReemplazarModificada,
                    RespondeActualizacion, ActualizarClockM, PedirMarco, CpuInv, Campos
<1>9. CASE MarcoEnTlb \/ UltimoNivel
  BY <1>0, <1>5, <1>9 DEF MarcoEnTlb, UltimoNivel, ConMarco, CpuInv, Campos
<1>10. CASE MarcoANavegar \/ SiguienteNivel
  <2>1. cpu'.nivel = 1 \/ (cpu'.nivel = cpu.nivel + 1 /\ cpu.nivel < CANTIDAD_NIVELES)
    BY <1>10 DEF MarcoANavegar, SiguienteNivel, PedirNivel, CpuInv, Campos
  <2>2. cpu'.nivel \in 0 .. CANTIDAD_NIVELES
    <3>1. cpu.nivel \in 0 .. CANTIDAD_NIVELES
      OBVIOUS
    <3> QED BY <1>0, <2>1, <3>1
  <2>3. /\ cpu.pc \in {"marco", "esperaNivel"} /\ cpu'.pc = "esperaNivel"
        /\ cpu'.pid = cpu.pid /\ cpu'.i = cpu.i /\ cpu'.luego = cpu.luego
    BY <1>10 DEF MarcoANavegar, SiguienteNivel, PedirNivel, CpuInv, Campos
  <2> QED BY <1>5, <2>2, <2>3
<1>11. CASE LlegaExit
  BY <1>0, <1>11 DEF LlegaExit, CpuInv, Campos
<1>14. ASSUME Soltar, cpu.i \in 1 .. ENTRADAS_CACHE, cpu.pid \in Procs PROVE CpuEnSuSitio'
  <2>1. CASE cpu'.pc = "abortada"
    BY <1>1, <1>14, <2>1, AlSoltar DEF CpuInv
  <2>2. CASE cpu'.pc = "desaloja"
    <3>1. cpu'.pid = cpu.pid /\ cpu'.i = cpu.i + 1 /\ cpu'.nivel = cpu.nivel
      BY <1>14, <2>2, AlSoltar DEF CpuInv
    <3>2. cpu.i + 1 \in 1 .. ENTRADAS_CACHE + 1 /\ cpu.i + 1 \in 0 .. ENTRADAS_CACHE + 1
      BY <1>0, <1>14
    <3> QED BY <1>14, <2>2, <3>1, <3>2
  <2> QED BY <1>14, <2>1, <2>2, AlSoltar DEF CpuInv
<1>12. CASE Desalojar
  <2>1. CASE cpu' = PedirMarco(cache[cpu.i].numPag, "desalojaEnvia")
    <3>1. cpu.pc = "desaloja" /\ cpu.i <= ENTRADAS_CACHE /\ cpu.i \in 1 .. ENTRADAS_CACHE + 1
      BY <1>12 DEF Desalojar
    <3>2. cpu.i \in 1 .. ENTRADAS_CACHE
      BY <1>0, <3>1
    <3>3. cpu'.pc = "marco" /\ cpu'.pid = cpu.pid /\ cpu'.i = cpu.i /\ cpu'.nivel = cpu.nivel
      BY <2>1 DEF PedirMarco, CpuInv, Campos
    <3> QED BY <3>1, <3>2, <3>3
  <2>2. CASE Soltar
    <3>1. cpu.pc = "desaloja" /\ cpu.i <= ENTRADAS_CACHE /\ cpu.i \in 1 .. ENTRADAS_CACHE + 1
      BY <1>12 DEF Desalojar
    <3>2. cpu.i \in 1 .. ENTRADAS_CACHE /\ cpu.pid \in Procs
      BY <1>0, <3>1
    <3> QED BY <2>2, <3>2, <1>14
  <2> QED BY <1>12, <2>1, <2>2 DEF Desalojar
<1>13. CASE DesalojarEnvia
  <2>1. cpu.pc = "desalojaEnvia" /\ cpu.i \in 1 .. ENTRADAS_CACHE
    BY <1>13 DEF DesalojarEnvia
  <2> QED BY <1>13, <1>14, <2>1 DEF DesalojarEnvia
<1> QED BY <1>2, <1>3, <1>4, <1>6, <1>7, <1>8, <1>9, <1>10, <1>11, <1>12, <1>13 DEF Next, Cpu, Memoria

LEMMA ProcesosBienPasos ==
    ASSUME CpuEnSuSitio, ProcesosBien, [Next]_vars
    PROVE  ProcesosBien'
<1>1. CASE \E instr \in {"READ", "WRITE"}, pag \in NrosPagina : LlegaAcceso(instr, pag)
  <2>1. /\ restan' = [restan EXCEPT ![cpu.pid] = @ - 1] /\ restan[cpu.pid] > 0
        /\ estado' = estado /\ cpu.pid \in Procs
    BY <1>1 DEF LlegaAcceso, CpuEnSuSitio
  <2>2. MaxAccesos[cpu.pid] \in Nat
    BY <2>1, CacheAssumption
  <2>3. restan[cpu.pid] - 1 \in 0 .. MaxAccesos[cpu.pid]
    BY <2>1, <2>2 DEF ProcesosBien
  <2> QED BY <2>1, <2>3 DEF ProcesosBien
<1>2. CASE LlegaExit \/ LlegaIo \/ \E p \in Procs : Despachar(p) \/ Finalizar(p)
  BY <1>2 DEF LlegaExit, LlegaIo, Despachar, Finalizar, ProcesosBien
<1>3. CASE UNCHANGED procVars
  BY <1>3 DEF procVars, ProcesosBien
<1> QED BY <1>1, <1>2, <1>3
        DEF Next, Cpu, Memoria, vars, Fetch, LlegaOtraCosa, UsarCacheAcierto, UsarCacheFallo,
            AgregarPagCache, Avanzar, ReemplazarLimpia, ReemplazarModificada, ActualizarClock,
            RespondeActualizacion, ActualizarClockM, MarcoEnTlb, MarcoANavegar, SiguienteNivel,
            UltimoNivel, Acceder, RespondeWrite, RespondeRead, Desalojar, DesalojarEnvia,
            SyscallEjecutada, ManejarClienteCpu

LEMMA AlgoritmoFijo ==
    ASSUME [Next]_vars
    PROVE  reemplazoCache' = reemplazoCache
BY DEF Next, Cpu, Memoria, vars, cacheVars, Despachar, Fetch, LlegaAcceso, LlegaExit, LlegaIo, LlegaOtraCosa,
       UsarCacheAcierto, UsarCacheFallo,
       AgregarPagCache, Avanzar, ReemplazarLimpia, ReemplazarModificada, ActualizarClock,
       RespondeActualizacion, ActualizarClockM, MarcoEnTlb, MarcoANavegar, SiguienteNivel,
       UltimoNivel, Acceder, RespondeWrite, RespondeRead, Desalojar, DesalojarEnvia,
       SyscallEjecutada, ManejarClienteCpu, Finalizar

LEMMA LiberadasPasos ==
    ASSUME CacheInv, CpuEnSuSitio, liberadas \subseteq Casillas, [Next]_vars
    PROVE  liberadas' \subseteq Casillas
<1>1. ASSUME NEW k, NEW b, Cargar(k, b) PROVE liberadas' \subseteq Casillas
  BY <1>1 DEF Cargar
<1>2. CASE AgregarPagCache \/ ReemplazarLimpia \/ RespondeActualizacion \/ ActualizarClockM
  BY <1>1, <1>2 DEF AgregarPagCache, ReemplazarLimpia, RespondeActualizacion, ActualizarClockM
<1>3. ASSUME Soltar, cpu.i \in Casillas PROVE liberadas' \subseteq Casillas
  BY <1>3 DEF Soltar
<1>4. CASE Desalojar
  <2>1. cpu.i \in Casillas
    <3>1. cpu.i \in 1 .. ENTRADAS_CACHE + 1 /\ cpu.i <= ENTRADAS_CACHE
      BY <1>4 DEF Desalojar, CpuEnSuSitio
    <3> QED BY <3>1, CacheAssumption DEF Casillas
  <2> QED BY <1>3, <1>4, <2>1 DEF Desalojar
<1>5. CASE DesalojarEnvia
  BY <1>3, <1>5 DEF DesalojarEnvia, CpuEnSuSitio, Casillas
<1>6. CASE UNCHANGED liberadas
  BY <1>6
<1> QED BY <1>2, <1>4, <1>5, <1>6
        DEF Next, Cpu, Memoria, vars, cacheVars, Despachar, Fetch, LlegaAcceso, LlegaExit, LlegaIo, LlegaOtraCosa,
            UsarCacheAcierto, UsarCacheFallo, Avanzar, ReemplazarModificada, ActualizarClock,
            MarcoEnTlb, MarcoANavegar, SiguienteNivel, UltimoNivel, Acceder, RespondeWrite,
            RespondeRead, SyscallEjecutada, ManejarClienteCpu, Finalizar

\* Every request names a process that is on the CPU, every reply is of a kind
\* manejar_cliente_cpu sends, the clock stays on the ring and the emptying of
\* EXIT inside it, whatever path the accesses take.
THEOREM SpecTypeOK == Spec => []TypeOK
<1>1. Init => CacheInv /\ TiposInv
  BY CacheInvInicial, TiposInvInicial
<1>2. CpuInv /\ CanalInv /\ CacheInv /\ TiposInv /\ [Next]_vars => (CacheInv /\ TiposInv)'
  <2> SUFFICES ASSUME CpuInv, CanalInv, CacheInv, TiposInv, [Next]_vars PROVE (CacheInv /\ TiposInv)'
    OBVIOUS
  <2>1. MensajesBien'
    BY MensajesBienPasos
  <2>2. CpuEnSuSitio' /\ ProcesosBien' /\ reemplazoCache' \in Algoritmos /\ liberadas' \subseteq Casillas
    BY CpuEnSuSitioPasos, ProcesosBienPasos, AlgoritmoFijo, LiberadasPasos DEF TiposInv
  <2> QED BY <2>1, <2>2, CacheInvPasos DEF TiposInv
<1>3. CpuInv /\ CanalInv /\ CacheInv /\ TiposInv => TypeOK
  BY DEF CpuInv, CanalInv, CacheInv, TiposInv, MensajesBien, CpuEnSuSitio, ProcesosBien, TypeOK, Casilla
<1> QED BY <1>1, <1>2, <1>3, CanalSiempre, PTL DEF Spec

-----------------------------------------------------------------------------
(* The set of cached pages.  A page is given up only when the ring is full:    *)
(* the clock starts after a look at every entry, and while it turns and the     *)
(* page it chose is written no entry becomes free.                            *)

ConReloj == cpu.pc \in {"reloj", "actualiza", "esperaActualizacion"} \/ BuscaMarco("actualiza")

LlenaInv ==
    /\ EnAcceso => cpu.pag \in NrosPagina
    /\ ConReloj => CasillasLibres = {}

LEMMA LlenaInvInicial == Init => LlenaInv
<1> SUFFICES ASSUME Init PROVE LlenaInv
  OBVIOUS
<1>1. cpu.pc = "lista"
  BY DEF Init, Ocioso
<1> QED BY <1>1 DEF LlenaInv, EnAcceso, EnReemplazo, BuscaMarco, ConReloj

LEMMA LlenaInvPasos ==
    ASSUME CpuInv, CacheInv, LlenaInv, [Next]_vars
    PROVE  LlenaInv'
\* What stays where it is, and what is over.
<1>1. ASSUME cache' = cache, cpu' = cpu PROVE LlenaInv'
  BY <1>1 DEF LlenaInv, EnAcceso, EnReemplazo, BuscaMarco, ConReloj, CasillasLibres
<1>2. ASSUME cpu'.pc \in {"lista", "fetch", "perdida", "abortada", "esperaInstruccion", "desaloja", "desalojaEnvia"}
      PROVE  LlenaInv'
  BY <1>2 DEF LlenaInv, EnAcceso, EnReemplazo, BuscaMarco, ConReloj
\* What goes on with an access.
<1>3. ASSUME EnAcceso, cpu'.pag = cpu.pag,
             \/ ~ConReloj'
             \/ ConReloj /\ cache' = cache
             \/ CasillasLibres' = {}
      PROVE  LlenaInv'
  <2>1. ConReloj' => CasillasLibres' = {}
    BY <1>3 DEF LlenaInv, CasillasLibres
  <2> QED BY <1>3, <2>1 DEF LlenaInv
<1>4. ASSUME cpu'.pc \in {"marco", "esperaNivel"}, cpu'.luego = "desalojaEnvia"
      PROVE  LlenaInv'
  BY <1>4 DEF LlenaInv, EnAcceso, EnReemplazo, BuscaMarco, ConReloj
<1>5. CASE UNCHANGED vars \/ ManejarClienteCpu \/ \E p \in Procs : Finalizar(p)
  BY <1>1, <1>5 DEF vars, cacheVars, ManejarClienteCpu, Finalizar
<1>6. CASE SyscallEjecutada \/ LlegaIo
  BY <1>2, <1>6 DEF SyscallEjecutada, LlegaIo, Ocioso
<1>7. CASE \E p \in Procs : Despachar(p)
  BY <1>2, <1>7 DEF Despachar, Ocioso
<1>8. CASE LlegaOtraCosa
  BY <1>2, <1>8 DEF LlegaOtraCosa, Perderse, Ocioso
<1>9. CASE RespondeRead
  <2>1. cpu'.pc \in {"fetch", "perdida"}
    <3>1. CASE Terminar
      BY <3>1 DEF Terminar, Ocioso
    <3>2. CASE Perderse
      BY <3>2 DEF Perderse, Ocioso
    <3> QED BY <1>9, <3>1, <3>2 DEF RespondeRead
  <2> QED BY <1>2, <2>1
<1>10. CASE RespondeWrite
  BY <1>2, <1>10 DEF RespondeWrite, Terminar, Ocioso
<1>11. CASE Fetch \/ LlegaExit
  BY <1>2, <1>11 DEF Fetch, LlegaExit, CpuInv, Campos
<1>12. CASE \E instr \in {"READ", "WRITE"}, pag \in NrosPagina : LlegaAcceso(instr, pag)
  <2>1. PICK instr \in {"READ", "WRITE"}, pag \in NrosPagina : LlegaAcceso(instr, pag)
    BY <1>12
  <2>2. cpu'.pc = "usaCache" /\ cpu'.pag = pag
    BY <2>1 DEF LlegaAcceso, CpuInv, Campos
  <2> QED BY <2>2 DEF LlenaInv, EnAcceso, EnReemplazo, BuscaMarco, ConReloj
<1>13. CASE UsarCacheAcierto \/ ReemplazarLimpia \/ RespondeActualizacion \/ ActualizarClockM
  <2>1. EnAcceso /\ cpu'.pc = "marco" /\ cpu'.luego = "accede" /\ cpu'.pag = cpu.pag
    BY <1>13 DEF UsarCacheAcierto, ReemplazarLimpia, RespondeActualizacion, ActualizarClockM,
                 PedirMarco, EnAcceso, EnReemplazo, CpuInv, Campos
  <2>2. ~ConReloj'
    BY <2>1 DEF ConReloj, BuscaMarco
  <2> QED BY <1>3, <2>1, <2>2
<1>14. CASE UsarCacheFallo
  <2>1. EnAcceso /\ cpu'.pc = "esperaContenido" /\ cpu'.pag = cpu.pag
    BY <1>14 DEF UsarCacheFallo, EnAcceso, CpuInv, Campos
  <2>2. ~ConReloj'
    BY <2>1 DEF ConReloj, BuscaMarco
  <2> QED BY <1>3, <2>1, <2>2
<1>15. CASE AgregarPagCache
  <2>1. EnAcceso /\ cpu'.pag = cpu.pag
    BY <1>15 DEF AgregarPagCache, PedirMarco, EnAcceso, EnReemplazo, CpuInv, Campos
  <2>2. CASE CasillasLibres = {} /\ cache' = cache
    <3>1. CasillasLibres' = {}
      BY <2>2 DEF CasillasLibres, Casillas
    <3> QED BY <1>3, <2>1, <3>1
  <2>3. CASE cpu' = PedirMarco(cpu.pag, "accede")
    <3>1. cpu'.pc = "marco" /\ cpu'.luego = "accede"
      BY <2>3 DEF PedirMarco, CpuInv, Campos
    <3>2. ~ConReloj'
      BY <3>1 DEF ConReloj, BuscaMarco
    <3> QED BY <1>3, <2>1, <3>2
  <2> QED BY <1>15, <2>2, <2>3 DEF AgregarPagCache
<1>16. CASE Avanzar
  <2>1. EnAcceso /\ cpu' = cpu /\ CasillasLibres = {}
    BY <1>16 DEF Avanzar, EnAcceso, EnReemplazo, LlenaInv, ConReloj
  <2>2. \A i \in Casillas : cache'[i].numPag = cache[i].numPag
    BY <1>16 DEF Avanzar, CacheInv, Casilla
  <2>3. CasillasLibres' = {}
    BY <2>1, <2>2 DEF CasillasLibres, Casillas
  <2> QED BY <1>3, <2>1, <2>3
<1>17. CASE ReemplazarModificada \/ ActualizarClock
  <2>1. EnAcceso /\ ConReloj /\ cpu'.pag = cpu.pag /\ cache' = cache
    BY <1>17 DEF ReemplazarModificada, ActualizarClock, PedirMarco, EnAcceso, EnReemplazo, ConReloj,
                 CpuInv, Campos, cacheVars
  <2> QED BY <1>3, <2>1
<1>18. CASE MarcoANavegar \/ SiguienteNivel
  <2>1. /\ cpu.pc \in {"marco", "esperaNivel"} /\ cpu'.pc \in {"marco", "esperaNivel"}
        /\ cpu'.luego = cpu.luego /\ cpu'.pag = cpu.pag /\ cache' = cache
    BY <1>18 DEF MarcoANavegar, SiguienteNivel, PedirNivel, CpuInv, Campos, cacheVars
  <2>2. CASE cpu.luego = "desalojaEnvia"
    BY <1>4, <2>1, <2>2
  <2>3. CASE cpu.luego \in {"accede", "actualiza"}
    <3>1. EnAcceso
      BY <2>1, <2>3 DEF EnAcceso, EnReemplazo, BuscaMarco
    <3>2. ConReloj' => ConReloj
      BY <2>1 DEF ConReloj, BuscaMarco
    <3> QED BY <1>3, <2>1, <3>1, <3>2
  <2> QED BY <2>1, <2>2, <2>3 DEF CpuInv
<1>19. CASE MarcoEnTlb \/ UltimoNivel
  <2>1. /\ cpu.pc \in {"marco", "esperaNivel"} /\ cpu'.pc = cpu.luego
        /\ cpu'.pag = cpu.pag /\ cache' = cache
    BY <1>19 DEF MarcoEnTlb, UltimoNivel, ConMarco, CpuInv, Campos, cacheVars
  <2>2. CASE cpu.luego = "desalojaEnvia"
    BY <1>2, <2>1, <2>2
  <2>3. CASE cpu.luego \in {"accede", "actualiza"}
    <3>1. EnAcceso
      BY <2>1, <2>3 DEF EnAcceso, EnReemplazo, BuscaMarco
    <3>2. ConReloj' => ConReloj
      BY <2>1, <2>3 DEF ConReloj, BuscaMarco
    <3> QED BY <1>3, <2>1, <3>1, <3>2
  <2> QED BY <2>1, <2>2, <2>3 DEF CpuInv
<1>20. CASE Acceder
  <2>1. EnAcceso /\ cpu'.pc = "esperaAcceso" /\ cpu'.pag = cpu.pag
    BY <1>20 DEF Acceder, EnAcceso, CpuInv, Campos
  <2>2. ~ConReloj'
    BY <2>1 DEF ConReloj, BuscaMarco
  <2> QED BY <1>3, <2>1, <2>2
<1>21. CASE Desalojar
  <2>1. CASE cpu' = PedirMarco(cache[cpu.i].numPag, "desalojaEnvia")
    <3>1. cpu'.pc = "marco" /\ cpu'.luego = "desalojaEnvia"
      BY <2>1 DEF PedirMarco, CpuInv, Campos
    <3> QED BY <1>4, <3>1
  <2>2. CASE Soltar
    BY <1>2, <2>2, AlSoltar DEF CpuInv
  <2> QED BY <1>21, <2>1, <2>2 DEF Desalojar
<1>22. CASE DesalojarEnvia
  <2>1. Soltar
    BY <1>22 DEF DesalojarEnvia
  <2> QED BY <1>2, <2>1, AlSoltar DEF CpuInv
<1> QED BY <1>5, <1>6, <1>7, <1>8, <1>9, <1>10, <1>11, <1>12, <1>13, <1>14, <1>15, <1>16, <1>17,
           <1>18, <1>19, <1>20, <1>21, <1>22 DEF Next, Cpu, Memoria

\* As many pages as entries in use: full when none is free, and only then.
LEMMA PaginasYCasillas ==
    ASSUME CacheInv
    PROVE  /\ CasillasLibres = {} => Cardinality(EnCache) = ENTRADAS_CACHE
           /\ CasillasLibres # {} => Cardinality(EnCache) < ENTRADAS_CACHE
<1> DEFINE usadas == {i \in Casillas : cache[i].numPag # -1}
           pagina == [i \in usadas |-> cache[i].numPag]
<1>1. IsFiniteSet(Casillas) /\ Cardinality(Casillas) = ENTRADAS_CACHE
  BY FS_Interval, CacheAssumption DEF Casillas
<1>2. usadas \in SUBSET Casillas
  OBVIOUS
<1>3. pagina \in Surjection(usadas, EnCache)
  BY DEF Surjection, EnCache
<1>4. pagina \in Injection(usadas, EnCache)
  <2>1. pagina \in [usadas -> EnCache]
    BY DEF EnCache
  <2>2. \A i, j \in usadas : pagina[i] = pagina[j] => i = j
    BY DEF CacheInv, PaginasUnicas
  <2> QED BY <2>1, <2>2 DEF Injection, IsInjective
<1>5. (usadas = Casillas) <=> (CasillasLibres = {})
  BY DEF CasillasLibres
<1> HIDE DEF usadas, pagina
<1>6. /\ IsFiniteSet(usadas) /\ Cardinality(usadas) <= ENTRADAS_CACHE
      /\ Cardinality(usadas) = ENTRADAS_CACHE => usadas = Casillas
  BY <1>1, <1>2, FS_Subset
<1>7. Cardinality(EnCache) = Cardinality(usadas)
  BY <1>3, <1>4, <1>6, FS_Surjection
<1>8. Cardinality(usadas) \in Nat
  BY <1>6, FS_CardinalityType
<1> QED BY <1>1, <1>5, <1>6, <1>7, <1>8, CacheAssumption

\* The specification of the set counts as this one does.
LEMMA MismoCardinal == Abstracta!Cardinality(EnCache) = Cardinality(EnCache)
BY DEF Abstracta!Cardinality, Cardinality

\* A page comes into an entry that was free, or takes that of another.
LEMMA CargarEsAbstracto ==
    ASSUME CacheInv, ~EstaEnCache(cpu.pag), cpu.pag \in NrosPagina,
           NEW b \in {0, 1}, NEW k \in Casillas, cache' = [cache EXCEPT ![k] = Cargada(b)],
           k \in CasillasLibres \/ CasillasLibres = {}
    PROVE  Abstracta!Next
<1>1. \A i \in Casillas : cache'[i].numPag = IF i = k THEN cpu.pag ELSE cache[i].numPag
  BY DEF CacheInv, Cargada
<1>2. cpu.pag \notin EnCache /\ cpu.pag # -1
  BY TlbAssumption DEF EnCache, EstaEnCache
<1>3. CASE k \in CasillasLibres
  <2>1. cache[k].numPag = -1
    BY <1>3 DEF CasillasLibres
  <2>2. EnCache' = EnCache \cup {cpu.pag}
    BY <1>1, <1>2, <2>1 DEF EnCache, Casillas
  <2>3. Cardinality(EnCache) < ENTRADAS_CACHE
    BY <1>3, PaginasYCasillas
  <2>4. Abstracta!Cargar(cpu.pag)
    BY <1>2, <2>2, <2>3, MismoCardinal DEF Abstracta!Cargar
  <2> QED BY <2>4 DEF Abstracta!Next
<1>4. CASE CasillasLibres = {}
  <2> DEFINE victima == cache[k].numPag
  <2>1. victima # -1
    BY <1>4 DEF CasillasLibres
  <2>2. victima \in EnCache
    BY <2>1 DEF EnCache
  <2>3. \A i \in Casillas : i # k => cache[i].numPag # victima
    BY <2>1 DEF CacheInv, PaginasUnicas
  <2>4. EnCache' = (EnCache \ {victima}) \cup {cpu.pag}
    BY <1>1, <1>2, <2>3 DEF EnCache, Casillas
  <2>5. Cardinality(EnCache) = ENTRADAS_CACHE
    BY <1>4, PaginasYCasillas
  <2>6. Abstracta!Reemplazar(cpu.pag, victima)
    BY <1>2, <2>2, <2>4, <2>5, MismoCardinal DEF Abstracta!Reemplazar
  <2> QED BY <2>2, <2>6 DEF Abstracta!Next
<1> QED BY <1>3, <1>4

\* An entry is emptied; it may have been empty.
LEMMA VaciarEsAbstracto ==
    ASSUME CacheInv, NEW k, cache' = [cache EXCEPT ![k] = Libre]
    PROVE  Abstracta!Next \/ EnCache' = EnCache
<1>1. \A i \in Casillas : cache'[i].numPag = IF i = k THEN -1 ELSE cache[i].numPag
  BY DEF CacheInv, Libre
<1>2. CASE k \notin Casillas \/ cache[k].numPag = -1
  BY <1>1, <1>2 DEF EnCache, Casillas
<1>3. CASE k \in Casillas /\ cache[k].numPag # -1
  <2> DEFINE pag == cache[k].numPag
  <2>1. pag \in EnCache /\ pag \in NrosPagina
    BY <1>3 DEF EnCache, CacheInv, Casilla
  <2>2. \A i \in Casillas : i # k => cache[i].numPag # pag
    BY <1>3 DEF CacheInv, PaginasUnicas
  <2>3. EnCache' = EnCache \ {pag}
    BY <1>1, <1>3, <2>2 DEF EnCache, Casillas
  <2> QED BY <2>1, <2>3 DEF Abstracta!Next, Abstracta!Sacar
<1> QED BY <1>2, <1>3

LEMMA PasoEsAbstracto ==
    ASSUME CpuInv, CacheInv, LlenaInv, [Next]_vars
    PROVE  Abstracta!Next \/ EnCache' = EnCache
<1>1. ASSUME \A i \in Casillas : cache'[i].numPag = cache[i].numPag
      PROVE  EnCache' = EnCache
  BY <1>1 DEF EnCache, Casillas
<1>2. CASE cache' = cache
  BY <1>1, <1>2
<1>3. CASE UsarCacheAcierto
  <2>1. \A i \in Casillas : cache'[i].numPag = cache[i].numPag
    BY <1>3 DEF UsarCacheAcierto, CacheInv, Casilla
  <2> QED BY <1>1, <2>1
<1>4. CASE Avanzar
  <2>1. \A i \in Casillas : cache'[i].numPag = cache[i].numPag
    BY <1>4 DEF Avanzar, CacheInv, Casilla
  <2> QED BY <1>1, <2>1
<1>5. \A instr : BitModificado(instr) \in {0, 1}
  BY DEF BitModificado
<1>6. CASE AgregarPagCache
  <2>1. ~EstaEnCache(cpu.pag) /\ cpu.pag \in NrosPagina
    BY <1>6 DEF AgregarPagCache, CacheInv, LlenaInv, EnAcceso, EnReemplazo
  <2>2. CASE /\ CasillasLibres # {}
             /\ Cargar(Min(CasillasLibres), BitModificado(cpu.instr))
    <3>1. Min(CasillasLibres) \in CasillasLibres /\ Min(CasillasLibres) \in Casillas
      BY <2>2, PrimeraLibre DEF CasillasLibres
    <3> QED BY <1>5, <2>1, <2>2, <3>1, CargarEsAbstracto DEF Cargar
  <2> QED BY <1>2, <1>6, <2>2 DEF AgregarPagCache
<1>7. CASE ReemplazarLimpia \/ RespondeActualizacion \/ ActualizarClockM
  <2>1. ~EstaEnCache(cpu.pag) /\ cpu.pag \in NrosPagina /\ CasillasLibres = {}
    BY <1>7 DEF ReemplazarLimpia, RespondeActualizacion, ActualizarClockM, CacheInv, LlenaInv,
                EnAcceso, EnReemplazo, ConReloj
  <2>2. \E b \in {0, 1} : cache' = [cache EXCEPT ![punteroCache] = Cargada(b)]
    BY <1>5, <1>7 DEF ReemplazarLimpia, RespondeActualizacion, ActualizarClockM, Cargar
  <2> QED BY <2>1, <2>2, CargarEsAbstracto DEF CacheInv
<1>8. CASE Desalojar \/ DesalojarEnvia
  <2>1. cache' = cache \/ cache' = [cache EXCEPT ![cpu.i] = Libre]
    BY <1>8 DEF Desalojar, DesalojarEnvia, Soltar
  <2> QED BY <1>2, <2>1, VaciarEsAbstracto
<1> QED BY <1>2, <1>3, <1>4, <1>6, <1>7, <1>8
        DEF Next, Cpu, Memoria, vars, cacheVars, Despachar, Fetch, LlegaAcceso, LlegaExit, LlegaIo,
            LlegaOtraCosa, UsarCacheFallo, ReemplazarModificada, ActualizarClock, MarcoEnTlb,
            MarcoANavegar, SiguienteNivel, UltimoNivel, Acceder, RespondeWrite, RespondeRead,
            SyscallEjecutada, ManejarClienteCpu, Finalizar

\* The ring of the page cache implements a bounded set of pages: a page is brought
\* in once, while an entry is free, and one goes for another only when none is
\* (agregarPagCache, algoritmoClock, algoritmoClockM, desalojarProcesoCache).
THEOREM CacheEsAbstracta == Spec => CumpleCacheAbstracta
<1>1. Init => CacheInv /\ LlenaInv /\ Abstracta!Init
  <2>1. Init => EnCache = {}
    BY DEF Init, EnCache, Libre
  <2> QED BY <2>1, CacheInvInicial, LlenaInvInicial DEF Abstracta!Init
<1>2. CpuInv /\ CacheInv /\ LlenaInv /\ [Next]_vars => (CacheInv /\ LlenaInv)'
  BY CacheInvPasos, LlenaInvPasos
<1>3. CpuInv /\ CacheInv /\ LlenaInv /\ [Next]_vars => [Abstracta!Next]_EnCache
  BY PasoEsAbstracto
<1> QED BY <1>1, <1>2, <1>3, CanalSiempre, PTL DEF Spec, CumpleCacheAbstracta, Abstracta!Spec

=============================================================================
