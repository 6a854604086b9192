---------------------------- MODULE KernelProofs ----------------------------
(***************************************************************************)
(* Proofs about Kernel, for any number of processes, CPUs, devices and       *)
(* threads, any frame sizes and any suspension regime:                       *)
(*    TypeOK and ConProceso,                                                 *)
(*    FichasDeColas: the semaphores count the queues,                        *)
(*    FichasDeCpu and UnProcesoPorCpu: CPUS_LIBRES counts the free CPUs and  *)
(*    no CPU is given to two processes,                                      *)
(*    NingunoPerdido: no process is lost between two queues.                 *)
(* TypeOK, ConProceso and FichasDeColas are inductive together: a planner    *)
(* that wakes reads the head of its queue, which is a process only because   *)
(* the semaphore counted it.                                                 *)
(***************************************************************************)
EXTENDS Kernel, SequenceTheorems, FiniteSetTheorems, TLAPS

Colas == [Estados -> Seq(Procs)]

-----------------------------------------------------------------------------
(* Queues and semaphores.                                                  *)

\* Removing the first occurrence of a process leaves a sequence.
LEMMA QuitarTipo ==
    ASSUME NEW S, NEW s \in Seq(S), NEW p
    PROVE  Quitar(s, p) \in Seq(S)
<1>1. CASE BuscarEnLista(s, p) = {}
  BY <1>1 DEF Quitar
<1>2. CASE BuscarEnLista(s, p) # {}
  <2> DEFINE k == CHOOSE i \in BuscarEnLista(s, p) : TRUE
  <2>1. k \in 1 .. Len(s)
    BY <1>2, LenProperties DEF BuscarEnLista
  <2>2. Quitar(s, p) = SubSeq(s, 1, k - 1) \o SubSeq(s, k + 1, Len(s))
    BY <1>2 DEF Quitar, RemoveAt
  <2> HIDE DEF k
  <2>3. SubSeq(s, 1, k - 1) \in Seq(S) /\ SubSeq(s, k + 1, Len(s)) \in Seq(S)
    BY <2>1, LenProperties, SubSeqProperties
  <2>. QED BY <2>2, <2>3, ConcatProperties
<1>. QED BY <1>1, <1>2

\* sem_wait and sem_post keep the semaphores non-negative and move the named
\* ones by one.
LEMMA SenalesTipo ==
    ASSUME sem \in [Semaforos -> Nat], NEW E, NEW A, Senales(E, A)
    PROVE  /\ sem' \in [Semaforos -> Nat]
           /\ \A s \in Semaforos : s \in E => sem[s] > 0
           /\ \A s \in Semaforos : sem'[s] = sem[s] - Uno(s \in E) + Uno(s \in A)
BY DEF Senales, Uno

\* An insertion lengthens its queue only.
LEMMA AgregarTipo ==
    ASSUME cola \in Colas, NEW e \in Estados, NEW p \in Procs
    PROVE  /\ [cola EXCEPT ![e] = Append(@, p)] \in Colas
           /\ \A f \in Estados : Len([cola EXCEPT ![e] = Append(@, p)][f])
                                   = Len(cola[f]) + Uno(f = e)
<1>1. \A f \in Estados : cola[f] \in Seq(Procs) /\ Len(cola[f]) \in Nat
  BY LenProperties DEF Colas
<1>. QED BY <1>1, AppendProperties DEF Colas, Uno

\* A removal touches its queue only.
LEMMA SacarTipo ==
    ASSUME cola \in Colas, NEW e \in Estados, NEW p
    PROVE  /\ Sacar(p, e) \in Colas
           /\ \A g \in Estados \ {e} : Sacar(p, e)[g] = cola[g]
BY QuitarTipo DEF Colas, Sacar

LEMMA MoverTipo ==
    ASSUME cola \in Colas, NEW e \in Estados, NEW f \in Estados, NEW p \in Procs
    PROVE  /\ Mover(p, e, f) \in Colas
           /\ \A g \in Estados \ {e, f} : Mover(p, e, f)[g] = cola[g]
BY QuitarTipo, AppendProperties DEF Colas, Mover

\* Moving the first process of a queue that has one.
LEMMA PrimeroTipo ==
    ASSUME cola \in Colas, NEW e \in Estados, Len(cola[e]) > 0
    PROVE  /\ Head(cola[e]) \in Procs
           /\ [cola EXCEPT ![e] = Tail(@)] \in Colas
           /\ \A g \in Estados : Len([cola EXCEPT ![e] = Tail(@)][g]) = Len(cola[g]) - Uno(g = e)
<1>1. /\ cola[e] # <<>>
      /\ Head(cola[e]) \in Procs
      /\ Tail(cola[e]) \in Seq(Procs)
      /\ Len(Tail(cola[e])) = Len(cola[e]) - 1
  BY HeadTailProperties, EmptySeq DEF Colas
<1>2. \A g \in Estados : Len(cola[g]) \in Nat
  BY LenProperties DEF Colas
<1>. QED BY <1>1, <1>2 DEF Colas, Uno

LEMMA MoverPrimeroTipo ==
    ASSUME cola \in Colas, NEW e \in Estados, NEW f \in Estados, e # f, Len(cola[e]) > 0
    PROVE  /\ MoverPrimero(e, f) \in Colas
           /\ Len(MoverPrimero(e, f)[e]) = Len(cola[e]) - 1
           /\ Len(MoverPrimero(e, f)[f]) = Len(cola[f]) + 1
           /\ \A g \in Estados \ {e, f} : MoverPrimero(e, f)[g] = cola[g]
<1>1. /\ cola[e] # <<>>
      /\ Head(cola[e]) \in Procs
      /\ Tail(cola[e]) \in Seq(Procs)
      /\ Len(Tail(cola[e])) = Len(cola[e]) - 1
  BY HeadTailProperties, EmptySeq DEF Colas
<1>2. cola[f] \in Seq(Procs)
  BY DEF Colas
<1>3. /\ Append(cola[f], Head(cola[e])) \in Seq(Procs)
      /\ Len(Append(cola[f], Head(cola[e]))) = Len(cola[f]) + 1
  BY <1>1, <1>2, AppendProperties
<1>4. MoverPrimero(e, f) = [cola EXCEPT ![e] = Tail(@), ![f] = Append(@, Head(cola[e]))]
  BY DEF MoverPrimero
<1>5. /\ MoverPrimero(e, f)[e] = Tail(cola[e])
      /\ MoverPrimero(e, f)[f] = Append(cola[f], Head(cola[e]))
      /\ \A g \in Estados \ {e, f} : MoverPrimero(e, f)[g] = cola[g]
  BY <1>4 DEF Colas
<1>6. MoverPrimero(e, f) \in Colas
  BY <1>1, <1>3, <1>4 DEF Colas
<1>. QED BY <1>1, <1>3, <1>5, <1>6

\* The queue a planner looks at is not empty.
LEMMA Cabezas ==
    ASSUME TypeOK, FichasDeColas
    PROVE  /\ largo # "duerme" => Len(cola["NEW"]) > 0
           /\ sem["READY"] > 0 => Len(cola["READY"]) > 0
           /\ medianoFifo.pc \in {"consulta", "saca"} \/ sem["SUSP_READY"] > 0
                => Len(cola["SUSP_READY"]) > 0
<1>1. \A e \in Estados : Len(cola[e]) \in Nat
  BY LenProperties DEF TypeOK
<1>2. /\ "NEW" \in Estados \cap Semaforos
      /\ "READY" \in Estados \cap Semaforos
      /\ "SUSP_READY" \in Estados \cap Semaforos
  BY DEF Estados, Semaforos
<1>3. \A e \in Semaforos : sem[e] \in Nat
  BY DEF TypeOK
<1>. QED BY <1>1, <1>2, <1>3 DEF FichasDeColas, Uno

-----------------------------------------------------------------------------
(* Records of the threads.                                                 *)

LEMMA HiloTipo ==
    ASSUME hilo \in [Hilos -> TipoHilo], NEW h \in Hilos, NEW x \in PcsHilo,
           NEW m \in {"EXIT", "DUMP_MEMORY", "IO"}
    PROVE  /\ [hilo EXCEPT ![h].pc = x] \in [Hilos -> TipoHilo]
           /\ [hilo EXCEPT ![h].pc = x, ![h].motivo = m] \in [Hilos -> TipoHilo]
           /\ [hilo EXCEPT ![h] = HiloLibre] \in [Hilos -> TipoHilo]
<1>1. hilo[h] \in TipoHilo
  OBVIOUS
<1>2. HiloLibre \in TipoHilo
  BY DEF TipoHilo, HiloLibre, PcsHilo
<1>3. [hilo[h] EXCEPT !.pc = x] \in TipoHilo
  BY <1>1 DEF TipoHilo
<1>4. [[hilo[h] EXCEPT !.pc = x] EXCEPT !.motivo = m] \in TipoHilo
  BY <1>3 DEF TipoHilo
<1>. QED BY <1>2, <1>3, <1>4

LEMMA IoTipo ==
    ASSUME io \in [Ios -> TipoIo], NEW i \in Ios, NEW x \in PcsIo, NEW p \in Procs \cup {Nadie}
    PROVE  /\ [io EXCEPT ![i].pc = x] \in [Ios -> TipoIo]
           /\ [io EXCEPT ![i].pc = x, ![i].proc = p] \in [Ios -> TipoIo]
<1>1. io[i] \in TipoIo
  OBVIOUS
<1>2. [io[i] EXCEPT !.pc = x] \in TipoIo
  BY <1>1 DEF TipoIo
<1>3. [io[i] EXCEPT !.pc = x, !.proc = p] \in TipoIo
  BY <1>1 DEF TipoIo
<1>. QED BY <1>2, <1>3

LEMMA TimerTipo ==
    ASSUME timer \in [Procs -> [Veces -> TipoTimer]], NEW p \in Procs, NEW k,
           NEW x \in {"no", "nace", "duerme", "compara", "visto", "sacado"}
    PROVE  [timer EXCEPT ![p][k].pc = x] \in [Procs -> [Veces -> TipoTimer]]
<1>1. CASE k \in Veces
  <2>1. [timer[p][k] EXCEPT !.pc = x] \in TipoTimer
    BY <1>1 DEF TipoTimer
  <2>2. [timer[p] EXCEPT ![k].pc = x] \in [Veces -> TipoTimer]
    BY <1>1, <2>1
  <2>. QED BY <2>2
<1>2. CASE k \notin Veces
  <2>1. [timer[p] EXCEPT ![k].pc = x] \in [Veces -> TipoTimer]
    BY <1>2
  <2>. QED BY <2>1
<1>. QED BY <1>1, <1>2

LEMMA TomaTipo ==
    ASSUME TypeOK, NEW i \in Ios, NEW p \in Procs, Toma(i, p)
    PROVE  /\ io' \in [Ios -> TipoIo]
           /\ nombreIo' \in [Procs -> Nombres \cup {Vacio, Nulo, Basura}]
<1>1. io' \in [Ios -> TipoIo]
  BY IoTipo DEF TypeOK, Toma, PcsIo
<1>. QED BY <1>1 DEF TypeOK, Toma

LEMMA GastaTipo ==
    ASSUME TypeOK, NEW h \in Hilos, NEW s \in {"INIT_PROC", "DUMP_MEMORY", "IO"},
           Llega(h, s), hilo[h].proc \in Procs, Gasta(h)
    PROVE  restan' \in [Procs -> Nat]
<1>1. restan \in [Procs -> Nat]
  BY DEF TypeOK
<1>2. restan[hilo[h].proc] > 0
  BY DEF Llega
<1>. QED BY <1>1, <1>2 DEF Gasta

LEMMA FinalizarTipo ==
    ASSUME ConstantesAssumption, TypeOK, NEW h \in Hilos, hilo[h].proc \in Procs,
           NEW e \in Estados, NEW m \in {"EXIT", "DUMP_MEMORY", "IO"}, Finalizar(h, e, m)
    PROVE  /\ cola' \in Colas
           /\ hilo' \in [Hilos -> TipoHilo]
           /\ ubicacion' \in [Procs -> {"fuera", "memoria", "swap"}]
           /\ libres' \in Int
<1>1. cola' \in Colas
  BY MoverTipo DEF TypeOK, Finalizar, Estados, Colas
<1>2. hilo' \in [Hilos -> TipoHilo]
  BY HiloTipo DEF TypeOK, Finalizar, PcsHilo
<1>3. ubicacion' \in [Procs -> {"fuera", "memoria", "swap"}]
  BY DEF TypeOK, Finalizar, memoria
<1>4. Tam[hilo[h].proc] \in Nat /\ libres \in Int
  BY DEF ConstantesAssumption, TypeOK
<1>5. libres' \in Int
  BY <1>4 DEF Finalizar, memoria
<1>. QED BY <1>1, <1>2, <1>3, <1>5

\* sem_post on the semaphore of a device.
LEMMA SumarUno ==
    ASSUME NEW D, NEW f \in [D -> Nat], NEW d, NEW g, g = [f EXCEPT ![d] = @ + 1]
    PROVE  g \in [D -> Nat]
<1>1. g = [x \in D |-> IF x = d THEN f[x] + 1 ELSE f[x]]
  OBVIOUS
<1>2. \A x \in D : f[x] \in Nat /\ f[x] + 1 \in Nat
  <2>1. TAKE x \in D
  <2>2. f[x] \in Nat
    OBVIOUS
  <2>. QED BY <2>2
<1>. QED BY <1>1, <1>2

-----------------------------------------------------------------------------
(* Every step keeps TypeOK, thread by thread.                              *)

LEMMA LargoTypeOK ==
    ASSUME ConstantesAssumption, TypeOK, FichasDeColas, Largo
    PROVE  TypeOK'
<1>. USE DEF planif, disposi, pcbs, memoria, Colas, Sigue
<1>1. CASE LargoDespierta
  BY <1>1, SenalesTipo DEF TypeOK, LargoDespierta
<1>2. CASE LargoEsperaVacia
  BY <1>2, SenalesTipo DEF TypeOK, LargoEsperaVacia
<1>3. CASE LargoAceptado
  <2>1. Head(cola["NEW"]) \in Procs
    BY <1>3, Cabezas, PrimeroTipo DEF TypeOK, LargoAceptado, Estados
  <2>2. Tam[Head(cola["NEW"])] \in Nat /\ libres \in Int
    BY <2>1 DEF ConstantesAssumption, TypeOK
  <2>3. libres' \in Int
    BY <1>3, <2>2 DEF LargoAceptado
  <2>4. ubicacion' \in [Procs -> {"fuera", "memoria", "swap"}]
    BY <1>3 DEF TypeOK, LargoAceptado
  <2>. QED BY <1>3, <2>3, <2>4 DEF TypeOK, LargoAceptado
<1>4. CASE LargoRechazado
  BY <1>4, SenalesTipo DEF TypeOK, LargoRechazado
<1>5. CASE LargoAdmite
  <2>1. {"NEW", "READY"} \subseteq Estados
    BY DEF Estados
  <2>2. cola' \in Colas
    BY <1>5, <2>1, Cabezas, MoverPrimeroTipo DEF TypeOK, LargoAdmite
  <2>. QED BY <1>5, <2>2, SenalesTipo DEF TypeOK, LargoAdmite
<1>. QED BY <1>1, <1>2, <1>3, <1>4, <1>5 DEF Largo

LEMMA MedianoFifoTypeOK ==
    ASSUME ConstantesAssumption, TypeOK, ConProceso, FichasDeColas, MedianoFifo
    PROVE  TypeOK'
<1>. USE DEF planif, disposi, pcbs, memoria, Colas, Sigue
<1>e. {"READY", "SUSP_READY"} \subseteq Estados
  BY DEF Estados
<1>1. CASE MedianoFifoDespierta
  <2>1. sem["SUSP_READY"] > 0
    BY <1>1 DEF MedianoFifoDespierta, Senales
  <2>2. Head(cola["SUSP_READY"]) \in Procs
    BY <1>e, <2>1, Cabezas, PrimeroTipo DEF TypeOK
  <2>. QED BY <1>1, <2>2, SenalesTipo DEF TypeOK, MedianoFifoDespierta
<1>2. CASE MedianoFifoAceptado
  <2>1. medianoFifo.proc \in Procs
    BY <1>2 DEF ConProceso, MedianoFifoAceptado
  <2>2. Tam[medianoFifo.proc] \in Nat /\ libres \in Int
    BY <2>1 DEF ConstantesAssumption, TypeOK
  <2>3. libres' \in Int
    BY <1>2, <2>2 DEF MedianoFifoAceptado
  <2>4. ubicacion' \in [Procs -> {"fuera", "memoria", "swap"}]
    BY <1>2 DEF TypeOK, MedianoFifoAceptado
  <2>. QED BY <1>2, <2>3, <2>4 DEF TypeOK, MedianoFifoAceptado
<1>3. CASE MedianoFifoRechazado
  <2>1. sem' \in [Semaforos -> Nat]
    BY <1>3, SenalesTipo DEF TypeOK, MedianoFifoRechazado
  <2>. QED BY <1>3, <2>1 DEF TypeOK, MedianoFifoRechazado
<1>4. CASE MedianoFifoSaca
  <2>1. Head(cola["SUSP_READY"]) \in Procs /\ cola' \in Colas
    BY <1>4, <1>e, Cabezas, PrimeroTipo DEF TypeOK, MedianoFifoSaca
  <2>. QED BY <1>4, <2>1 DEF TypeOK, MedianoFifoSaca
<1>5. CASE MedianoFifoAdmite
  <2>1. medianoFifo.proc \in Procs
    BY <1>5 DEF MedianoFifoAdmite, ConProceso
  <2>2. cola' \in Colas
    <3>1. cola \in Colas /\ cola' = [cola EXCEPT !["READY"] = Append(@, medianoFifo.proc)]
      BY <1>5 DEF TypeOK, MedianoFifoAdmite
    <3>. QED BY <1>e, <2>1, <3>1, AgregarTipo
  <2>3. sem' \in [Semaforos -> Nat]
    BY <1>5, SenalesTipo DEF TypeOK, MedianoFifoAdmite
  <2>. QED BY <1>5, <2>2, <2>3 DEF TypeOK, MedianoFifoAdmite
<1>6. CASE MedianoFifoAvisa
  BY <1>6, SenalesTipo DEF TypeOK, MedianoFifoAvisa
<1>. QED BY <1>1, <1>2, <1>3, <1>4, <1>5, <1>6 DEF MedianoFifo

LEMMA MedianoTypeOK ==
    ASSUME ConstantesAssumption, TypeOK, ConProceso, Mediano
    PROVE  TypeOK'
<1>. USE DEF planif, disposi, pcbs, memoria, Colas, Sigue
<1>1. CASE MedianoDespierta
  <2>1. sem' \in [Semaforos -> Nat]
    BY <1>1, SenalesTipo DEF TypeOK, MedianoDespierta
  <2>2. flag' \in [Procs -> BOOLEAN]
    BY <1>1 DEF TypeOK, MedianoDespierta
  <2>3. mediano \in [pc : {"duerme", "envia", "intenta"}, proc : Procs \cup {Nadie}]
    BY DEF TypeOK
  <2>4. mediano' \in [pc : {"duerme", "envia", "intenta"}, proc : Procs \cup {Nadie}]
    BY <1>1, <2>3 DEF MedianoDespierta
  <2>. QED BY <1>1, <2>1, <2>2, <2>4 DEF TypeOK, MedianoDespierta
<1>2. CASE MedianoEnvia
  <2>1. mediano.proc \in Procs
    BY <1>2 DEF ConProceso, MedianoEnvia
  <2>2. Tam[mediano.proc] \in Nat /\ libres \in Int
    BY <2>1 DEF ConstantesAssumption, TypeOK
  <2>3. libres' \in Int
    BY <1>2, <2>2 DEF MedianoEnvia
  <2>4. ubicacion' \in [Procs -> {"fuera", "memoria", "swap"}]
    BY <1>2 DEF TypeOK, MedianoEnvia
  <2>. QED BY <1>2, <2>3, <2>4 DEF TypeOK, MedianoEnvia
<1>3. CASE MedianoIntenta
  BY <1>3, SenalesTipo DEF TypeOK, MedianoIntenta, IntentarIniciar
<1>. QED BY <1>1, <1>2, <1>3 DEF Mediano

LEMMA DespacharTypeOK ==
    ASSUME TypeOK, FichasDeColas, NEW c \in Cpus, Despachar(c)
    PROVE  TypeOK'
<1>. USE DEF planif, disposi, pcbs, memoria, Colas, Sigue
<1>1. sem["READY"] > 0
  BY DEF Despachar, Senales
<1>2. {"READY", "EXEC"} \subseteq Estados
  BY DEF Estados
<1>3. Head(cola["READY"]) \in Procs /\ cola' \in Colas
  BY <1>1, <1>2, Cabezas, PrimeroTipo, MoverPrimeroTipo DEF TypeOK, Despachar
<1>4. hilo' \in [Hilos -> TipoHilo]
  BY <1>3 DEF TypeOK, Despachar, TipoHilo, PcsHilo
<1>5. sem' \in [Semaforos -> Nat]
  BY SenalesTipo DEF TypeOK, Despachar
<1>. QED BY <1>3, <1>4, <1>5 DEF TypeOK, Despachar

LEMMA HiloTypeOK ==
    ASSUME ConstantesAssumption, TypeOK, ConProceso, NEW h \in Hilos, Hilo(h)
    PROVE  TypeOK'
<1>. USE DEF planif, disposi, pcbs, memoria, Colas, Sigue
<1>e. {"NEW", "READY", "EXEC", "BLOCKED", "EXIT_ESTADO"} \subseteq Estados
  BY DEF Estados
<1>1. ASSUME NEW q \in Procs, SyscallInitProc(h, q)
      PROVE  TypeOK'
  <2>1. restan' \in [Procs -> Nat]
    BY <1>1, GastaTipo DEF SyscallInitProc, ConProceso, Llega, En
  <2>2. cola' \in Colas
    BY <1>1, <1>e, AgregarTipo DEF TypeOK, SyscallInitProc
  <2>. QED BY <1>1, <2>1, <2>2, SenalesTipo DEF TypeOK, SyscallInitProc
<1>2. CASE SyscallExit(h)
  <2>1. hilo[h].proc \in Procs
    BY <1>2 DEF SyscallExit, ConProceso, Llega, En
  <2>. QED BY <1>2, <2>1, <1>e, FinalizarTipo DEF TypeOK, SyscallExit
<1>3. CASE FinalizarIntenta(h)
  BY <1>3, HiloTipo, SenalesTipo DEF TypeOK, FinalizarIntenta, IntentarIniciar, Pasa, PcsHilo
<1>4. CASE FinalizarTermina(h)
  <2>1. cola' \in Colas
    BY <1>4, <1>e, SacarTipo DEF TypeOK, FinalizarTermina
  <2>2. hilo' \in [Hilos -> TipoHilo]
    BY <1>4, HiloTipo DEF TypeOK, FinalizarTermina, PcsHilo
  <2>3. /\ cpu' \in [Cpus -> {"ausente", "libre", "ocupada"}]
        /\ sem' \in [Semaforos -> Nat]
    BY <1>4, SenalesTipo DEF TypeOK, FinalizarTermina, LiberarCpu, LiberaAlTerminar
  <2>. QED BY <1>4, <2>1, <2>2, <2>3 DEF TypeOK, FinalizarTermina
<1>5. CASE SyscallDump(h)
  <2>1. hilo[h].proc \in Procs
    BY <1>5 DEF SyscallDump, ConProceso, Llega, En
  <2>2. restan' \in [Procs -> Nat]
    BY <1>5, <2>1, GastaTipo DEF SyscallDump
  <2>3. cola' \in Colas
    BY <1>5, <2>1, <1>e, MoverTipo DEF TypeOK, SyscallDump
  <2>4. hilo' \in [Hilos -> TipoHilo]
    BY <1>5, HiloTipo DEF TypeOK, SyscallDump, PcsHilo
  <2>. QED BY <1>5, <2>2, <2>3, <2>4 DEF TypeOK, SyscallDump
<1>6. CASE DumpLiberaCpu(h)
  <2>1. hilo' \in [Hilos -> TipoHilo]
    BY <1>6, HiloTipo DEF TypeOK, DumpLiberaCpu, PcsHilo, Pasa
  <2>2. sem' \in [Semaforos -> Nat]
    BY <1>6, SenalesTipo DEF TypeOK, DumpLiberaCpu, LiberarCpu
  <2>3. cpu' \in [Cpus -> {"ausente", "libre", "ocupada"}]
    BY <1>6 DEF TypeOK, DumpLiberaCpu, LiberarCpu
  <2>. QED BY <1>6, <2>1, <2>2, <2>3 DEF TypeOK, DumpLiberaCpu, planif, disposi, pcbs, memoria
<1>7. CASE DumpAceptado(h)
  BY <1>7, <1>e, HiloTipo, SacarTipo DEF TypeOK, DumpAceptado, PcsHilo, Pasa
<1>8. CASE DumpAReady(h)
  <2>1. hilo[h].proc \in Procs
    BY <1>8 DEF DumpAReady, ConProceso, En
  <2>2. cola' \in Colas
    <3>1. cola \in Colas /\ cola' = [cola EXCEPT !["READY"] = Append(@, hilo[h].proc)]
      BY <1>8 DEF TypeOK, DumpAReady
    <3>. QED BY <1>e, <2>1, <3>1, AgregarTipo
  <2>3. hilo' \in [Hilos -> TipoHilo]
    BY <1>8, HiloTipo DEF TypeOK, DumpAReady, PcsHilo
  <2>. QED BY <1>8, <2>2, <2>3, SenalesTipo DEF TypeOK, DumpAReady
<1>9. CASE DumpRechazado(h)
  <2>1. hilo[h].proc \in Procs
    BY <1>9 DEF DumpRechazado, ConProceso, En
  <2>. QED BY <1>9, <2>1, <1>e, FinalizarTipo DEF TypeOK, DumpRechazado
<1>10. CASE SyscallIo(h)
  <2>1. restan' \in [Procs -> Nat]
    BY <1>10, GastaTipo DEF SyscallIo, ConProceso, Llega, En
  <2>2. hilo' \in [Hilos -> TipoHilo]
    BY <1>10, HiloTipo DEF TypeOK, SyscallIo, PcsHilo
  <2>. QED BY <1>10, <2>1, <2>2, SenalesTipo DEF TypeOK, SyscallIo, LiberarCpu
<1>11. ASSUME NEW n \in Nombres, IoBuscaDispositivo(h, n)
       PROVE  TypeOK'
  <2>1. hilo' \in [Hilos -> TipoHilo]
    BY <1>11, HiloTipo DEF TypeOK, IoBuscaDispositivo, Pasa, PcsHilo
  <2>2. veces' \in [Procs -> Nat]
    BY <1>11, SumarUno DEF TypeOK, IoBuscaDispositivo, AnotarIo
  <2>3. nombreIo' \in [Procs -> Nombres \cup {Vacio, Nulo, Basura}]
    BY <1>11 DEF TypeOK, IoBuscaDispositivo, AnotarIo
  <2>. QED BY <1>11, <2>1, <2>2, <2>3 DEF TypeOK, IoBuscaDispositivo
<1>12. CASE IoFinaliza(h)
  <2>1. hilo[h].proc \in Procs
    BY <1>12 DEF IoFinaliza, ConProceso, En
  <2>. QED BY <1>12, <2>1, <1>e, FinalizarTipo DEF TypeOK, IoFinaliza
<1>13. CASE IoBloquea(h)
  <2>1. hilo[h].proc \in Procs
    BY <1>13 DEF IoBloquea, ConProceso, En
  <2>2. cola' \in Colas
    BY <1>13, <2>1, <1>e, MoverTipo DEF TypeOK, IoBloquea
  <2>3. timer' \in [Procs -> [Veces -> TipoTimer]]
    BY <1>13, <2>1, TimerTipo DEF TypeOK, IoBloquea
  <2>4. semIo' \in [Ios -> Nat]
    <3>1. PICK i \in Ios : semIo' = [semIo EXCEPT ![io[i].sem] = @ + 1]
      BY <1>13 DEF IoBloquea
    <3>. QED BY <3>1, SumarUno DEF TypeOK
  <2>5. hilo' \in [Hilos -> TipoHilo]
    BY <1>13, HiloTipo DEF TypeOK, IoBloquea, PcsHilo
  <2>. QED BY <1>13, <2>2, <2>3, <2>4, <2>5 DEF TypeOK, IoBloquea
<1>. QED BY <1>1, <1>2, <1>3, <1>4, <1>5, <1>6, <1>7, <1>8, <1>9, <1>10, <1>11, <1>12, <1>13 DEF Hilo

LEMMA TimerTypeOK ==
    ASSUME TypeOK, NEW p \in Procs, NEW k \in Veces, Timer(p, k)
    PROVE  TypeOK'
<1>. USE DEF planif, disposi, pcbs, memoria, Colas, Sigue
<1>e. {"BLOCKED", "SUSP_BLOCKED"} \subseteq Estados
  BY DEF Estados
<1>1. CASE TimerNace(p, k)
  BY <1>1 DEF TypeOK, TimerNace, TipoTimer
<1>2. CASE TimerCompara(p, k)
  BY <1>2 DEF TypeOK, TimerCompara, TipoTimer
<1>3. CASE TimerBusca(p, k)
  BY <1>3, TimerTipo DEF TypeOK, TimerBusca, TimerPasa
<1>4. CASE TimerSaca(p, k)
  BY <1>4, <1>e, TimerTipo, SacarTipo DEF TypeOK, TimerSaca, TimerPasa
<1>5. CASE TimerSuspende(p, k)
  BY <1>5, <1>e, TimerTipo, AgregarTipo, SenalesTipo DEF TypeOK, TimerSuspende, TimerPasa
<1>. QED BY <1>1, <1>2, <1>3, <1>4, <1>5 DEF Timer

LEMMA IoTypeOK ==
    ASSUME TypeOK, ConProceso, NEW i \in Ios, ConectarIo(i) \/ Io(i)
    PROVE  TypeOK'
<1>. USE DEF planif, disposi, pcbs, memoria, Colas, Sigue
<1>e. {"READY", "BLOCKED", "SUSP_READY", "SUSP_BLOCKED"} \subseteq Estados
  BY DEF Estados
<1>p. \A x \in PcsIo : [io EXCEPT ![i].pc = x] \in [Ios -> TipoIo]
  BY IoTipo DEF TypeOK
<1>1. CASE ConectarIo(i)
  <2>1. ASSUME NEW j \in Ios
        PROVE  [io EXCEPT ![i].pc = "registra", ![i].sem = io[j].sem] \in [Ios -> TipoIo]
    <3>1. io[i] \in TipoIo /\ io[j].sem \in Ios
      BY DEF TypeOK, TipoIo
    <3>2. [io[i] EXCEPT !.pc = "registra", !.sem = io[j].sem] \in TipoIo
      BY <3>1 DEF TipoIo, PcsIo
    <3>. QED BY <3>2 DEF TypeOK
  <2>2. io' \in [Ios -> TipoIo]
    <3>1. CASE \E j \in Ios : io' = [io EXCEPT ![i].pc = "registra", ![i].sem = io[j].sem]
      <4>1. PICK j \in Ios : io' = [io EXCEPT ![i].pc = "registra", ![i].sem = io[j].sem]
        BY <3>1
      <4>. QED BY <4>1, <2>1
    <3>2. CASE io' = [io EXCEPT ![i].pc = "registra"]
      BY <3>2, <1>p DEF PcsIo
    <3>. QED BY <1>1, <3>1, <3>2 DEF ConectarIo
  <2>. QED BY <1>1, <2>2 DEF TypeOK, ConectarIo
<1>2. CASE RegistrarIo(i)
  BY <1>2, <1>p, AppendProperties DEF TypeOK, RegistrarIo, PcsIo
<1>3. CASE IoDespierta(i)
  <2>1. semIo \in [Ios -> Nat] /\ io[i].sem \in Ios
    BY DEF TypeOK, TipoIo
  <2>2. semIo' \in [Ios -> Nat]
    BY <1>3, <2>1 DEF IoDespierta
  <2>3. [io EXCEPT ![i].pc = "busca"] \in [Ios -> TipoIo]
    BY <1>p DEF PcsIo
  <2>4. /\ io' \in [Ios -> TipoIo]
        /\ nombreIo' \in [Procs -> Nombres \cup {Vacio, Nulo, Basura}]
        /\ caido' \in BOOLEAN
    BY <1>3, <2>3, TomaTipo DEF TypeOK, IoDespierta
  <2>. QED BY <1>3, <2>2, <2>4 DEF TypeOK, IoDespierta
<1>4. CASE IoBusca(i)
  <2>1. /\ io' \in [Ios -> TipoIo]
        /\ nombreIo' \in [Procs -> Nombres \cup {Vacio, Nulo, Basura}]
        /\ caido' \in BOOLEAN
    BY <1>4, TomaTipo DEF TypeOK, IoBusca
  <2>. QED BY <1>4, <2>1 DEF TypeOK, IoBusca
<1>5. CASE IoTermina(i)
  BY <1>5, <1>p DEF TypeOK, IoTermina, DondeEsta, PcsIo
<1>6. CASE IoSaca(i)
  <2>1. Sacar(io[i].proc, "BLOCKED") \in Colas /\ Sacar(io[i].proc, "SUSP_BLOCKED") \in Colas
    BY <1>e, SacarTipo DEF TypeOK
  <2>2. cola' \in Colas
    BY <1>6, <2>1 DEF IoSaca
  <2>3. {"aReady", "aSuspReady"} \subseteq PcsIo
    BY DEF PcsIo
  <2>4. io' \in [Ios -> TipoIo]
    BY <1>6, <1>p, <2>3 DEF IoSaca
  <2>. QED BY <1>6, <2>2, <2>4 DEF TypeOK, IoSaca
<1>7. CASE IoTransiciona(i)
  <2>1. io[i].proc \in Procs /\ cola \in Colas
    BY <1>7 DEF TypeOK, ConProceso, IoTransiciona
  <2>2. \A e \in {"READY", "SUSP_READY"} : [cola EXCEPT ![e] = Append(@, io[i].proc)] \in Colas
    BY <1>e, <2>1, AgregarTipo
  <2>3. cola' \in Colas
    BY <1>7, <2>2 DEF IoTransiciona
  <2>4. io' \in [Ios -> TipoIo]
    BY <1>7, IoTipo DEF TypeOK, IoTransiciona, PcsIo
  <2>5. sem' \in [Semaforos -> Nat]
    BY <1>7, SenalesTipo DEF TypeOK, IoTransiciona
  <2>. QED BY <1>7, <2>3, <2>4, <2>5 DEF TypeOK, IoTransiciona
<1>. QED BY <1>1, <1>2, <1>3, <1>4, <1>5, <1>6, <1>7 DEF Io

-----------------------------------------------------------------------------
(* Every step keeps ConProceso.                                            *)

LEMMA PlanificadoresConProceso ==
    ASSUME TypeOK, ConProceso, FichasDeColas,
           Largo \/ MedianoFifo \/ Mediano
    PROVE  ConProceso'
<1>. USE DEF planif, disposi, pcbs, memoria, Colas, Sigue
<1>1. CASE Largo
  BY <1>1 DEF ConProceso, Largo, LargoDespierta, LargoEsperaVacia, LargoAceptado, LargoRechazado,
              LargoAdmite
<1>2. CASE MedianoFifo
  <2>1. hilo' = hilo /\ io' = io /\ mediano' = mediano
    BY <1>2 DEF MedianoFifo, MedianoFifoDespierta, MedianoFifoAceptado, MedianoFifoRechazado,
                MedianoFifoSaca, MedianoFifoAdmite, MedianoFifoAvisa
  <2>2. "SUSP_READY" \in Estados
    BY DEF Estados
  <2>3. medianoFifo'.pc \notin {"duerme", "avisa"} => medianoFifo'.proc \in Procs
    <3>1. CASE MedianoFifoDespierta
      <4>1. sem["SUSP_READY"] > 0
        BY <3>1 DEF MedianoFifoDespierta, Senales
      <4>2. Head(cola["SUSP_READY"]) \in Procs
        BY <2>2, <4>1, Cabezas, PrimeroTipo DEF TypeOK
      <4>. QED BY <3>1, <4>2 DEF MedianoFifoDespierta
    <3>2. CASE MedianoFifoAceptado
      <4>1. medianoFifo \in [pc : {"duerme", "consulta", "saca", "admite", "avisa"},
                             proc : Procs \cup {Nadie}]
        BY DEF TypeOK
      <4>. QED BY <3>2, <4>1 DEF MedianoFifoAceptado, ConProceso
    <3>3. CASE MedianoFifoSaca
      <4>1. Head(cola["SUSP_READY"]) \in Procs
        BY <2>2, <3>3, Cabezas, PrimeroTipo DEF TypeOK, MedianoFifoSaca
      <4>. QED BY <3>3, <4>1 DEF MedianoFifoSaca
    <3>4. CASE MedianoFifoRechazado \/ MedianoFifoAdmite \/ MedianoFifoAvisa
      BY <3>4 DEF MedianoFifoRechazado, MedianoFifoAdmite, MedianoFifoAvisa
    <3>. QED BY <1>2, <3>1, <3>2, <3>3, <3>4 DEF MedianoFifo
  <2>. QED BY <2>1, <2>3 DEF ConProceso
<1>3. CASE Mediano
  <2>1. hilo' = hilo /\ io' = io /\ medianoFifo' = medianoFifo
    BY <1>3 DEF Mediano, MedianoDespierta, MedianoEnvia, MedianoIntenta
  <2>2. mediano \in [pc : {"duerme", "envia", "intenta"}, proc : Procs \cup {Nadie}]
    BY DEF TypeOK
  <2>3. mediano'.pc # "duerme" => mediano'.proc \in Procs
    BY <1>3, <2>2 DEF Mediano, MedianoDespierta, MedianoEnvia, MedianoIntenta, ConProceso
  <2>. QED BY <2>1, <2>3 DEF ConProceso
<1>. QED BY <1>1, <1>2, <1>3

LEMMA DespacharConProceso ==
    ASSUME TypeOK, ConProceso, FichasDeColas, NEW c \in Cpus, Despachar(c)
    PROVE  ConProceso'
<1>. USE DEF planif, disposi, pcbs, memoria, Colas, Sigue
<1>1. sem["READY"] > 0 /\ "READY" \in Estados
  BY DEF Despachar, Senales, Estados
<1>2. Head(cola["READY"]) \in Procs
  BY <1>1, Cabezas, PrimeroTipo DEF TypeOK
<1>3. hilo \in [Hilos -> TipoHilo]
  BY DEF TypeOK
<1>4. \A h \in Hilos : hilo'[h].pc # "libre" => hilo'[h].proc \in Procs /\ hilo'[h].cpu \in Cpus
  BY <1>2, <1>3 DEF Despachar, ConProceso
<1>5. UNCHANGED <<medianoFifo, mediano, io>>
  BY DEF Despachar
<1>. QED BY <1>4, <1>5 DEF ConProceso

LEMMA HiloConProceso ==
    ASSUME TypeOK, ConProceso, NEW h \in Hilos, Hilo(h)
    PROVE  ConProceso'
<1>. USE DEF planif, disposi, pcbs, memoria, Sigue
<1>1. UNCHANGED <<medianoFifo, mediano>> /\ \A i \in Ios : io'[i] = io[i]
  BY DEF Hilo, SyscallInitProc, SyscallExit, FinalizarIntenta, FinalizarTermina, SyscallDump,
         DumpLiberaCpu, DumpAceptado, DumpAReady, DumpRechazado, SyscallIo, IoBuscaDispositivo,
         IoFinaliza, IoBloquea
<1>2. hilo \in [Hilos -> TipoHilo]
  BY DEF TypeOK
<1>3. \A g \in Hilos : \/ hilo'[g].pc = "libre"
                       \/ /\ hilo[g].pc # "libre"
                          /\ hilo'[g].proc = hilo[g].proc
                          /\ hilo'[g].cpu = hilo[g].cpu
                       \/ hilo'[g] = hilo[g]
  <2>. USE <1>2 DEF Llega, En, Pasa, Finalizar, HiloLibre, TipoHilo
  <2>1. CASE \E q \in Procs : SyscallInitProc(h, q)
    BY <2>1 DEF SyscallInitProc
  <2>2. CASE SyscallExit(h) \/ DumpRechazado(h) \/ IoFinaliza(h)
    BY <2>2 DEF SyscallExit, DumpRechazado, IoFinaliza
  <2>3. CASE FinalizarIntenta(h) \/ FinalizarTermina(h)
    BY <2>3 DEF FinalizarIntenta, FinalizarTermina
  <2>4. CASE SyscallDump(h) \/ DumpLiberaCpu(h) \/ DumpAceptado(h) \/ DumpAReady(h)
    BY <2>4 DEF SyscallDump, DumpLiberaCpu, DumpAceptado, DumpAReady
  <2>5. CASE SyscallIo(h) \/ (\E n \in Nombres : IoBuscaDispositivo(h, n)) \/ IoBloquea(h)
    BY <2>5 DEF SyscallIo, IoBuscaDispositivo, IoBloquea
  <2>. QED BY <2>1, <2>2, <2>3, <2>4, <2>5 DEF Hilo
<1>. QED BY <1>1, <1>3 DEF ConProceso

LEMMA IoConProceso ==
    ASSUME TypeOK, ConProceso, NEW i \in Ios, ConectarIo(i) \/ Io(i)
    PROVE  ConProceso'
<1>. USE DEF planif, disposi, pcbs, memoria, Sigue
<1>1. UNCHANGED <<medianoFifo, mediano, hilo>>
  BY DEF Io, ConectarIo, RegistrarIo, IoDespierta, IoBusca, IoTermina, IoSaca, IoTransiciona
<1>2. io \in [Ios -> TipoIo]
  BY DEF TypeOK
<1>3. \A j \in Ios : io'[j].pc \notin {"ausente", "registra", "espera", "busca"}
                         => io'[j].proc \in Procs
  <2>. USE <1>2 DEF TipoIo, ConProceso
  <2>1. CASE ConectarIo(i)
    BY <2>1 DEF ConectarIo
  <2>2. CASE RegistrarIo(i) \/ IoTransiciona(i)
    BY <2>2 DEF RegistrarIo, IoTransiciona
  <2>3. CASE IoDespierta(i) \/ IoBusca(i)
    BY <2>3 DEF IoDespierta, IoBusca, Toma
  <2>4. CASE IoTermina(i) \/ IoSaca(i)
    BY <2>4 DEF IoTermina, IoSaca
  <2>. QED BY <2>1, <2>2, <2>3, <2>4 DEF Io
<1>. QED BY <1>1, <1>3 DEF ConProceso

LEMMA RestoConProceso ==
    ASSUME ConProceso,
           \/ \E p \in Procs, k \in Veces : Timer(p, k)
           \/ \E c \in Cpus : ConectarCpu(c)
           \/ UsoTrasLiberar
           \/ UNCHANGED vars
    PROVE  ConProceso'
<1>1. UNCHANGED <<medianoFifo, mediano, hilo, io>>
  BY DEF Timer, TimerNace, TimerCompara, TimerBusca, TimerSaca, TimerSuspende, ConectarCpu,
         UsoTrasLiberar, vars, planif, disposi, Sigue
<1>. QED BY <1>1 DEF ConProceso

-----------------------------------------------------------------------------
(* Every step keeps FichasDeColas.                                         *)

\* What the proof of a step needs to know of it: the three counted queues and
\* the two planners, and that each term is a number.
Contadas == {"NEW", "SUSP_READY", "READY"}

LEMMA ContadasTipo ==
    ASSUME TypeOK
    PROVE  /\ Contadas \subseteq Estados \cap Semaforos
           /\ \A e \in Contadas : sem[e] \in Nat /\ Len(cola[e]) \in Nat
<1>1. Contadas \subseteq Estados \cap Semaforos
  BY DEF Contadas, Estados, Semaforos
<1>2. \A e \in Estados : Len(cola[e]) \in Nat
  BY LenProperties DEF TypeOK
<1>. QED BY <1>1, <1>2 DEF TypeOK

LEMMA SenalesContadas ==
    ASSUME TypeOK, NEW E, NEW A, Senales(E, A)
    PROVE  \A e \in Contadas : sem'[e] = sem[e] - Uno(e \in E) + Uno(e \in A)
<1>1. sem \in [Semaforos -> Nat]
  BY DEF TypeOK
<1>2. \A e \in Semaforos : sem'[e] = sem[e] - Uno(e \in E) + Uno(e \in A)
  BY <1>1, SenalesTipo
<1>. QED BY <1>2, ContadasTipo

\* A step that touches neither the counted queues nor their planners.
LEMMA FichasIguales ==
    ASSUME FichasDeColas, largo' = largo, medianoFifo' = medianoFifo,
           \A e \in Contadas : sem'[e] = sem[e] /\ Len(cola'[e]) = Len(cola[e])
    PROVE  FichasDeColas'
BY DEF FichasDeColas, Contadas

\* A step that adds a process to one counted queue and posts its semaphore.
LEMMA FichaNueva ==
    ASSUME TypeOK, FichasDeColas, largo' = largo, medianoFifo' = medianoFifo,
           NEW p \in Procs, NEW d \in Contadas, Senales({}, {d}),
           cola' = [cola EXCEPT ![d] = Append(@, p)]
    PROVE  FichasDeColas'
<1>1. ASSUME NEW e \in Contadas
      PROVE  /\ sem'[e] = sem[e] + Uno(e = d)
             /\ Len(cola'[e]) = Len(cola[e]) + Uno(e = d)
  <2>1. sem'[e] = sem[e] - Uno(e \in {}) + Uno(e \in {d})
    BY SenalesContadas
  <2>2. Uno(e \in {}) = 0 /\ Uno(e \in {d}) = Uno(e = d) /\ Uno(e = d) \in Nat
    BY DEF Uno
  <2>3. sem[e] \in Nat /\ cola \in Colas /\ e \in Estados /\ d \in Estados
    BY ContadasTipo DEF TypeOK, Colas
  <2>4. sem'[e] = sem[e] + Uno(e = d)
    BY <2>1, <2>2, <2>3
  <2>5. \A f \in Estados : Len([cola EXCEPT ![d] = Append(@, p)][f]) = Len(cola[f]) + Uno(f = d)
    BY <2>3, AgregarTipo
  <2>. QED BY <2>3, <2>4, <2>5
<1>2. \A e \in Contadas : sem[e] \in Nat /\ Len(cola[e]) \in Nat
  BY ContadasTipo
<1>3. CASE d = "NEW"
  BY <1>1, <1>2, <1>3 DEF FichasDeColas, Contadas, Uno
<1>4. CASE d = "SUSP_READY"
  BY <1>1, <1>2, <1>4 DEF FichasDeColas, Contadas, Uno
<1>5. CASE d = "READY"
  BY <1>1, <1>2, <1>5 DEF FichasDeColas, Contadas, Uno
<1>. QED BY <1>3, <1>4, <1>5 DEF Contadas

\* The same for a step that may post a semaphore that counts no queue.
LEMMA SinTocarContadas ==
    ASSUME TypeOK, FichasDeColas, largo' = largo, medianoFifo' = medianoFifo,
           \/ sem' = sem
           \/ \E s \in Semaforos \ Contadas : Senales({}, {s})
           \/ Senales({}, {}),
           \A e \in Contadas : cola'[e] = cola[e]
    PROVE  FichasDeColas'
<1>1. \A e \in Contadas : sem'[e] = sem[e]
  <2>1. CASE sem' = sem
    BY <2>1
  <2>2. CASE \E s \in Semaforos \ Contadas : Senales({}, {s})
    <3>1. PICK s \in Semaforos \ Contadas : Senales({}, {s})
      BY <2>2
    <3>2. \A e \in Contadas : sem'[e] = sem[e] - Uno(e \in {}) + Uno(e \in {s})
      BY <3>1, SenalesContadas
    <3>. QED BY <3>1, <3>2, ContadasTipo DEF Uno
  <2>3. CASE Senales({}, {})
    <3>1. \A e \in Contadas : sem'[e] = sem[e] - Uno(e \in {}) + Uno(e \in {})
      BY <2>3, SenalesContadas
    <3>. QED BY <3>1, ContadasTipo DEF Uno
  <2>. QED BY <2>1, <2>2, <2>3
<1>. QED BY <1>1, FichasIguales

LEMMA LargoFichas ==
    ASSUME TypeOK, FichasDeColas, Largo
    PROVE  FichasDeColas'
<1>. USE DEF planif, Colas, Sigue
<1>1. /\ Contadas \subseteq Estados \cap Semaforos
      /\ \A e \in Contadas : sem[e] \in Nat /\ Len(cola[e]) \in Nat
      /\ cola \in Colas
      /\ sem \in [Semaforos -> Nat]
  BY ContadasTipo DEF TypeOK
<1>2. medianoFifo' = medianoFifo
  BY DEF Largo, LargoDespierta, LargoEsperaVacia, LargoAceptado, LargoRechazado, LargoAdmite
<1>3. CASE LargoDespierta
  <2>1. \A e \in Contadas : sem'[e] = sem[e] - Uno(e = "NEW")
    <3>1. \A e \in Contadas : sem'[e] = sem[e] - Uno(e \in {"NEW", "INTENTAR_INICIAR_NEW"})
                                          + Uno(e \in {})
      BY <1>3, SenalesContadas DEF LargoDespierta
    <3>. QED BY <1>1, <3>1 DEF Contadas, Uno
  <2>2. cola' = cola /\ largo = "duerme" /\ largo' # "duerme"
    BY <1>3 DEF LargoDespierta
  <2>. QED BY <1>1, <1>2, <2>1, <2>2 DEF FichasDeColas, Contadas, Uno
<1>4. CASE LargoEsperaVacia
  <2>1. \A e \in Contadas : sem'[e] = sem[e]
    <3>1. \A e \in Contadas : sem'[e] = sem[e] - Uno(e \in {"SUSP_READY_SIN_PROCESOS"})
                                          + Uno(e \in {})
      BY <1>4, SenalesContadas DEF LargoEsperaVacia
    <3>. QED BY <1>1, <3>1 DEF Contadas, Uno
  <2>2. cola' = cola /\ largo # "duerme" /\ largo' # "duerme"
    BY <1>4 DEF LargoEsperaVacia
  <2>. QED BY <1>1, <1>2, <2>1, <2>2 DEF FichasDeColas, Contadas, Uno
<1>5. CASE LargoAceptado
  BY <1>2, <1>5 DEF LargoAceptado, FichasDeColas
<1>6. CASE LargoRechazado
  <2>1. \A e \in Contadas : sem'[e] = sem[e] + Uno(e = "NEW")
    <3>1. \A e \in Contadas : sem'[e] = sem[e] - Uno(e \in {}) + Uno(e \in {"NEW"})
      BY <1>6, SenalesContadas DEF LargoRechazado
    <3>. QED BY <1>1, <3>1 DEF Contadas, Uno
  <2>2. cola' = cola /\ largo # "duerme" /\ largo' = "duerme"
    BY <1>6 DEF LargoRechazado
  <2>. QED BY <1>1, <1>2, <2>1, <2>2 DEF FichasDeColas, Contadas, Uno
<1>7. CASE LargoAdmite
  <2>1. \A e \in Contadas : sem'[e] = sem[e] + Uno(e = "READY")
    <3>1. \A e \in Contadas : sem'[e] = sem[e] - Uno(e \in {})
                                          + Uno(e \in {"READY", "INTENTAR_INICIAR_NEW"})
      BY <1>7, SenalesContadas DEF LargoAdmite
    <3>. QED BY <1>1, <3>1 DEF Contadas, Uno
  <2>2. largo # "duerme" /\ largo' = "duerme"
    BY <1>7 DEF LargoAdmite
  <2>3. \A e \in Contadas : Len(cola'[e]) = Len(cola[e]) - Uno(e = "NEW") + Uno(e = "READY")
    <3>1. Len(cola["NEW"]) > 0 /\ "NEW" \in Estados /\ "READY" \in Estados
      BY <2>2, Cabezas DEF Estados
    <3>2. cola' = MoverPrimero("NEW", "READY")
      BY <1>7 DEF LargoAdmite
    <3>3. /\ Len(cola'["NEW"]) = Len(cola["NEW"]) - 1
          /\ Len(cola'["READY"]) = Len(cola["READY"]) + 1
          /\ \A e \in Estados \ {"NEW", "READY"} : cola'[e] = cola[e]
      BY <1>1, <3>1, <3>2, MoverPrimeroTipo
    <3>4. /\ Uno("NEW" = "NEW") = 1 /\ Uno("NEW" = "READY") = 0
          /\ Uno("READY" = "NEW") = 0 /\ Uno("READY" = "READY") = 1
          /\ Uno("SUSP_READY" = "NEW") = 0 /\ Uno("SUSP_READY" = "READY") = 0
      BY DEF Uno
    <3>5. Len(cola'["SUSP_READY"]) = Len(cola["SUSP_READY"])
      BY <3>3 DEF Estados
    <3>6. \A e \in Contadas : Len(cola[e]) \in Nat
      BY <1>1
    <3>7. Len(cola'["NEW"]) = Len(cola["NEW"]) - 1 + 0
      BY <3>3, <3>6 DEF Contadas
    <3>8. Len(cola'["READY"]) = Len(cola["READY"]) - 0 + 1
      BY <3>3, <3>6 DEF Contadas
    <3>9. Len(cola'["SUSP_READY"]) = Len(cola["SUSP_READY"]) - 0 + 0
      BY <3>5, <3>6 DEF Contadas
    <3>. QED BY <3>4, <3>7, <3>8, <3>9 DEF Contadas
  <2>. QED BY <1>1, <1>2, <2>1, <2>2, <2>3 DEF FichasDeColas, Contadas, Uno
<1>. QED BY <1>3, <1>4, <1>5, <1>6, <1>7 DEF Largo

LEMMA MedianoFifoFichas ==
    ASSUME TypeOK, ConProceso, FichasDeColas, MedianoFifo
    PROVE  FichasDeColas'
<1>. USE DEF planif, Colas, Sigue
<1>1. /\ Contadas \subseteq Estados \cap Semaforos
      /\ \A e \in Contadas : sem[e] \in Nat /\ Len(cola[e]) \in Nat
      /\ cola \in Colas
      /\ sem \in [Semaforos -> Nat]
  BY ContadasTipo DEF TypeOK
<1>2. largo' = largo
  BY DEF MedianoFifo, MedianoFifoDespierta, MedianoFifoAceptado, MedianoFifoRechazado,
         MedianoFifoSaca, MedianoFifoAdmite, MedianoFifoAvisa
<1>3. CASE MedianoFifoDespierta
  <2>1. \A e \in Contadas : sem'[e] = sem[e] - Uno(e = "SUSP_READY")
    <3>1. \A e \in Contadas :
            sem'[e] = sem[e] - Uno(e \in {"SUSP_READY", "INTENTAR_INICIAR_SUSP_READY"})
                        + Uno(e \in {})
      BY <1>3, SenalesContadas DEF MedianoFifoDespierta
    <3>. QED BY <1>1, <3>1 DEF Contadas, Uno
  <2>2. cola' = cola /\ medianoFifo.pc = "duerme" /\ medianoFifo'.pc = "consulta"
    BY <1>3 DEF MedianoFifoDespierta
  <2>. QED BY <1>1, <1>2, <2>1, <2>2 DEF FichasDeColas, Contadas, Uno
<1>4. CASE MedianoFifoAceptado
  <2>1. medianoFifo \in [pc : {"duerme", "consulta", "saca", "admite", "avisa"},
                         proc : Procs \cup {Nadie}]
    BY DEF TypeOK
  <2>2. medianoFifo.pc = "consulta" /\ medianoFifo'.pc = "saca"
    BY <1>4, <2>1 DEF MedianoFifoAceptado
  <2>3. cola' = cola /\ sem' = sem
    BY <1>4 DEF MedianoFifoAceptado
  <2>. QED BY <1>2, <2>2, <2>3 DEF FichasDeColas
<1>5. CASE MedianoFifoRechazado
  <2>1. \A e \in Contadas : sem'[e] = sem[e] + Uno(e = "SUSP_READY")
    <3>1. \A e \in Contadas : sem'[e] = sem[e] - Uno(e \in {}) + Uno(e \in {"SUSP_READY"})
      BY <1>5, SenalesContadas DEF MedianoFifoRechazado
    <3>. QED BY <1>1, <3>1 DEF Contadas, Uno
  <2>2. cola' = cola /\ medianoFifo.pc = "consulta" /\ medianoFifo'.pc = "duerme"
    BY <1>5 DEF MedianoFifoRechazado
  <2>. QED BY <1>1, <1>2, <2>1, <2>2 DEF FichasDeColas, Contadas, Uno
<1>6. CASE MedianoFifoSaca
  <2>1. sem' = sem /\ medianoFifo.pc = "saca" /\ medianoFifo'.pc = "admite"
    BY <1>6 DEF MedianoFifoSaca
  <2>2. \A e \in Contadas : Len(cola'[e]) = Len(cola[e]) - Uno(e = "SUSP_READY")
    BY <1>1, <1>6, Cabezas, PrimeroTipo DEF MedianoFifoSaca, Contadas
  <2>. QED BY <1>1, <1>2, <2>1, <2>2 DEF FichasDeColas, Contadas, Uno
<1>7. CASE MedianoFifoAdmite
  <2>1. \A e \in Contadas : sem'[e] = sem[e] + Uno(e = "READY")
    <3>1. \A e \in Contadas : sem'[e] = sem[e] - Uno(e \in {})
                                          + Uno(e \in {"READY", "INTENTAR_INICIAR_SUSP_READY"})
      BY <1>7, SenalesContadas DEF MedianoFifoAdmite
    <3>. QED BY <1>1, <3>1 DEF Contadas, Uno
  <2>2. medianoFifo.proc \in Procs
    BY <1>7 DEF MedianoFifoAdmite, ConProceso
  <2>3. \A e \in Contadas : Len(cola'[e]) = Len(cola[e]) + Uno(e = "READY")
    BY <1>1, <1>7, <2>2, AgregarTipo DEF MedianoFifoAdmite, Contadas
  <2>4. medianoFifo.pc = "admite" /\ medianoFifo'.pc = "avisa"
    BY <1>7 DEF MedianoFifoAdmite
  <2>5. /\ Uno(medianoFifo.pc \in {"consulta", "saca"}) = 0
        /\ Uno(medianoFifo'.pc \in {"consulta", "saca"}) = 0
        /\ Uno("NEW" = "READY") = 0 /\ Uno("SUSP_READY" = "READY") = 0
        /\ Uno("READY" = "READY") = 1
    BY <2>4 DEF Uno
  <2>. QED BY <1>1, <1>2, <2>1, <2>3, <2>5 DEF FichasDeColas, Contadas
<1>8. CASE MedianoFifoAvisa
  <2>1. \A e \in Contadas : sem'[e] = sem[e]
    <3>1. PICK A \in SUBSET {"SUSP_READY_SIN_PROCESOS"} : Senales({}, A)
      BY <1>8 DEF MedianoFifoAvisa
    <3>2. \A e \in Contadas : sem'[e] = sem[e] - Uno(e \in {}) + Uno(e \in A)
      BY <3>1, SenalesContadas
    <3>3. \A e \in Contadas : e \notin A
      BY <3>1 DEF Contadas
    <3>. QED BY <1>1, <3>2, <3>3 DEF Uno
  <2>2. cola' = cola /\ medianoFifo.pc = "avisa" /\ medianoFifo'.pc = "duerme"
    BY <1>8 DEF MedianoFifoAvisa
  <2>. QED BY <1>1, <1>2, <2>1, <2>2 DEF FichasDeColas, Contadas, Uno
<1>. QED BY <1>3, <1>4, <1>5, <1>6, <1>7, <1>8 DEF MedianoFifo

LEMMA MedianoFichas ==
    ASSUME TypeOK, FichasDeColas, Mediano
    PROVE  FichasDeColas'
<1>. USE DEF planif, Sigue
<1>1. cola' = cola /\ largo' = largo /\ medianoFifo' = medianoFifo
  BY DEF Mediano, MedianoDespierta, MedianoEnvia, MedianoIntenta
<1>2. \A e \in Contadas : sem'[e] = sem[e]
  <2>1. CASE MedianoDespierta
    <3>1. \A e \in Contadas : sem'[e] = sem[e] - Uno(e \in {"SUSP_BLOCKED"}) + Uno(e \in {})
      BY <2>1, SenalesContadas DEF MedianoDespierta
    <3>. QED BY <3>1, ContadasTipo DEF Contadas, Uno
  <2>2. CASE MedianoEnvia
    BY <2>2 DEF MedianoEnvia
  <2>3. CASE MedianoIntenta
    <3>1. PICK s \in {"INTENTAR_INICIAR_SUSP_READY", "INTENTAR_INICIAR_NEW"} : Senales({}, {s})
      BY <2>3 DEF MedianoIntenta, IntentarIniciar
    <3>2. \A e \in Contadas : sem'[e] = sem[e] - Uno(e \in {}) + Uno(e \in {s})
      BY <3>1, SenalesContadas
    <3>. QED BY <3>2, ContadasTipo DEF Contadas, Uno
  <2>. QED BY <2>1, <2>2, <2>3 DEF Mediano
<1>. QED BY <1>1, <1>2, FichasIguales

LEMMA DespacharFichas ==
    ASSUME TypeOK, FichasDeColas, NEW c \in Cpus, Despachar(c)
    PROVE  FichasDeColas'
<1>. USE DEF planif, Colas, Sigue
<1>1. /\ Contadas \subseteq Estados \cap Semaforos
      /\ \A e \in Contadas : sem[e] \in Nat /\ Len(cola[e]) \in Nat
      /\ cola \in Colas
      /\ "READY" \in Contadas /\ "EXEC" \in Estados \ Contadas
      /\ sem \in [Semaforos -> Nat]
  BY ContadasTipo DEF TypeOK, Contadas, Estados
<1>2. \A e \in Contadas : sem'[e] = sem[e] - Uno(e = "READY")
  <2>1. \A e \in Contadas : sem'[e] = sem[e] - Uno(e \in {"READY", "CPUS_LIBRES"}) + Uno(e \in {})
    BY SenalesContadas DEF Despachar
  <2>. QED BY <1>1, <2>1 DEF Contadas, Uno
<1>3. sem["READY"] > 0
  BY DEF Despachar, Senales
<1>4. \A e \in Contadas : Len(cola'[e]) = Len(cola[e]) - Uno(e = "READY")
  <2>1. Len(cola["READY"]) > 0 /\ cola' = MoverPrimero("READY", "EXEC")
    BY <1>3, Cabezas DEF Despachar
  <2>2. "READY" \in Estados /\ "EXEC" \in Estados
    BY DEF Estados
  <2>3. /\ Len(cola'["READY"]) = Len(cola["READY"]) - 1
        /\ \A e \in Estados \ {"READY", "EXEC"} : cola'[e] = cola[e]
    BY <1>1, <2>1, <2>2, MoverPrimeroTipo
  <2>4. TAKE e \in Contadas
  <2>5. CASE e = "READY"
    BY <1>1, <2>3, <2>5 DEF Uno
  <2>6. CASE e # "READY"
    <3>1. e # "EXEC" /\ cola'[e] = cola[e] /\ Len(cola[e]) \in Nat
      BY <1>1, <2>3, <2>6
    <3>. QED BY <2>6, <3>1 DEF Uno
  <2>. QED BY <2>5, <2>6
<1>5. largo' = largo /\ medianoFifo' = medianoFifo
  BY DEF Despachar
<1>. QED BY <1>1, <1>2, <1>4, <1>5 DEF FichasDeColas, Contadas, Uno

LEMMA HiloFichas ==
    ASSUME TypeOK, ConProceso, FichasDeColas, NEW h \in Hilos, Hilo(h)
    PROVE  FichasDeColas'
<1>. USE DEF planif, Sigue
<1>1. largo' = largo /\ medianoFifo' = medianoFifo
  BY DEF Hilo, SyscallInitProc, SyscallExit, FinalizarIntenta, FinalizarTermina, SyscallDump,
         DumpLiberaCpu, DumpAceptado, DumpAReady, DumpRechazado, SyscallIo, IoBuscaDispositivo,
         IoFinaliza, IoBloquea
<1>2. /\ cola \in Colas
      /\ {"EXEC", "BLOCKED", "EXIT_ESTADO"} \subseteq Estados \ Contadas
      /\ Contadas \subseteq Estados
      /\ {"INTENTAR_INICIAR_NEW", "INTENTAR_INICIAR_SUSP_READY", "CPUS_LIBRES"}
            \subseteq Semaforos \ Contadas
      /\ "NEW" \in Contadas /\ "READY" \in Contadas
  BY DEF TypeOK, Colas, Contadas, Estados, Semaforos
<1>3. CASE \E q \in Procs : SyscallInitProc(h, q)
  BY <1>1, <1>2, <1>3, FichaNueva DEF SyscallInitProc
<1>4. CASE DumpAReady(h)
  <2>1. hilo[h].proc \in Procs
    BY <1>4 DEF DumpAReady, ConProceso, En
  <2>. QED BY <1>1, <1>2, <1>4, <2>1, FichaNueva DEF DumpAReady
<1>5. CASE SyscallExit(h) \/ DumpRechazado(h) \/ IoFinaliza(h)
  <2>1. hilo[h].proc \in Procs /\ sem' = sem
    BY <1>5 DEF SyscallExit, DumpRechazado, IoFinaliza, Llega, En, ConProceso
  <2>2. PICK e \in {"EXEC", "BLOCKED"} : cola' = Mover(hilo[h].proc, e, "EXIT_ESTADO")
    BY <1>5 DEF SyscallExit, DumpRechazado, IoFinaliza, Finalizar
  <2>3. \A d \in Contadas : cola'[d] = cola[d]
    BY <1>2, <2>1, <2>2, MoverTipo
  <2>. QED BY <1>1, <2>1, <2>3, SinTocarContadas
<1>6. CASE SyscallDump(h) \/ IoBloquea(h)
  <2>1. hilo[h].proc \in Procs /\ sem' = sem
    BY <1>6 DEF SyscallDump, IoBloquea, Llega, En, ConProceso
  <2>2. cola' = Mover(hilo[h].proc, "EXEC", "BLOCKED")
    BY <1>6 DEF SyscallDump, IoBloquea
  <2>3. \A d \in Contadas : cola'[d] = cola[d]
    BY <1>2, <2>1, <2>2, MoverTipo
  <2>. QED BY <1>1, <2>1, <2>3, SinTocarContadas
<1>7. CASE FinalizarTermina(h) \/ DumpAceptado(h)
  <2>1. sem' = sem \/ Senales({}, {"CPUS_LIBRES"})
    BY <1>7 DEF FinalizarTermina, LiberarCpu, DumpAceptado
  <2>2. PICK e \in {"EXIT_ESTADO", "BLOCKED"} : cola' = Sacar(hilo[h].proc, e)
    BY <1>7 DEF FinalizarTermina, DumpAceptado
  <2>3. \A d \in Contadas : cola'[d] = cola[d]
    BY <1>2, <2>2, SacarTipo
  <2>. QED BY <1>1, <1>2, <2>1, <2>3, SinTocarContadas
<1>8. CASE FinalizarIntenta(h) \/ DumpLiberaCpu(h) \/ SyscallIo(h)
             \/ \E n \in Nombres : IoBuscaDispositivo(h, n)
  <2>1. cola' = cola
    BY <1>8 DEF FinalizarIntenta, DumpLiberaCpu, SyscallIo, IoBuscaDispositivo
  <2>2. \/ sem' = sem
        \/ \E s \in {"INTENTAR_INICIAR_NEW", "INTENTAR_INICIAR_SUSP_READY", "CPUS_LIBRES"} :
              Senales({}, {s})
    BY <1>8 DEF FinalizarIntenta, IntentarIniciar, DumpLiberaCpu, SyscallIo, LiberarCpu,
                IoBuscaDispositivo
  <2>. QED BY <1>1, <1>2, <2>1, <2>2, SinTocarContadas
<1>. QED BY <1>3, <1>4, <1>5, <1>6, <1>7, <1>8 DEF Hilo

LEMMA TimerFichas ==
    ASSUME TypeOK, FichasDeColas, NEW p \in Procs, NEW k \in Veces, Timer(p, k)
    PROVE  FichasDeColas'
<1>. USE DEF planif, Sigue
<1>1. largo' = largo /\ medianoFifo' = medianoFifo
  BY DEF Timer, TimerNace, TimerCompara, TimerBusca, TimerSaca, TimerSuspende
<1>2. /\ cola \in Colas
      /\ {"BLOCKED", "SUSP_BLOCKED"} \subseteq Estados \ Contadas
      /\ Contadas \subseteq Estados
      /\ "SUSP_BLOCKED" \in Semaforos \ Contadas
  BY DEF TypeOK, Colas, Contadas, Estados, Semaforos
<1>3. sem' = sem \/ Senales({}, {"SUSP_BLOCKED"})
  BY DEF Timer, TimerNace, TimerCompara, TimerBusca, TimerSaca, TimerSuspende
<1>4. \A d \in Contadas : cola'[d] = cola[d]
  <2>1. CASE TimerNace(p, k) \/ TimerCompara(p, k) \/ TimerBusca(p, k)
    BY <2>1 DEF TimerNace, TimerCompara, TimerBusca
  <2>2. CASE TimerSaca(p, k)
    BY <1>2, <2>2, SacarTipo DEF TimerSaca
  <2>3. CASE TimerSuspende(p, k)
    BY <1>2, <2>3 DEF TimerSuspende, Colas
  <2>. QED BY <2>1, <2>2, <2>3 DEF Timer
<1>. QED BY <1>1, <1>2, <1>3, <1>4, SinTocarContadas

LEMMA IoFichas ==
    ASSUME TypeOK, ConProceso, FichasDeColas, NEW i \in Ios, ConectarIo(i) \/ Io(i)
    PROVE  FichasDeColas'
<1>. USE DEF planif, Sigue
<1>1. largo' = largo /\ medianoFifo' = medianoFifo
  BY DEF Io, ConectarIo, RegistrarIo, IoDespierta, IoBusca, IoTermina, IoSaca, IoTransiciona
<1>2. /\ cola \in Colas
      /\ {"BLOCKED", "SUSP_BLOCKED"} \subseteq Estados \ Contadas
      /\ Contadas \subseteq Estados
      /\ {"READY", "SUSP_READY"} \subseteq Contadas
  BY DEF TypeOK, Colas, Contadas, Estados
<1>3. CASE IoTransiciona(i)
  <2>1. io[i].proc \in Procs
    BY <1>3 DEF IoTransiciona, ConProceso
  <2>2. PICK e \in {"READY", "SUSP_READY"} :
              cola' = [cola EXCEPT ![e] = Append(@, io[i].proc)] /\ Senales({}, {e})
    BY <1>3 DEF IoTransiciona
  <2>. QED BY <1>1, <1>2, <2>1, <2>2, FichaNueva
<1>4. CASE IoSaca(i)
  <2>1. PICK e \in {"BLOCKED", "SUSP_BLOCKED"} : cola' = Sacar(io[i].proc, e)
    BY <1>4 DEF IoSaca
  <2>2. \A d \in Contadas : cola'[d] = cola[d]
    BY <1>2, <2>1, SacarTipo
  <2>3. sem' = sem
    BY <1>4 DEF IoSaca
  <2>. QED BY <1>1, <2>2, <2>3, SinTocarContadas
<1>5. CASE ConectarIo(i) \/ RegistrarIo(i) \/ IoDespierta(i) \/ IoBusca(i) \/ IoTermina(i)
  <2>1. sem' = sem /\ cola' = cola
    BY <1>5 DEF ConectarIo, RegistrarIo, IoDespierta, IoBusca, IoTermina
  <2>. QED BY <1>1, <2>1, SinTocarContadas
<1>. QED BY <1>3, <1>4, <1>5 DEF Io

LEMMA RestoFichas ==
    ASSUME TypeOK, FichasDeColas,
           (\E c \in Cpus : ConectarCpu(c)) \/ UsoTrasLiberar \/ UNCHANGED vars
    PROVE  FichasDeColas'
<1>. USE DEF planif, Sigue
<1>1. UNCHANGED <<cola, largo, medianoFifo>>
  BY DEF ConectarCpu, UsoTrasLiberar, vars
<1>2. sem' = sem \/ Senales({}, {"CPUS_LIBRES"})
  BY DEF ConectarCpu, UsoTrasLiberar, vars
<1>3. "CPUS_LIBRES" \in Semaforos \ Contadas
  BY DEF Contadas, Semaforos
<1>. QED BY <1>1, <1>2, <1>3, SinTocarContadas

-----------------------------------------------------------------------------
(* The invariant.                                                          *)

IInv == TypeOK /\ ConProceso /\ FichasDeColas

LEMMA InitIInv ==
    ASSUME ConstantesAssumption, Init
    PROVE  IInv
<1>1. cola \in Colas
  <2>1. <<ProcesoInicial>> \in Seq(Procs) /\ <<>> \in Seq(Procs)
    BY DEF ConstantesAssumption
  <2>. QED BY <2>1 DEF Init, Colas
<1>2. sem \in [Semaforos -> Nat]
  BY DEF Init, Uno
<1>3. /\ hilo \in [Hilos -> TipoHilo]
      /\ timer \in [Procs -> [Veces -> TipoTimer]]
      /\ io \in [Ios -> TipoIo]
  BY DEF Init, TipoHilo, TipoTimer, TipoIo, HiloLibre, PcsHilo, PcsIo
<1>4. restan \in [Procs -> Nat] /\ libres \in Int
  <2>1. MaxSyscalls \in [Procs -> Nat] /\ Marcos \in Nat
    BY DEF ConstantesAssumption
  <2>2. restan = MaxSyscalls /\ libres = Marcos
    BY DEF Init
  <2>. QED BY <2>1, <2>2
<1>5. /\ semIo \in [Ios -> Nat]
      /\ cpu \in [Cpus -> {"ausente", "libre", "ocupada"}]
      /\ vivo \in [Procs -> {"sin crear", "vivo", "liberado"}]
      /\ nombreIo \in [Procs -> Nombres \cup {Vacio, Nulo, Basura}]
      /\ veces \in [Procs -> Nat]
      /\ flag \in [Procs -> BOOLEAN]
      /\ ubicacion \in [Procs -> {"fuera", "memoria", "swap"}]
  BY DEF Init
<1>6. /\ largo \in {"duerme", "esperaVacia", "consulta", "admite"}
      /\ medianoFifo \in [pc : {"duerme", "consulta", "saca", "admite", "avisa"},
                          proc : Procs \cup {Nadie}]
      /\ mediano \in [pc : {"duerme", "envia", "intenta"}, proc : Procs \cup {Nadie}]
      /\ caido \in BOOLEAN
      /\ ios \in Seq(Ios)
  <2>1. ios = <<>>
    BY DEF Init
  <2>. QED BY <2>1, EmptySeq DEF Init
<1>7. TypeOK
  BY <1>1, <1>2, <1>3, <1>4, <1>5, <1>6 DEF TypeOK, Colas
<1>8. ConProceso
  BY DEF Init, ConProceso, HiloLibre
<1>9. FichasDeColas
  <2>1. /\ cola["NEW"] = <<ProcesoInicial>>
        /\ cola["SUSP_READY"] = <<>>
        /\ cola["READY"] = <<>>
    BY DEF Init, Estados
  <2>2. sem["NEW"] = 1 /\ sem["SUSP_READY"] = 0 /\ sem["READY"] = 0
    BY DEF Init, Semaforos, Uno
  <2>3. Len(<<ProcesoInicial>>) = 1 /\ Len(<<>>) = 0
    OBVIOUS
  <2>4. /\ Uno(largo # "duerme") = 0
        /\ Uno(medianoFifo.pc \in {"consulta", "saca"}) = 0
    BY DEF Init, Uno
  <2>. QED BY <2>1, <2>2, <2>3, <2>4 DEF FichasDeColas
<1>. QED BY <1>7, <1>8, <1>9 DEF IInv

LEMMA NextIInv ==
    ASSUME ConstantesAssumption, IInv, [Next]_vars
    PROVE  IInv'
<1>. USE DEF IInv
<1>1. CASE Largo
  BY <1>1, LargoTypeOK, PlanificadoresConProceso, LargoFichas
<1>2. CASE MedianoFifo
  BY <1>2, MedianoFifoTypeOK, PlanificadoresConProceso, MedianoFifoFichas
<1>3. CASE Mediano
  BY <1>3, MedianoTypeOK, PlanificadoresConProceso, MedianoFichas
<1>4. CASE Corto
  BY <1>4, DespacharTypeOK, DespacharConProceso, DespacharFichas DEF Corto
<1>5. ASSUME NEW h \in Hilos, Hilo(h)
      PROVE  IInv'
  BY <1>5, HiloTypeOK, HiloConProceso, HiloFichas
<1>6. ASSUME NEW p \in Procs, NEW k \in Veces, Timer(p, k)
      PROVE  IInv'
  BY <1>6, TimerTypeOK, RestoConProceso, TimerFichas
<1>7. ASSUME NEW i \in Ios, ConectarIo(i) \/ Io(i)
      PROVE  IInv'
  BY <1>7, IoTypeOK, IoConProceso, IoFichas
<1>8. CASE (\E c \in Cpus : ConectarCpu(c)) \/ UsoTrasLiberar \/ UNCHANGED vars
  <2>1. TypeOK'
    <3>1. CASE \E c \in Cpus : ConectarCpu(c)
      <4>1. PICK c \in Cpus : ConectarCpu(c)
        BY <3>1
      <4>2. sem' \in [Semaforos -> Nat]
        BY <4>1, SenalesTipo DEF TypeOK, ConectarCpu
      <4>3. cpu' \in [Cpus -> {"ausente", "libre", "ocupada"}]
        BY <4>1 DEF TypeOK, ConectarCpu
      <4>. QED BY <4>1, <4>2, <4>3
               DEF TypeOK, ConectarCpu, planif, disposi, pcbs, memoria, Sigue
    <3>2. CASE UsoTrasLiberar
      BY <3>2 DEF TypeOK, UsoTrasLiberar, planif, disposi, pcbs, memoria
    <3>3. CASE UNCHANGED vars
      BY <3>3 DEF TypeOK, vars, planif, disposi, pcbs, memoria
    <3>. QED BY <1>8, <3>1, <3>2, <3>3
  <2>. QED BY <1>8, <2>1, RestoConProceso, RestoFichas
<1>. QED BY <1>1, <1>2, <1>3, <1>4, <1>5, <1>6, <1>7, <1>8 DEF Next

\* Every reachable state has the types of TypeOK, the threads past their waits
\* carry a process, and the semaphores count the queues.
THEOREM InvarianteInductivo == Spec => []IInv
<1>1. Init => IInv
  BY InitIInv, ConstantesAssumption
<1>2. IInv /\ [Next]_vars => IInv'
  BY NextIInv, ConstantesAssumption
<1>. QED BY <1>1, <1>2, PTL DEF Spec

\* Type correctness: no planner, timer, device or syscall thread ever stores in
\* a queue or a pcb something that is not a process.
THEOREM TiposCorrectos == Spec => []TypeOK
<1>1. IInv => TypeOK
  BY DEF IInv
<1>. QED BY <1>1, InvarianteInductivo, PTL

\* CANTIDAD_DE_PROCESOS_EN counts NEW, SUSP_READY and READY exactly: no wakeup
\* is lost and no planner reads the head of an empty list.
THEOREM SemaforosCuentanColas == Spec => []FichasDeColas
<1>1. IInv => FichasDeColas
  BY DEF IInv
<1>. QED BY <1>1, InvarianteInductivo, PTL

-----------------------------------------------------------------------------
(* CPUs.  The two invariants need each other: a thread that releases its CPU  *)
(* adds one to the free CPUs only if no other thread released it before.    *)

Libres == {c \in Cpus : cpu[c] = "libre"}

InvCpus == FichasDeCpu /\ UnProcesoPorCpu

LEMMA LibresFinito ==
    ASSUME ConstantesAssumption
    PROVE  IsFiniteSet(Libres) /\ Cardinality(Libres) \in Nat
<1>1. Libres \subseteq Cpus /\ IsFiniteSet(Cpus)
  BY DEF Libres, ConstantesAssumption
<1>. QED BY <1>1, FS_Subset, FS_CardinalityType

LEMMA SenalesCpu ==
    ASSUME TypeOK, NEW E, NEW A, Senales(E, A)
    PROVE  /\ "CPUS_LIBRES" \notin E \cup A => sem'["CPUS_LIBRES"] = sem["CPUS_LIBRES"]
           /\ "CPUS_LIBRES" \in E \ A => sem'["CPUS_LIBRES"] = sem["CPUS_LIBRES"] - 1
           /\ "CPUS_LIBRES" \in A \ E => sem'["CPUS_LIBRES"] = sem["CPUS_LIBRES"] + 1
<1>1. "CPUS_LIBRES" \in Semaforos /\ sem["CPUS_LIBRES"] \in Nat
  BY DEF TypeOK, Semaforos
<1>2. sem \in [Semaforos -> Nat]
  BY DEF TypeOK
<1>3. \A s \in Semaforos : sem'[s] = sem[s] - Uno(s \in E) + Uno(s \in A)
  BY <1>2, SenalesTipo
<1>4. sem'["CPUS_LIBRES"] = sem["CPUS_LIBRES"] - Uno("CPUS_LIBRES" \in E) + Uno("CPUS_LIBRES" \in A)
  BY <1>1, <1>3
<1>. QED BY <1>1, <1>4 DEF Uno

\* A CPU becomes free and CPUS_LIBRES is posted.
LEMMA CpuSeLibera ==
    ASSUME ConstantesAssumption, TypeOK, FichasDeCpu, NEW c \in Cpus, cpu[c] # "libre",
           cpu' = [cpu EXCEPT ![c] = "libre"], Senales({}, {"CPUS_LIBRES"})
    PROVE  FichasDeCpu'
<1>1. Libres' = Libres \cup {c} /\ c \notin Libres
  <2>1. \A d \in Cpus : cpu'[d] = IF d = c THEN "libre" ELSE cpu[d]
    BY DEF TypeOK
  <2>. QED BY <2>1 DEF Libres
<1>2. Cardinality(Libres') = Cardinality(Libres) + 1
  BY <1>1, LibresFinito, FS_AddElement
<1>3. sem'["CPUS_LIBRES"] = sem["CPUS_LIBRES"] + 1
  BY SenalesCpu
<1>. QED BY <1>2, <1>3 DEF FichasDeCpu, Libres

\* The planner takes a free CPU.
LEMMA CpuSeOcupa ==
    ASSUME ConstantesAssumption, TypeOK, FichasDeCpu, NEW c \in Cpus, Despachar(c)
    PROVE  FichasDeCpu'
<1>1. Libres' = Libres \ {c} /\ c \in Libres
  BY DEF TypeOK, Libres, Despachar
<1>2. Cardinality(Libres') = Cardinality(Libres) - 1
  BY <1>1, LibresFinito, FS_RemoveElement
<1>3. sem'["CPUS_LIBRES"] = sem["CPUS_LIBRES"] - 1
  BY SenalesCpu DEF Despachar
<1>. QED BY <1>2, <1>3 DEF FichasDeCpu, Libres

\* A step of thread h that releases its CPU and stops owning it.
LEMMA HiloSuelta ==
    ASSUME ConstantesAssumption, TypeOK, ConProceso, InvCpus, NEW h \in Hilos, ConCpu(h),
           LiberarCpu(h), ~ConCpu(h)', \A g \in Hilos \ {h} : hilo'[g] = hilo[g]
    PROVE  InvCpus'
<1>1. hilo[h].cpu \in Cpus /\ cpu[hilo[h].cpu] = "ocupada"
  BY DEF InvCpus, UnProcesoPorCpu, ConCpu, ConProceso
<1>2. FichasDeCpu'
  BY <1>1, CpuSeLibera DEF InvCpus, LiberarCpu
<1>3. \A g \in Hilos : ConCpu(g)' => g # h /\ ConCpu(g) /\ hilo'[g] = hilo[g]
  BY DEF ConCpu
<1>4. \A g \in Hilos : ConCpu(g)' => cpu'[hilo[g].cpu] = "ocupada"
  <2>1. SUFFICES ASSUME NEW g \in Hilos, ConCpu(g)'
                 PROVE  cpu'[hilo[g].cpu] = "ocupada"
    OBVIOUS
  <2>2. g # h /\ ConCpu(g)
    BY <1>3, <2>1
  <2>3. hilo[g].cpu \in Cpus \ {hilo[h].cpu} /\ cpu[hilo[g].cpu] = "ocupada"
    BY <2>2 DEF InvCpus, UnProcesoPorCpu, ConCpu, ConProceso
  <2>4. \A d \in Cpus \ {hilo[h].cpu} : cpu'[d] = cpu[d]
    <3>1. cpu' = [cpu EXCEPT ![hilo[h].cpu] = "libre"]
      BY DEF LiberarCpu
    <3>2. DOMAIN cpu = Cpus
      BY DEF TypeOK
    <3>. QED BY ONLY <3>1, <3>2
  <2>. QED BY ONLY <2>3, <2>4
<1>5. UnProcesoPorCpu'
  BY <1>3, <1>4 DEF InvCpus, UnProcesoPorCpu
<1>. QED BY <1>2, <1>5 DEF InvCpus

\* A step that leaves the CPUs alone and gives no thread a CPU.
LEMMA CpusIguales ==
    ASSUME InvCpus, cpu' = cpu, sem'["CPUS_LIBRES"] = sem["CPUS_LIBRES"],
           \A g \in Hilos : ConCpu(g)' => ConCpu(g) /\ hilo'[g].cpu = hilo[g].cpu
    PROVE  InvCpus'
<1>1. FichasDeCpu'
  BY DEF InvCpus, FichasDeCpu
<1>2. UnProcesoPorCpu'
  BY DEF InvCpus, UnProcesoPorCpu
<1>. QED BY <1>1, <1>2 DEF InvCpus

LEMMA DespacharCpus ==
    ASSUME ConstantesAssumption, TypeOK, ConProceso, InvCpus, NEW c \in Cpus, Despachar(c)
    PROVE  InvCpus'
<1>1. FichasDeCpu'
  BY CpuSeOcupa DEF InvCpus
<1>2. PICK h \in Hilos :
        hilo' = [hilo EXCEPT ![h] = [pc |-> "ejecuta", proc |-> Head(cola["READY"]),
                                     cpu |-> c, motivo |-> "EXIT"]]
  BY DEF Despachar
<1>3. /\ cpu[c] = "libre"
      /\ cpu'[c] = "ocupada"
      /\ \A d \in Cpus \ {c} : cpu'[d] = cpu[d]
      /\ hilo'[h].cpu = c
      /\ \A g \in Hilos \ {h} : hilo'[g] = hilo[g]
  <2>1. cpu[c] = "libre" /\ cpu' = [cpu EXCEPT ![c] = "ocupada"]
    BY DEF Despachar
  <2>2. cpu \in [Cpus -> {"ausente", "libre", "ocupada"}] /\ hilo \in [Hilos -> TipoHilo]
    BY DEF TypeOK
  <2>. QED BY <1>2, <2>1, <2>2
<1>4. \A g \in Hilos \ {h} : ConCpu(g)' => ConCpu(g) /\ hilo'[g].cpu # c
                                             /\ cpu'[hilo'[g].cpu] = "ocupada"
  <2>1. SUFFICES ASSUME NEW g \in Hilos \ {h}, ConCpu(g)'
                 PROVE  ConCpu(g) /\ hilo'[g].cpu # c /\ cpu'[hilo'[g].cpu] = "ocupada"
    OBVIOUS
  <2>2. ConCpu(g) /\ hilo'[g].cpu = hilo[g].cpu
    BY <1>3, <2>1 DEF ConCpu
  <2>3. cpu[hilo[g].cpu] = "ocupada"
    BY <2>2 DEF InvCpus, UnProcesoPorCpu
  <2>4. hilo[g].cpu \in Cpus \ {c}
    BY <1>3, <2>2, <2>3 DEF ConCpu, ConProceso
  <2>5. cpu'[hilo[g].cpu] = cpu[hilo[g].cpu]
    BY <1>3, <2>4
  <2>. QED BY <2>2, <2>3, <2>4, <2>5
<1>5. \A f, g \in Hilos \ {h} : hilo'[f].cpu = hilo'[g].cpu /\ ConCpu(f)' /\ ConCpu(g)' => f = g
  BY <1>3, <1>4 DEF InvCpus, UnProcesoPorCpu
<1>6. UnProcesoPorCpu'
  BY <1>3, <1>4, <1>5 DEF UnProcesoPorCpu
<1>. QED BY <1>1, <1>6 DEF InvCpus

LEMMA HiloCpus ==
    ASSUME ConstantesAssumption, TypeOK, ConProceso, InvCpus, NEW h \in Hilos, Hilo(h)
    PROVE  InvCpus'
<1>1. hilo \in [Hilos -> TipoHilo]
  BY DEF TypeOK
<1>2. CASE \E q \in Procs : SyscallInitProc(h, q)
  <2>1. PICK q \in Procs : SyscallInitProc(h, q)
    BY <1>2
  <2>2. hilo' = hilo /\ cpu' = cpu /\ Senales({}, {"NEW"})
    BY <2>1 DEF SyscallInitProc
  <2>3. sem'["CPUS_LIBRES"] = sem["CPUS_LIBRES"]
    BY <2>2, SenalesCpu
  <2>. QED BY <2>2, <2>3, CpusIguales DEF ConCpu
<1>3. CASE SyscallExit(h) \/ DumpRechazado(h) \/ IoFinaliza(h)
  <2>1. cpu' = cpu /\ sem' = sem
    BY <1>3 DEF SyscallExit, DumpRechazado, IoFinaliza
  <2>2. \A g \in Hilos : ConCpu(g)' => ConCpu(g) /\ hilo'[g].cpu = hilo[g].cpu
    BY <1>1, <1>3 DEF SyscallExit, DumpRechazado, IoFinaliza, Finalizar, Llega, En, ConCpu, TipoHilo
  <2>. QED BY <2>1, <2>2, CpusIguales
<1>4. CASE FinalizarIntenta(h)
  <2>1. cpu' = cpu /\ \E s \in {"INTENTAR_INICIAR_SUSP_READY", "INTENTAR_INICIAR_NEW"} : Senales({}, {s})
    BY <1>4 DEF FinalizarIntenta, IntentarIniciar
  <2>2. sem'["CPUS_LIBRES"] = sem["CPUS_LIBRES"]
    BY <2>1, SenalesCpu
  <2>3. \A g \in Hilos : ConCpu(g)' => ConCpu(g) /\ hilo'[g].cpu = hilo[g].cpu
    BY <1>1, <1>4 DEF FinalizarIntenta, Pasa, En, ConCpu, TipoHilo
  <2>. QED BY <2>1, <2>2, <2>3, CpusIguales
<1>5. CASE FinalizarTermina(h)
  <2>1. ~ConCpu(h)' /\ \A g \in Hilos \ {h} : hilo'[g] = hilo[g]
    BY <1>1, <1>5 DEF FinalizarTermina, HiloLibre, ConCpu
  <2>2. CASE hilo[h].motivo = "EXIT"
    BY <1>5, <2>1, <2>2, HiloSuelta DEF FinalizarTermina, LiberaAlTerminar, LiberarCpu, En, ConCpu
  <2>3. CASE hilo[h].motivo # "EXIT"
    <3>1. cpu' = cpu /\ sem' = sem
      BY <1>5, <2>3 DEF FinalizarTermina, LiberaAlTerminar, LiberarCpu
    <3>2. \A g \in Hilos : ConCpu(g)' => ConCpu(g) /\ hilo'[g].cpu = hilo[g].cpu
      BY <2>1 DEF ConCpu
    <3>. QED BY <3>1, <3>2, CpusIguales
  <2>. QED BY <2>2, <2>3
<1>6. CASE DumpLiberaCpu(h) \/ SyscallIo(h)
  <2>1. ConCpu(h) /\ LiberarCpu(h)
    BY <1>6 DEF DumpLiberaCpu, SyscallIo, Llega, En, ConCpu
  <2>2. ~ConCpu(h)' /\ \A g \in Hilos \ {h} : hilo'[g] = hilo[g]
    BY <1>1, <1>6 DEF DumpLiberaCpu, SyscallIo, Pasa, ConCpu, TipoHilo
  <2>. QED BY <2>1, <2>2, HiloSuelta
<1>7. CASE SyscallDump(h) \/ DumpAceptado(h) \/ IoBloquea(h)
             \/ \E n \in Nombres : IoBuscaDispositivo(h, n)
  <2>1. cpu' = cpu /\ sem' = sem
    BY <1>7 DEF SyscallDump, DumpAceptado, IoBloquea, IoBuscaDispositivo
  <2>2. \A g \in Hilos : ConCpu(g)' => ConCpu(g) /\ hilo'[g].cpu = hilo[g].cpu
    <3>1. CASE SyscallDump(h)
      BY <1>1, <3>1 DEF SyscallDump, Llega, En, ConCpu, TipoHilo
    <3>2. CASE DumpAceptado(h)
      BY <1>1, <3>2 DEF DumpAceptado, Pasa, En, ConCpu, TipoHilo
    <3>3. CASE IoBloquea(h)
      BY <1>1, <3>3 DEF IoBloquea, Pasa, En, HiloLibre, ConCpu, TipoHilo
    <3>4. ASSUME NEW n \in Nombres, IoBuscaDispositivo(h, n)
          PROVE  \A g \in Hilos : ConCpu(g)' => ConCpu(g) /\ hilo'[g].cpu = hilo[g].cpu
      BY <1>1, <3>4 DEF IoBuscaDispositivo, Pasa, En, HiloLibre, ConCpu, TipoHilo
    <3>. QED BY <1>7, <3>1, <3>2, <3>3, <3>4
  <2>. QED BY <2>1, <2>2, CpusIguales
<1>8. CASE DumpAReady(h)
  <2>1. cpu' = cpu /\ Senales({}, {"READY"})
    BY <1>8 DEF DumpAReady
  <2>2. sem'["CPUS_LIBRES"] = sem["CPUS_LIBRES"]
    BY <2>1, SenalesCpu
  <2>3. \A g \in Hilos : ConCpu(g)' => ConCpu(g) /\ hilo'[g].cpu = hilo[g].cpu
    BY <1>1, <1>8 DEF DumpAReady, HiloLibre, ConCpu
  <2>. QED BY <2>1, <2>2, <2>3, CpusIguales
<1>. QED BY <1>2, <1>3, <1>4, <1>5, <1>6, <1>7, <1>8 DEF Hilo

\* Threads that neither give nor take a CPU.
LEMMA RestoCpus ==
    ASSUME TypeOK, InvCpus,
           \/ Largo \/ MedianoFifo \/ Mediano
           \/ \E p \in Procs, k \in Veces : Timer(p, k)
           \/ \E i \in Ios : ConectarIo(i) \/ Io(i)
           \/ UsoTrasLiberar \/ UNCHANGED vars
    PROVE  InvCpus'
<1>1. hilo' = hilo /\ cpu' = cpu
  BY DEF Largo, LargoDespierta, LargoEsperaVacia, LargoAceptado, LargoRechazado, LargoAdmite,
         MedianoFifo, MedianoFifoDespierta, MedianoFifoAceptado, MedianoFifoRechazado,
         MedianoFifoSaca, MedianoFifoAdmite, MedianoFifoAvisa,
         Mediano, MedianoDespierta, MedianoEnvia, MedianoIntenta,
         Timer, TimerNace, TimerCompara, TimerBusca, TimerSaca, TimerSuspende,
         ConectarIo, Io, RegistrarIo, IoDespierta, IoBusca, IoTermina, IoSaca, IoTransiciona,
         UsoTrasLiberar, vars
<1>2. sem'["CPUS_LIBRES"] = sem["CPUS_LIBRES"]
  <2>1. CASE Largo
    <3>1. \/ sem' = sem
          \/ Senales({"NEW", "INTENTAR_INICIAR_NEW"}, {})
          \/ Senales({"SUSP_READY_SIN_PROCESOS"}, {})
          \/ Senales({}, {"NEW"})
          \/ Senales({}, {"READY", "INTENTAR_INICIAR_NEW"})
      BY <2>1 DEF Largo, LargoDespierta, LargoEsperaVacia, LargoAceptado, LargoRechazado, LargoAdmite
    <3>. QED BY <3>1, SenalesCpu
  <2>2. CASE MedianoFifo
    <3>1. \/ sem' = sem
          \/ Senales({"SUSP_READY", "INTENTAR_INICIAR_SUSP_READY"}, {})
          \/ Senales({}, {"SUSP_READY"})
          \/ Senales({}, {"READY", "INTENTAR_INICIAR_SUSP_READY"})
          \/ Senales({}, {"SUSP_READY_SIN_PROCESOS"})
          \/ Senales({}, {})
      BY <2>2 DEF MedianoFifo, MedianoFifoDespierta, MedianoFifoAceptado,
                  MedianoFifoRechazado, MedianoFifoSaca, MedianoFifoAdmite, MedianoFifoAvisa
    <3>. QED BY <3>1, SenalesCpu
  <2>3. CASE Mediano
    <3>1. \/ sem' = sem
          \/ Senales({"SUSP_BLOCKED"}, {})
          \/ Senales({}, {"INTENTAR_INICIAR_SUSP_READY"})
          \/ Senales({}, {"INTENTAR_INICIAR_NEW"})
      BY <2>3 DEF Mediano, MedianoDespierta, MedianoEnvia, MedianoIntenta, IntentarIniciar
    <3>. QED BY <3>1, SenalesCpu
  <2>4. CASE \E p \in Procs, k \in Veces : Timer(p, k)
    <3>1. sem' = sem \/ Senales({}, {"SUSP_BLOCKED"})
      BY <2>4 DEF Timer, TimerNace, TimerCompara, TimerBusca, TimerSaca, TimerSuspende
    <3>. QED BY <3>1, SenalesCpu
  <2>5. CASE \E i \in Ios : ConectarIo(i) \/ Io(i)
    <3>1. sem' = sem \/ Senales({}, {"READY"}) \/ Senales({}, {"SUSP_READY"})
      BY <2>5 DEF ConectarIo, Io, RegistrarIo, IoDespierta, IoBusca, IoTermina, IoSaca, IoTransiciona
    <3>. QED BY <3>1, SenalesCpu
  <2>6. CASE UsoTrasLiberar \/ UNCHANGED vars
    BY <2>6 DEF UsoTrasLiberar, vars
  <2>. QED BY <2>1, <2>2, <2>3, <2>4, <2>5, <2>6
<1>. QED BY <1>1, <1>2, CpusIguales DEF ConCpu

LEMMA ConectarCpuCpus ==
    ASSUME ConstantesAssumption, TypeOK, ConProceso, InvCpus, NEW c \in Cpus, ConectarCpu(c)
    PROVE  InvCpus'
<1>1. FichasDeCpu'
  BY CpuSeLibera DEF ConectarCpu, InvCpus
<1>2. hilo' = hilo /\ cpu[c] = "ausente" /\ cpu' = [cpu EXCEPT ![c] = "libre"]
  BY DEF ConectarCpu
<1>3. \A d \in Cpus : cpu[d] = "ocupada" => cpu'[d] = "ocupada"
  BY <1>2 DEF TypeOK
<1>4. UnProcesoPorCpu'
  BY <1>2, <1>3 DEF InvCpus, UnProcesoPorCpu, ConCpu, ConProceso
<1>. QED BY <1>1, <1>4 DEF InvCpus

LEMMA InitInvCpus ==
    ASSUME Init
    PROVE  InvCpus
<1>1. Libres = {}
  BY DEF Init, Libres
<1>2. sem["CPUS_LIBRES"] = 0
  BY DEF Init, Semaforos, Uno
<1>3. FichasDeCpu
  BY <1>1, <1>2, FS_EmptySet DEF FichasDeCpu, Libres
<1>4. UnProcesoPorCpu
  BY DEF Init, UnProcesoPorCpu, ConCpu, HiloLibre
<1>. QED BY <1>3, <1>4 DEF InvCpus

LEMMA NextInvCpus ==
    ASSUME ConstantesAssumption, IInv, InvCpus, [Next]_vars
    PROVE  InvCpus'
<1>. USE DEF IInv
<1>1. CASE Corto
  BY <1>1, DespacharCpus DEF Corto
<1>2. CASE \E h \in Hilos : Hilo(h)
  BY <1>2, HiloCpus
<1>3. CASE \E c \in Cpus : ConectarCpu(c)
  BY <1>3, ConectarCpuCpus
<1>4. CASE \/ Largo \/ MedianoFifo \/ Mediano
           \/ \E p \in Procs, k \in Veces : Timer(p, k)
           \/ \E i \in Ios : ConectarIo(i) \/ Io(i)
           \/ UsoTrasLiberar \/ UNCHANGED vars
  BY <1>4, RestoCpus
<1>. QED BY <1>1, <1>2, <1>3, <1>4 DEF Next

THEOREM InvarianteDeCpus == Spec => []InvCpus
<1>1. Init => InvCpus
  BY InitInvCpus
<1>2. IInv /\ InvCpus /\ [Next]_vars => InvCpus'
  BY NextInvCpus, ConstantesAssumption
<1>. QED BY <1>1, <1>2, InvarianteInductivo, PTL DEF Spec

\* CPUS_LIBRES counts the free CPUs exactly, so that the short term planner it
\* lets through always finds one.
THEOREM SemaforoCuentaCpus == Spec => []FichasDeCpu
<1>1. InvCpus => FichasDeCpu
  BY DEF InvCpus
<1>. QED BY <1>1, InvarianteDeCpus, PTL

\* No CPU is ever given to two execution threads, whatever the timers, the
\* devices and the syscalls do meanwhile, and however often a CPU is released.
THEOREM CpuExclusiva == Spec => []UnProcesoPorCpu
<1>1. InvCpus => UnProcesoPorCpu
  BY DEF InvCpus
<1>. QED BY <1>1, InvarianteDeCpus, PTL

-----------------------------------------------------------------------------
(* No process is lost: NingunoPerdido.  A planner that peeked at SUSP_READY    *)
(* must later take out the process it peeked at, so that the invariant also   *)
(* keeps that process at the head of the queue.                              *)

\* q is in the sequence s.
Figura(q, s) == \E i \in DOMAIN s : s[i] = q

\* An insertion takes nobody out and does not change the head.
LEMMA AgregarFigura ==
    ASSUME NEW s \in Seq(Procs), NEW p \in Procs
    PROVE  /\ Figura(p, Append(s, p))
           /\ \A q : Figura(q, s) => Figura(q, Append(s, p))
           /\ s # <<>> => Append(s, p) # <<>> /\ Head(Append(s, p)) = Head(s)
<1>1. /\ Append(s, p) \in Seq(Procs)
      /\ Len(Append(s, p)) = Len(s) + 1
      /\ \A i \in 1 .. Len(s) : Append(s, p)[i] = s[i]
      /\ Append(s, p)[Len(s) + 1] = p
  BY AppendProperties
<1>2. /\ DOMAIN s = 1 .. Len(s) /\ Len(s) \in Nat
      /\ DOMAIN Append(s, p) = 1 .. Len(s) + 1
  BY <1>1, LenProperties
<1>3. Len(s) + 1 \in DOMAIN Append(s, p)
  BY <1>2
<1>4. \A i \in DOMAIN s : i \in DOMAIN Append(s, p) /\ Append(s, p)[i] = s[i]
  BY <1>1, <1>2
<1>5. ASSUME s # <<>>
      PROVE  Append(s, p) # <<>> /\ Head(Append(s, p)) = Head(s)
  <2>1. Len(s) > 0 /\ Head(s) = s[1]
    BY <1>5, EmptySeq, HeadTailProperties, LenProperties
  <2>2. Append(s, p) # <<>>
    BY <1>1, <1>2, EmptySeq
  <2>3. Head(Append(s, p)) = Append(s, p)[1]
    BY <1>1, <2>2, HeadTailProperties
  <2>. QED BY <1>1, <1>2, <2>1, <2>2, <2>3
<1>. QED BY <1>1, <1>3, <1>4, <1>5 DEF Figura

\* A removal takes nobody else out.
LEMMA QuitarFigura ==
    ASSUME NEW s \in Seq(Procs), NEW p, NEW q, q # p, Figura(q, s)
    PROVE  Figura(q, Quitar(s, p))
<1>1. CASE BuscarEnLista(s, p) = {}
  BY <1>1 DEF Quitar
<1>2. CASE BuscarEnLista(s, p) # {}
  <2> DEFINE k == CHOOSE i \in BuscarEnLista(s, p) : TRUE
             a == SubSeq(s, 1, k - 1)
             b == SubSeq(s, k + 1, Len(s))
  <2>1. k \in 1 .. Len(s) /\ s[k] = p
    BY <1>2, LenProperties DEF BuscarEnLista
  <2>2. Quitar(s, p) = a \o b
    BY <1>2 DEF Quitar, RemoveAt
  <2> HIDE DEF k
  <2>3. PICK i \in 1 .. Len(s) : s[i] = q
    BY LenProperties DEF Figura
  <2>4. Len(s) \in Nat /\ k - 1 \in Nat /\ k + 1 \in Nat
    BY <2>1, LenProperties
  <2>5. /\ a \in Seq(Procs) /\ Len(a) = k - 1
        /\ \A j \in 1 .. k - 1 : a[j] = s[j]
    BY <2>1, <2>4, SubSeqProperties
  <2>6. /\ b \in Seq(Procs) /\ Len(b) = Len(s) - k
        /\ \A j \in 1 .. Len(s) - k : b[j] = s[j + k]
    <3>1. b \in Seq(Procs) /\ Len(b) = IF k + 1 <= Len(s) THEN Len(s) - (k + 1) + 1 ELSE 0
      BY <2>1, <2>4, SubSeqProperties
    <3>2. Len(b) = Len(s) - k
      BY <2>1, <2>4, <3>1
    <3>3. \A j \in 1 .. Len(s) - k : b[j] = s[k + 1 + j - 1]
      BY <2>1, <2>4, SubSeqProperties
    <3>4. \A j \in 1 .. Len(s) - k : k + 1 + j - 1 = j + k
      BY <2>1, <2>4
    <3>. QED BY <3>1, <3>2, <3>3, <3>4
  <2> HIDE DEF a, b
  <2>7. /\ DOMAIN (a \o b) = 1 .. Len(s) - 1
        /\ \A j \in 1 .. Len(s) - 1 :
             (a \o b)[j] = IF j <= k - 1 THEN a[j] ELSE b[j - (k - 1)]
    <3>1. /\ a \o b \in Seq(Procs) /\ Len(a \o b) = Len(a) + Len(b)
          /\ \A j \in 1 .. Len(a) + Len(b) :
               (a \o b)[j] = IF j <= Len(a) THEN a[j] ELSE b[j - Len(a)]
      BY <2>5, <2>6, ConcatProperties
    <3>2. Len(a) + Len(b) = Len(s) - 1
      BY <2>1, <2>4, <2>5, <2>6
    <3>. QED BY <3>1, <3>2, <2>5, LenProperties
  <2>8. CASE i < k
    <3>1. i \in 1 .. Len(s) - 1 /\ i \in 1 .. k - 1 /\ i <= k - 1
      BY <2>1, <2>3, <2>4, <2>8
    <3>2. (a \o b)[i] = q
      BY <2>3, <2>5, <2>7, <3>1
    <3>. QED BY <2>2, <2>7, <3>1, <3>2 DEF Figura
  <2>9. CASE i > k
    <3> DEFINE j == i - 1
    <3>1. /\ j \in 1 .. Len(s) - 1 /\ ~(j <= k - 1)
          /\ j - (k - 1) = i - k
          /\ i - k \in 1 .. Len(s) - k /\ (i - k) + k = i
      BY <2>1, <2>3, <2>4, <2>9
    <3> HIDE DEF j
    <3>2. (a \o b)[j] = b[i - k]
      BY <2>7, <3>1
    <3>3. b[i - k] = q
      BY <2>3, <2>6, <3>1
    <3>. QED BY <2>2, <2>7, <3>1, <3>2, <3>3 DEF Figura
  <2>10. i # k
    BY <2>1, <2>3
  <2>. QED BY <2>1, <2>3, <2>8, <2>9, <2>10
<1>. QED BY <1>1, <1>2

\* Who is in a queue is its first process or stays when that one leaves.
LEMMA TailFigura ==
    ASSUME NEW s \in Seq(Procs), s # <<>>, NEW q, Figura(q, s), q # Head(s)
    PROVE  Figura(q, Tail(s))
<1>1. PICK i \in 1 .. Len(s) : s[i] = q
  BY LenProperties DEF Figura
<1>2. /\ Head(s) = s[1]
      /\ Tail(s) \in Seq(Procs) /\ Len(Tail(s)) = Len(s) - 1
      /\ \A j \in 1 .. Len(Tail(s)) : Tail(s)[j] = s[j + 1]
  BY HeadTailProperties
<1>3. i # 1
  BY <1>1, <1>2
<1>4. Len(s) \in Nat /\ DOMAIN Tail(s) = 1 .. Len(Tail(s))
  BY <1>2, LenProperties
<1>5. i - 1 \in 1 .. Len(Tail(s)) /\ (i - 1) + 1 = i
  BY <1>1, <1>2, <1>3, <1>4
<1>. QED BY <1>1, <1>2, <1>4, <1>5 DEF Figura

-----------------------------------------------------------------------------
(* The same of the queues.  EnAlguna: the process is in some state queue.      *)

EnAlguna(q) == \E e \in Estados : Esta(q, e)

LEMMA EstaFigura ==
    ASSUME NEW q, NEW e
    PROVE  Esta(q, e) <=> Figura(q, cola[e])
BY DEF Esta, Figura

LEMMA ColaAgrega ==
    ASSUME cola \in Colas, NEW e \in Estados, NEW p \in Procs,
           cola' = [cola EXCEPT ![e] = Append(@, p)]
    PROVE  /\ EnAlguna(p)'
           /\ \A q : EnAlguna(q) => EnAlguna(q)'
           /\ \A f \in Estados : cola[f] # <<>> => cola'[f] # <<>> /\ Head(cola'[f]) = Head(cola[f])
<1>1. cola[e] \in Seq(Procs) /\ cola'[e] = Append(cola[e], p)
  BY DEF Colas
<1>2. \A f \in Estados \ {e} : cola'[f] = cola[f]
  BY DEF Colas
<1>3. Figura(p, cola'[e])
  BY <1>1, AgregarFigura
<1>4. \A q : \A f \in Estados : Figura(q, cola[f]) => Figura(q, cola'[f])
  BY <1>1, <1>2, AgregarFigura
<1>5. \A f \in Estados : cola[f] # <<>> => cola'[f] # <<>> /\ Head(cola'[f]) = Head(cola[f])
  BY <1>1, <1>2, AgregarFigura
<1>. QED BY <1>3, <1>4, <1>5 DEF EnAlguna, Esta, Figura

LEMMA ColaSaca ==
    ASSUME cola \in Colas, NEW e \in Estados, NEW p, cola' = Sacar(p, e)
    PROVE  \A q : q # p /\ EnAlguna(q) => EnAlguna(q)'
<1>1. cola[e] \in Seq(Procs) /\ cola'[e] = Quitar(cola[e], p)
  BY DEF Colas, Sacar
<1>2. \A f \in Estados \ {e} : cola'[f] = cola[f]
  BY DEF Colas, Sacar
<1>3. \A q : \A f \in Estados : q # p /\ Figura(q, cola[f]) => Figura(q, cola'[f])
  BY <1>1, <1>2, QuitarFigura
<1>. QED BY <1>3 DEF EnAlguna, Esta, Figura

LEMMA ColaMueve ==
    ASSUME cola \in Colas, NEW e \in Estados, NEW f \in Estados, e # f, NEW p \in Procs,
           cola' = Mover(p, e, f)
    PROVE  \A q : EnAlguna(q) \/ q = p => EnAlguna(q)'
<1>1. /\ cola[e] \in Seq(Procs) /\ cola'[e] = Quitar(cola[e], p)
      /\ cola[f] \in Seq(Procs) /\ cola'[f] = Append(cola[f], p)
  BY DEF Colas, Mover
<1>2. \A g \in Estados \ {e, f} : cola'[g] = cola[g]
  BY DEF Colas, Mover
<1>3. Figura(p, cola'[f])
  BY <1>1, AgregarFigura
<1>4. \A q : \A g \in Estados : q # p /\ Figura(q, cola[g]) => Figura(q, cola'[g])
  BY <1>1, <1>2, AgregarFigura, QuitarFigura
<1>5. EnAlguna(p)'
  BY <1>3 DEF EnAlguna, Esta, Figura
<1>6. \A q : q # p /\ EnAlguna(q) => EnAlguna(q)'
  BY <1>4 DEF EnAlguna, Esta, Figura
<1>. QED BY <1>5, <1>6

LEMMA ColaSacaPrimero ==
    ASSUME cola \in Colas, NEW e \in Estados, cola[e] # <<>>,
           cola' = [cola EXCEPT ![e] = Tail(@)]
    PROVE  \A q : q # Head(cola[e]) /\ EnAlguna(q) => EnAlguna(q)'
<1>1. cola[e] \in Seq(Procs) /\ cola'[e] = Tail(cola[e])
  BY DEF Colas
<1>2. \A f \in Estados \ {e} : cola'[f] = cola[f]
  BY DEF Colas
<1>3. \A q : \A f \in Estados : q # Head(cola[e]) /\ Figura(q, cola[f]) => Figura(q, cola'[f])
  BY <1>1, <1>2, TailFigura
<1>. QED BY <1>3 DEF EnAlguna, Esta, Figura

LEMMA ColaMuevePrimero ==
    ASSUME cola \in Colas, NEW e \in Estados, NEW f \in Estados, e # f, cola[e] # <<>>,
           cola' = MoverPrimero(e, f)
    PROVE  \A q : EnAlguna(q) => EnAlguna(q)'
<1>1. /\ cola[e] \in Seq(Procs) /\ cola'[e] = Tail(cola[e])
      /\ cola[f] \in Seq(Procs) /\ cola'[f] = Append(cola[f], Head(cola[e]))
  BY DEF Colas, MoverPrimero
<1>2. \A g \in Estados \ {e, f} : cola'[g] = cola[g]
  BY DEF Colas, MoverPrimero
<1>3. Head(cola[e]) \in Procs
  BY <1>1, HeadTailProperties
<1>4. Figura(Head(cola[e]), cola'[f])
  BY <1>1, <1>3, AgregarFigura
<1>5. \A q : \A g \in Estados : q # Head(cola[e]) /\ Figura(q, cola[g]) => Figura(q, cola'[g])
  BY <1>1, <1>2, <1>3, AgregarFigura, TailFigura
<1>6. \A q : q = Head(cola[e]) => EnAlguna(q)'
  BY <1>4 DEF EnAlguna, Esta, Figura
<1>7. \A q : q # Head(cola[e]) /\ EnAlguna(q) => EnAlguna(q)'
  BY <1>5 DEF EnAlguna, Esta, Figura
<1>. QED BY <1>6, <1>7

-----------------------------------------------------------------------------
(* Thread by thread: a process in a queue or in the hands of a thread goes on  *)
(* being so, unless it is freed.                                              *)

Salvo(q) == EnManos(q) \/ EnAlguna(q)

\* The process medianoFifo asked the memory module about is the one it will
\* take out of SUSP_READY, and it keeps none between two rounds.
CabezaRetenida ==
    /\ medianoFifo.pc \in {"consulta", "saca"} =>
         /\ cola["SUSP_READY"] # <<>>
         /\ medianoFifo.proc = Head(cola["SUSP_READY"])
    /\ medianoFifo.pc \in {"duerme", "avisa"} => medianoFifo.proc = Nadie

LEMMA ColasVacias ==
    ASSUME IInv
    PROVE  /\ cola \in Colas
           /\ largo # "duerme" => cola["NEW"] # <<>>
           /\ sem["READY"] > 0 => cola["READY"] # <<>>
           /\ sem["SUSP_READY"] > 0 => cola["SUSP_READY"] # <<>>
<1>1. \A e \in Estados : Len(cola[e]) > 0 => cola[e] # <<>>
  <2>1. Len(<<>>) = 0
    BY EmptySeq
  <2>. QED BY <2>1
<1>2. {"NEW", "READY", "SUSP_READY"} \subseteq Estados
  BY DEF Estados
<1>. QED BY <1>1, <1>2, Cabezas DEF IInv, TypeOK, Colas

LEMMA LargoSalvo ==
    ASSUME IInv, Largo \/ Mediano \/ Corto, NEW q \in Procs, Salvo(q)
    PROVE  Salvo(q)'
<1>. USE DEF planif, disposi
<1>e. {"NEW", "READY", "EXEC"} \subseteq Estados
  BY DEF Estados
<1>1. EnManos(q) => EnManos(q)'
  <2>1. CASE Largo \/ Mediano
    <3>1. UNCHANGED <<medianoFifo, hilo, timer, io>>
      BY <2>1 DEF Largo, LargoDespierta, LargoEsperaVacia, LargoAceptado, LargoRechazado,
                  LargoAdmite, Mediano, MedianoDespierta, MedianoEnvia, MedianoIntenta
    <3>. QED BY <3>1 DEF EnManos
  <2>2. CASE Corto
    <3>1. PICK c \in Cpus : Despachar(c)
      BY <2>2 DEF Corto
    <3>2. UNCHANGED <<medianoFifo, timer, io>>
      BY <3>1 DEF Despachar
    <3>3. \A h \in Hilos : hilo[h].pc = "dumpListo" => hilo'[h] = hilo[h]
      <4>1. hilo \in [Hilos -> TipoHilo]
        BY DEF IInv, TypeOK
      <4>2. DEFINE l == CHOOSE h \in Hilos : En(h, "libre")
      <4>3. l \in Hilos /\ hilo[l].pc = "libre"
        BY <3>1 DEF Despachar, En
      <4>4. \A h \in Hilos \ {l} : hilo'[h] = hilo[h]
        BY <3>1, <4>1 DEF Despachar
      <4>. QED BY <4>3, <4>4
    <3>. QED BY <3>2, <3>3 DEF EnManos
  <2>. QED BY <2>1, <2>2
<1>2. EnAlguna(q) => EnAlguna(q)'
  <2>1. CASE cola' = cola
    BY <2>1 DEF EnAlguna, Esta
  <2>2. CASE LargoAdmite
    BY <2>2, <1>e, ColasVacias, ColaMuevePrimero DEF LargoAdmite
  <2>3. CASE Corto
    <3>1. PICK c \in Cpus : Despachar(c)
      BY <2>3 DEF Corto
    <3>2. sem["READY"] > 0
      BY <3>1 DEF Despachar, Senales
    <3>. QED BY <3>1, <3>2, <1>e, ColasVacias, ColaMuevePrimero DEF Despachar
  <2>4. LargoAdmite \/ Corto \/ cola' = cola
    BY DEF Largo, LargoDespierta, LargoEsperaVacia, LargoAceptado, LargoRechazado,
           Mediano, MedianoDespierta, MedianoEnvia, MedianoIntenta
  <2>. QED BY <2>1, <2>2, <2>3, <2>4
<1>. QED BY <1>1, <1>2 DEF Salvo

LEMMA MedianoFifoSalvo ==
    ASSUME IInv, CabezaRetenida, MedianoFifo, NEW q \in Procs, Salvo(q)
    PROVE  Salvo(q)'
<1>. USE DEF planif, disposi
<1>e. {"READY", "SUSP_READY"} \subseteq Estados
  BY DEF Estados
<1>1. UNCHANGED <<hilo, timer, io>>
  BY DEF MedianoFifo, MedianoFifoDespierta, MedianoFifoAceptado, MedianoFifoRechazado,
         MedianoFifoSaca, MedianoFifoAdmite, MedianoFifoAvisa
<1>2. EnManos(q) /\ medianoFifo.proc # q => EnManos(q)'
  BY <1>1 DEF EnManos
<1>3. medianoFifo'.proc = q => EnManos(q)'
  BY DEF EnManos
<1>4. ASSUME medianoFifo.pc \in {"consulta", "saca"}, medianoFifo.proc = q
      PROVE  EnAlguna(q)
  <2>1. cola["SUSP_READY"] \in Seq(Procs) /\ cola["SUSP_READY"] # <<>>
    BY <1>e, <1>4, ColasVacias DEF CabezaRetenida, Colas
  <2>2. Head(cola["SUSP_READY"]) = cola["SUSP_READY"][1] /\ 1 \in DOMAIN cola["SUSP_READY"]
    BY <2>1, HeadTailProperties, LenProperties, EmptySeq
  <2>. QED BY <1>e, <1>4, <2>2 DEF CabezaRetenida, EnAlguna, Esta
<1>5. medianoFifo.pc \in {"duerme", "avisa"} => medianoFifo.proc # q
  BY ConstantesAssumption DEF CabezaRetenida, ConstantesAssumption
<1>6. cola' = cola => (EnAlguna(q) => EnAlguna(q)')
  BY DEF EnAlguna, Esta
<1>7. CASE MedianoFifoDespierta \/ MedianoFifoRechazado \/ MedianoFifoAvisa
  <2>1. cola' = cola /\ medianoFifo.pc \in {"duerme", "consulta", "avisa"}
    BY <1>7 DEF MedianoFifoDespierta, MedianoFifoRechazado, MedianoFifoAvisa
  <2>. QED BY <2>1, <1>2, <1>4, <1>5, <1>6 DEF Salvo
<1>8. CASE MedianoFifoAceptado
  <2>1. cola' = cola /\ medianoFifo'.proc = medianoFifo.proc
    BY <1>8 DEF MedianoFifoAceptado, IInv, TypeOK
  <2>. QED BY <2>1, <1>2, <1>3, <1>6 DEF Salvo
<1>9. CASE MedianoFifoSaca
  <2>1. /\ medianoFifo.proc = Head(cola["SUSP_READY"]) /\ cola["SUSP_READY"] # <<>>
        /\ medianoFifo' = [pc |-> "admite", proc |-> Head(cola["SUSP_READY"])]
        /\ cola' = [cola EXCEPT !["SUSP_READY"] = Tail(@)]
    BY <1>9 DEF MedianoFifoSaca, CabezaRetenida
  <2>2. CASE q = Head(cola["SUSP_READY"])
    BY <1>3, <2>1, <2>2 DEF Salvo
  <2>3. CASE q # Head(cola["SUSP_READY"])
    BY <1>2, <1>e, <2>1, <2>3, ColasVacias, ColaSacaPrimero DEF Salvo
  <2>. QED BY <2>2, <2>3
<1>10. CASE MedianoFifoAdmite
  <2>1. medianoFifo.proc \in Procs
    BY <1>10 DEF MedianoFifoAdmite, IInv, ConProceso
  <2>2. cola' = [cola EXCEPT !["READY"] = Append(@, medianoFifo.proc)]
    BY <1>10 DEF MedianoFifoAdmite
  <2>3. ASSUME NEW p \in Procs, p = medianoFifo.proc
        PROVE  EnAlguna(p)' /\ (EnAlguna(q) => EnAlguna(q)')
    BY <1>e, <2>2, <2>3, ColasVacias, ColaAgrega
  <2>. QED BY <1>2, <2>1, <2>3 DEF Salvo
<1>. QED BY <1>7, <1>8, <1>9, <1>10 DEF MedianoFifo

\* The threads of one process: what the hands hold when one of them goes on.
LEMMA ManosDeHilo ==
    ASSUME TypeOK, NEW h \in Hilos, NEW q, hilo[h].pc # "dumpListo",
           UNCHANGED <<medianoFifo, io>>, timer'[q] = timer[q],
           \A g \in Hilos \ {h} : hilo'[g] = hilo[g],
           EnManos(q)
    PROVE  EnManos(q)'
BY DEF EnManos

LEMMA HiloSalvo ==
    ASSUME IInv, NEW h \in Hilos, Hilo(h), NEW q \in Procs, Salvo(q), vivo'[q] = "vivo"
    PROVE  Salvo(q)'
<1>. USE DEF planif, disposi, pcbs, En, Pasa
<1>e. {"NEW", "READY", "EXEC", "BLOCKED", "EXIT_ESTADO"} \subseteq Estados
  BY DEF Estados
<1>t. /\ TypeOK /\ cola \in Colas /\ hilo \in [Hilos -> TipoHilo]
      /\ hilo[h].pc # "libre" => hilo[h].proc \in Procs
  BY DEF IInv, TypeOK, Colas, ConProceso
<1>c. cola' = cola => (EnAlguna(q) => EnAlguna(q)')
  BY DEF EnAlguna, Esta
<1>1. CASE \E r \in Procs : SyscallInitProc(h, r)
  <2>1. PICK r \in Procs : cola' = [cola EXCEPT !["NEW"] = Append(@, r)]
    BY <1>1 DEF SyscallInitProc
  <2>2. EnAlguna(q) => EnAlguna(q)'
    BY <1>e, <1>t, <2>1, ColaAgrega
  <2>3. UNCHANGED <<medianoFifo, hilo, timer, io>>
    BY <1>1 DEF SyscallInitProc
  <2>. QED BY <2>2, <2>3 DEF Salvo, EnManos
<1>2. CASE SyscallExit(h) \/ DumpRechazado(h) \/ IoFinaliza(h)
  <2>1. PICK e \in Estados \ {"EXIT_ESTADO"} : cola' = Mover(hilo[h].proc, e, "EXIT_ESTADO")
    BY <1>2, <1>e DEF SyscallExit, DumpRechazado, IoFinaliza, Finalizar
  <2>2. hilo[h].proc \in Procs /\ hilo[h].pc # "dumpListo"
    BY <1>2, <1>t DEF SyscallExit, DumpRechazado, IoFinaliza, Llega
  <2>3. EnAlguna(q) => EnAlguna(q)'
    BY <1>e, <1>t, <2>1, <2>2, ColaMueve
  <2>4. UNCHANGED <<medianoFifo, timer, io>> /\ \A g \in Hilos \ {h} : hilo'[g] = hilo[g]
    BY <1>2, <1>t DEF SyscallExit, DumpRechazado, IoFinaliza, Finalizar
  <2>. QED BY <1>t, <2>2, <2>3, <2>4, ManosDeHilo DEF Salvo
<1>3. CASE \/ FinalizarIntenta(h) \/ DumpLiberaCpu(h) \/ SyscallIo(h)
           \/ \E n \in Nombres : IoBuscaDispositivo(h, n)
  <2>1. cola' = cola /\ hilo[h].pc # "dumpListo"
    BY <1>3 DEF FinalizarIntenta, DumpLiberaCpu, SyscallIo, IoBuscaDispositivo, Llega
  <2>2. UNCHANGED <<medianoFifo, timer, io>> /\ \A g \in Hilos \ {h} : hilo'[g] = hilo[g]
    BY <1>3, <1>t DEF FinalizarIntenta, DumpLiberaCpu, SyscallIo, IoBuscaDispositivo
  <2>. QED BY <1>t, <1>c, <2>1, <2>2, ManosDeHilo DEF Salvo
<1>4. CASE FinalizarTermina(h)
  <2>1. hilo[h].proc \in Procs /\ hilo[h].pc # "dumpListo"
    BY <1>4, <1>t DEF FinalizarTermina
  <2>2. q # hilo[h].proc
    BY <1>4, <1>t, <2>1 DEF FinalizarTermina, TypeOK
  <2>3. cola' = Sacar(hilo[h].proc, "EXIT_ESTADO")
    BY <1>4 DEF FinalizarTermina
  <2>4. EnAlguna(q) => EnAlguna(q)'
    BY <1>e, <1>t, <2>2, <2>3, ColaSaca
  <2>5. UNCHANGED <<medianoFifo, timer, io>> /\ \A g \in Hilos \ {h} : hilo'[g] = hilo[g]
    BY <1>4, <1>t DEF FinalizarTermina
  <2>. QED BY <1>t, <2>1, <2>4, <2>5, ManosDeHilo DEF Salvo
<1>5. CASE SyscallDump(h)
  <2>1. hilo[h].proc \in Procs /\ hilo[h].pc # "dumpListo"
    BY <1>5, <1>t DEF SyscallDump, Llega
  <2>2. cola' = Mover(hilo[h].proc, "EXEC", "BLOCKED")
    BY <1>5 DEF SyscallDump
  <2>3. EnAlguna(q) => EnAlguna(q)'
    BY <1>e, <1>t, <2>1, <2>2, ColaMueve
  <2>4. UNCHANGED <<medianoFifo, timer, io>> /\ \A g \in Hilos \ {h} : hilo'[g] = hilo[g]
    BY <1>5, <1>t DEF SyscallDump
  <2>. QED BY <1>t, <2>1, <2>3, <2>4, ManosDeHilo DEF Salvo
<1>6. CASE DumpAceptado(h)
  <2>1. hilo[h].proc \in Procs /\ hilo[h].pc # "dumpListo"
    BY <1>6, <1>t DEF DumpAceptado
  <2>2. cola' = Sacar(hilo[h].proc, "BLOCKED")
    BY <1>6 DEF DumpAceptado
  <2>3. hilo'[h].proc = hilo[h].proc /\ hilo'[h].pc = "dumpListo"
    BY <1>6, <1>t DEF DumpAceptado, TipoHilo
  <2>4. q # hilo[h].proc => (EnAlguna(q) => EnAlguna(q)')
    BY <1>e, <1>t, <2>2, ColaSaca
  <2>5. UNCHANGED <<medianoFifo, timer, io>> /\ \A g \in Hilos \ {h} : hilo'[g] = hilo[g]
    BY <1>6, <1>t DEF DumpAceptado
  <2>6. q = hilo[h].proc => EnManos(q)'
    BY <2>3 DEF EnManos
  <2>. QED BY <1>t, <2>1, <2>4, <2>5, <2>6, ManosDeHilo DEF Salvo
<1>7. CASE DumpAReady(h)
  <2>1. hilo[h].proc \in Procs
    BY <1>7, <1>t DEF DumpAReady
  <2>2. cola' = [cola EXCEPT !["READY"] = Append(@, hilo[h].proc)]
    BY <1>7 DEF DumpAReady
  <2>3. ASSUME NEW p \in Procs, p = hilo[h].proc
        PROVE  EnAlguna(p)' /\ (EnAlguna(q) => EnAlguna(q)')
    BY <1>e, <1>t, <2>2, <2>3, ColaAgrega
  <2>4. UNCHANGED <<medianoFifo, timer, io>> /\ \A g \in Hilos \ {h} : hilo'[g] = hilo[g]
    BY <1>7, <1>t DEF DumpAReady
  <2>5. q # hilo[h].proc /\ EnManos(q) => EnManos(q)'
    BY <2>4 DEF EnManos
  <2>. QED BY <2>1, <2>3, <2>5 DEF Salvo
<1>8. CASE IoBloquea(h)
  <2>1. hilo[h].proc \in Procs /\ hilo[h].pc # "dumpListo"
    BY <1>8, <1>t DEF IoBloquea
  <2>2. cola' = Mover(hilo[h].proc, "EXEC", "BLOCKED")
    BY <1>8 DEF IoBloquea
  <2>3. EnAlguna(q) \/ q = hilo[h].proc => EnAlguna(q)'
    BY <1>e, <1>t, <2>1, <2>2, ColaMueve
  <2>4. q # hilo[h].proc => timer'[q] = timer[q]
    BY <1>8, <1>t DEF IoBloquea, TypeOK
  <2>5. UNCHANGED <<medianoFifo, io>> /\ \A g \in Hilos \ {h} : hilo'[g] = hilo[g]
    BY <1>8, <1>t DEF IoBloquea
  <2>. QED BY <1>t, <2>1, <2>3, <2>4, <2>5, ManosDeHilo DEF Salvo
<1>. QED BY <1>1, <1>2, <1>3, <1>4, <1>5, <1>6, <1>7, <1>8 DEF Hilo

LEMMA TimerSalvo ==
    ASSUME IInv, NEW p \in Procs, NEW k \in Veces, Timer(p, k), NEW q \in Procs, Salvo(q)
    PROVE  Salvo(q)'
<1>. USE DEF disposi
<1>e. {"BLOCKED", "SUSP_BLOCKED"} \subseteq Estados
  BY DEF Estados
<1>t. /\ cola \in Colas
      /\ timer \in [Procs -> [Veces -> TipoTimer]]
  BY DEF IInv, TypeOK, Colas
<1>1. UNCHANGED <<medianoFifo, hilo, io>>
  BY DEF Timer, TimerNace, TimerCompara, TimerBusca, TimerSaca, TimerSuspende, planif
<1>2. CASE TimerNace(p, k) \/ TimerCompara(p, k) \/ TimerBusca(p, k)
  <2>1. cola' = cola /\ timer[p][k].pc # "sacado"
    BY <1>2 DEF TimerNace, TimerCompara, TimerBusca
  <2>2. \A r \in Procs : \A l \in Veces : <<r, l>> # <<p, k>> => timer'[r][l] = timer[r][l]
    BY <1>2, <1>t DEF TimerNace, TimerCompara, TimerBusca, TimerPasa
  <2>3. EnManos(q) => EnManos(q)'
    BY <1>1, <2>1, <2>2 DEF EnManos
  <2>. QED BY <2>1, <2>3 DEF Salvo, EnAlguna, Esta
<1>3. CASE TimerSaca(p, k)
  <2>1. cola' = Sacar(p, "BLOCKED") /\ timer[p][k].pc # "sacado"
    BY <1>3 DEF TimerSaca
  <2>2. \A r \in Procs : \A l \in Veces : <<r, l>> # <<p, k>> => timer'[r][l] = timer[r][l]
    BY <1>3, <1>t DEF TimerSaca, TimerPasa
  <2>3. timer'[p][k].pc = "sacado"
    BY <1>3, <1>t DEF TimerSaca, TimerPasa, TipoTimer
  <2>4. EnManos(q) => EnManos(q)'
    BY <1>1, <2>1, <2>2 DEF EnManos
  <2>5. q = p => EnManos(q)'
    BY <2>3 DEF EnManos
  <2>6. q # p /\ EnAlguna(q) => EnAlguna(q)'
    BY <1>e, <1>t, <2>1, ColaSaca
  <2>. QED BY <2>4, <2>5, <2>6 DEF Salvo
<1>4. CASE TimerSuspende(p, k)
  <2>1. cola' = [cola EXCEPT !["SUSP_BLOCKED"] = Append(@, p)]
    BY <1>4 DEF TimerSuspende
  <2>2. EnAlguna(p)' /\ (EnAlguna(q) => EnAlguna(q)')
    BY <1>e, <1>t, <2>1, ColaAgrega
  <2>3. q # p => timer'[q] = timer[q]
    BY <1>4, <1>t DEF TimerSuspende, TimerPasa
  <2>4. q # p /\ EnManos(q) => EnManos(q)'
    BY <1>1, <2>3 DEF EnManos
  <2>. QED BY <2>2, <2>4 DEF Salvo
<1>. QED BY <1>2, <1>3, <1>4 DEF Timer

LEMMA IoSalvo ==
    ASSUME IInv, NEW i \in Ios, ConectarIo(i) \/ Io(i), NEW q \in Procs, Salvo(q)
    PROVE  Salvo(q)'
<1>. USE DEF planif
<1>e. {"BLOCKED", "SUSP_BLOCKED", "READY", "SUSP_READY"} \subseteq Estados
  BY DEF Estados
<1>t. cola \in Colas /\ io \in [Ios -> TipoIo]
  BY DEF IInv, TypeOK, Colas
<1>1. UNCHANGED <<medianoFifo, hilo, timer>>
  BY DEF Io, ConectarIo, RegistrarIo, IoDespierta, IoBusca, IoTermina, IoSaca, IoTransiciona
<1>2. \A j \in Ios \ {i} : io'[j] = io[j]
  <2>1. CASE ConectarIo(i) \/ RegistrarIo(i) \/ IoTermina(i) \/ IoSaca(i) \/ IoTransiciona(i)
    BY <2>1, <1>t DEF ConectarIo, RegistrarIo, IoTermina, IoSaca, IoTransiciona
  <2>2. CASE IoDespierta(i) \/ IoBusca(i)
    BY <2>2, <1>t DEF IoDespierta, IoBusca, Toma
  <2>. QED BY <2>1, <2>2 DEF Io
<1>3. EnManos(q) /\ ~(io[i].proc = q /\ io[i].pc \in {"aReady", "aSuspReady"}) => EnManos(q)'
  BY <1>1, <1>2 DEF EnManos
<1>4. CASE ConectarIo(i) \/ RegistrarIo(i) \/ IoDespierta(i) \/ IoBusca(i) \/ IoTermina(i)
  <2>1. cola' = cola /\ io[i].pc \notin {"aReady", "aSuspReady"}
    BY <1>4 DEF ConectarIo, RegistrarIo, IoDespierta, IoBusca, IoTermina
  <2>. QED BY <1>3, <2>1 DEF Salvo, EnAlguna, Esta
<1>5. CASE IoSaca(i)
  <2>1. PICK e \in Estados : cola' = Sacar(io[i].proc, e)
    BY <1>5, <1>e DEF IoSaca
  <2>2. /\ io[i].pc \notin {"aReady", "aSuspReady"}
        /\ io'[i].pc \in {"aReady", "aSuspReady"} /\ io'[i].proc = io[i].proc
    BY <1>5, <1>t DEF IoSaca, TipoIo
  <2>3. q = io[i].proc => EnManos(q)'
    BY <2>2 DEF EnManos
  <2>4. q # io[i].proc /\ EnAlguna(q) => EnAlguna(q)'
    BY <1>t, <2>1, ColaSaca
  <2>. QED BY <1>3, <2>2, <2>3, <2>4 DEF Salvo
<1>6. CASE IoTransiciona(i)
  <2>1. PICK e \in Estados : cola' = [cola EXCEPT ![e] = Append(@, io[i].proc)]
    BY <1>6, <1>e DEF IoTransiciona
  <2>2. io[i].proc \in Procs
    BY <1>6 DEF IoTransiciona, IInv, ConProceso
  <2>3. ASSUME NEW p \in Procs, p = io[i].proc
        PROVE  EnAlguna(p)' /\ (EnAlguna(q) => EnAlguna(q)')
    BY <1>t, <2>1, <2>3, ColaAgrega
  <2>. QED BY <1>3, <2>2, <2>3 DEF Salvo
<1>. QED BY <1>4, <1>5, <1>6 DEF Io

\* Only medianoFifo takes processes out of SUSP_READY.
LEMMA OtrosCabezaRetenida ==
    ASSUME IInv, CabezaRetenida, [Next]_vars, ~MedianoFifo
    PROVE  CabezaRetenida'
<1>. USE DEF planif, disposi, pcbs, Sigue
<1>e. /\ {"NEW", "READY", "EXEC", "BLOCKED", "SUSP_BLOCKED", "EXIT_ESTADO"}
           \subseteq Estados \ {"SUSP_READY"}
      /\ "SUSP_READY" \in Estados
  BY DEF Estados
<1>t. cola \in Colas /\ cola["SUSP_READY"] \in Seq(Procs)
  BY <1>e DEF IInv, TypeOK, Colas
<1>1. medianoFifo' = medianoFifo
  <2>1. CASE Largo \/ Mediano \/ Corto
    BY <2>1 DEF Largo, LargoDespierta, LargoEsperaVacia, LargoAceptado, LargoRechazado, LargoAdmite,
                Mediano, MedianoDespierta, MedianoEnvia, MedianoIntenta, Corto, Despachar
  <2>2. CASE \E h \in Hilos : Hilo(h)
    BY <2>2 DEF Hilo, SyscallInitProc, SyscallExit, FinalizarIntenta, FinalizarTermina, SyscallDump,
                DumpLiberaCpu, DumpAceptado, DumpAReady, DumpRechazado, SyscallIo,
                IoBuscaDispositivo, IoFinaliza, IoBloquea
  <2>3. CASE \E p \in Procs, k \in Veces : Timer(p, k)
    BY <2>3 DEF Timer, TimerNace, TimerCompara, TimerBusca, TimerSaca, TimerSuspende
  <2>4. CASE \E i \in Ios : ConectarIo(i) \/ Io(i)
    BY <2>4 DEF Io, ConectarIo, RegistrarIo, IoDespierta, IoBusca, IoTermina, IoSaca, IoTransiciona
  <2>5. CASE (\E c \in Cpus : ConectarCpu(c)) \/ UsoTrasLiberar \/ UNCHANGED vars
    BY <2>5 DEF ConectarCpu, UsoTrasLiberar, vars
  <2>. QED BY <2>1, <2>2, <2>3, <2>4, <2>5 DEF Next
<1>2. \/ cola'["SUSP_READY"] = cola["SUSP_READY"]
      \/ \E p \in Procs : cola' = [cola EXCEPT !["SUSP_READY"] = Append(@, p)]
  <2>1. CASE Largo \/ Mediano
    <3>1. CASE LargoAdmite
      BY <3>1, <1>e, <1>t DEF LargoAdmite, MoverPrimero, Colas
    <3>. QED BY <2>1, <3>1
             DEF Largo, LargoDespierta, LargoEsperaVacia, LargoAceptado, LargoRechazado,
                 Mediano, MedianoDespierta, MedianoEnvia, MedianoIntenta
  <2>2. CASE Corto
    <3>1. PICK c \in Cpus : Despachar(c)
      BY <2>2 DEF Corto
    <3>. QED BY <3>1, <1>e, <1>t DEF Despachar, MoverPrimero, Colas
  <2>3. ASSUME NEW h \in Hilos, Hilo(h)
        PROVE  cola'["SUSP_READY"] = cola["SUSP_READY"]
    <3>1. CASE \E q \in Procs : SyscallInitProc(h, q)
      BY <3>1, <1>e, <1>t DEF SyscallInitProc, Colas
    <3>2. CASE SyscallExit(h) \/ DumpRechazado(h) \/ IoFinaliza(h)
      BY <3>2, <1>e, <1>t DEF SyscallExit, DumpRechazado, IoFinaliza, Finalizar, Mover, Colas
    <3>3. CASE FinalizarTermina(h) \/ DumpAceptado(h)
      BY <3>3, <1>e, <1>t DEF FinalizarTermina, DumpAceptado, Sacar, Colas
    <3>4. CASE SyscallDump(h) \/ IoBloquea(h)
      BY <3>4, <1>e, <1>t DEF SyscallDump, IoBloquea, Mover, Colas
    <3>5. CASE DumpAReady(h)
      BY <3>5, <1>e, <1>t DEF DumpAReady, Colas
    <3>6. CASE \/ FinalizarIntenta(h) \/ DumpLiberaCpu(h) \/ SyscallIo(h)
               \/ \E n \in Nombres : IoBuscaDispositivo(h, n)
      BY <3>6 DEF FinalizarIntenta, DumpLiberaCpu, SyscallIo, IoBuscaDispositivo
    <3>. QED BY <2>3, <3>1, <3>2, <3>3, <3>4, <3>5, <3>6 DEF Hilo
  <2>4. ASSUME NEW p \in Procs, NEW k \in Veces, Timer(p, k)
        PROVE  cola'["SUSP_READY"] = cola["SUSP_READY"]
    BY <2>4, <1>e, <1>t DEF Timer, TimerNace, TimerCompara, TimerBusca, TimerSaca, TimerSuspende,
                            Sacar, Colas
  <2>5. ASSUME NEW i \in Ios, ConectarIo(i) \/ Io(i)
        PROVE  \/ cola'["SUSP_READY"] = cola["SUSP_READY"]
               \/ \E p \in Procs : cola' = [cola EXCEPT !["SUSP_READY"] = Append(@, p)]
    <3>1. CASE IoTransiciona(i)
      <4>1. io[i].proc \in Procs
        BY <3>1 DEF IoTransiciona, IInv, ConProceso
      <4>2. PICK e \in {"READY", "SUSP_READY"} :
                   cola' = [cola EXCEPT ![e] = Append(@, io[i].proc)]
        BY <3>1 DEF IoTransiciona
      <4>3. e = "READY" => cola'["SUSP_READY"] = cola["SUSP_READY"]
        BY <4>2, <1>e, <1>t DEF Colas
      <4>. QED BY <4>1, <4>2, <4>3
    <3>2. CASE IoSaca(i)
      BY <3>2, <1>e, <1>t DEF IoSaca, Sacar, Colas
    <3>. QED BY <2>5, <3>1, <3>2
             DEF Io, ConectarIo, RegistrarIo, IoDespierta, IoBusca, IoTermina
  <2>6. CASE (\E c \in Cpus : ConectarCpu(c)) \/ UsoTrasLiberar \/ UNCHANGED vars
    BY <2>6 DEF ConectarCpu, UsoTrasLiberar, vars
  <2>. QED BY <2>1, <2>2, <2>3, <2>4, <2>5, <2>6 DEF Next
<1>3. cola["SUSP_READY"] # <<>> => /\ cola'["SUSP_READY"] # <<>>
                                   /\ Head(cola'["SUSP_READY"]) = Head(cola["SUSP_READY"])
  BY <1>2, <1>e, <1>t, ColaAgrega
<1>. QED BY <1>1, <1>3 DEF CabezaRetenida

LEMMA MedianoFifoCabezaRetenida ==
    ASSUME IInv, CabezaRetenida, MedianoFifo
    PROVE  CabezaRetenida'
<1>1. medianoFifo \in [pc : {"duerme", "consulta", "saca", "admite", "avisa"},
                       proc : Procs \cup {Nadie}]
  BY DEF IInv, TypeOK
<1>2. CASE MedianoFifoDespierta
  <2>1. sem["SUSP_READY"] > 0
    BY <1>2 DEF MedianoFifoDespierta, Senales
  <2>. QED BY <1>2, <2>1, ColasVacias DEF MedianoFifoDespierta, CabezaRetenida
<1>3. CASE MedianoFifoAceptado
  BY <1>1, <1>3 DEF MedianoFifoAceptado, CabezaRetenida
<1>4. CASE MedianoFifoRechazado \/ MedianoFifoAvisa
  BY <1>4 DEF MedianoFifoRechazado, MedianoFifoAvisa, CabezaRetenida
<1>5. CASE MedianoFifoSaca \/ MedianoFifoAdmite
  BY <1>5 DEF MedianoFifoSaca, MedianoFifoAdmite, CabezaRetenida
<1>. QED BY <1>2, <1>3, <1>4, <1>5 DEF MedianoFifo

IInvPerdido == NingunoPerdido /\ CabezaRetenida

\* A process that is alive after a step was alive and safe before it, or has
\* just entered NEW.
LEMMA NextSalvo ==
    ASSUME IInv, IInvPerdido, [Next]_vars, NEW q \in Procs, vivo'[q] = "vivo"
    PROVE  Salvo(q)'
<1>. USE DEF planif, disposi, pcbs
<1>1. vivo[q] = "vivo" => Salvo(q)
  BY DEF IInvPerdido, NingunoPerdido, Salvo, EnAlguna
<1>2. \/ vivo[q] = "vivo"
      \/ \E h \in Hilos : SyscallInitProc(h, q)
  <2>v. vivo \in [Procs -> {"sin crear", "vivo", "liberado"}]
    BY DEF IInv, TypeOK
  <2>1. ASSUME NEW h \in Hilos, Hilo(h)
        PROVE  vivo[q] = "vivo" \/ SyscallInitProc(h, q)
    <3>1. ASSUME NEW r \in Procs, SyscallInitProc(h, r)
          PROVE  vivo[q] = "vivo" \/ SyscallInitProc(h, q)
      BY <2>v, <3>1 DEF SyscallInitProc
    <3>2. CASE FinalizarTermina(h)
      BY <2>v, <3>2 DEF FinalizarTermina
    <3>. QED BY <2>1, <3>1, <3>2
             DEF Hilo, SyscallExit, FinalizarIntenta, SyscallDump, DumpLiberaCpu, DumpAceptado,
                 DumpAReady, DumpRechazado, SyscallIo, IoBuscaDispositivo, IoFinaliza, IoBloquea
  <2>2. CASE Largo \/ MedianoFifo \/ Mediano \/ Corto
    BY <2>2 DEF Largo, LargoDespierta, LargoEsperaVacia, LargoAceptado, LargoRechazado, LargoAdmite,
                MedianoFifo, MedianoFifoDespierta, MedianoFifoAceptado, MedianoFifoRechazado,
                MedianoFifoSaca, MedianoFifoAdmite, MedianoFifoAvisa,
                Mediano, MedianoDespierta, MedianoEnvia, MedianoIntenta, Corto, Despachar
  <2>3. CASE \E p \in Procs, k \in Veces : Timer(p, k)
    BY <2>3 DEF Timer, TimerNace, TimerCompara, TimerBusca, TimerSaca, TimerSuspende
  <2>4. CASE \E i \in Ios : ConectarIo(i) \/ Io(i)
    BY <2>4 DEF Io, ConectarIo, RegistrarIo, IoDespierta, IoBusca, IoTermina, IoSaca, IoTransiciona
  <2>5. CASE (\E c \in Cpus : ConectarCpu(c)) \/ UsoTrasLiberar \/ UNCHANGED vars
    BY <2>5 DEF ConectarCpu, UsoTrasLiberar, vars
  <2>. QED BY <2>1, <2>2, <2>3, <2>4, <2>5 DEF Next
<1>3. CASE \E h \in Hilos : SyscallInitProc(h, q)
  <2>1. cola' = [cola EXCEPT !["NEW"] = Append(@, q)] /\ "NEW" \in Estados /\ cola \in Colas
    BY <1>3 DEF SyscallInitProc, Estados, IInv, TypeOK, Colas
  <2>. QED BY <2>1, ColaAgrega DEF Salvo
<1>4. CASE Salvo(q)
  <2>1. CASE (\E c \in Cpus : ConectarCpu(c)) \/ UsoTrasLiberar \/ UNCHANGED vars
    <3>1. UNCHANGED <<cola, medianoFifo, hilo, timer, io>>
      BY <2>1 DEF ConectarCpu, UsoTrasLiberar, vars
    <3>. QED BY <1>4, <3>1 DEF Salvo, EnManos, EnAlguna, Esta
  <2>2. CASE Largo \/ Mediano \/ Corto
    BY <1>4, <2>2, LargoSalvo
  <2>3. CASE MedianoFifo
    BY <1>4, <2>3, MedianoFifoSalvo DEF IInvPerdido
  <2>4. CASE \E h \in Hilos : Hilo(h)
    BY <1>4, <2>4, HiloSalvo
  <2>5. CASE \E p \in Procs, k \in Veces : Timer(p, k)
    BY <1>4, <2>5, TimerSalvo
  <2>6. CASE \E i \in Ios : ConectarIo(i) \/ Io(i)
    BY <1>4, <2>6, IoSalvo
  <2>. QED BY <2>1, <2>2, <2>3, <2>4, <2>5, <2>6 DEF Next
<1>. QED BY <1>1, <1>2, <1>3, <1>4

LEMMA NextIInvPerdido ==
    ASSUME IInv, IInvPerdido, [Next]_vars
    PROVE  IInvPerdido'
<1>1. NingunoPerdido'
  BY NextSalvo DEF NingunoPerdido, Salvo, EnAlguna
<1>2. CabezaRetenida'
  BY OtrosCabezaRetenida, MedianoFifoCabezaRetenida DEF IInvPerdido
<1>. QED BY <1>1, <1>2 DEF IInvPerdido

LEMMA InitIInvPerdido ==
    ASSUME Init
    PROVE  IInvPerdido
<1>1. CabezaRetenida
  BY DEF Init, CabezaRetenida
<1>2. ASSUME NEW q \in Procs, vivo[q] = "vivo"
      PROVE  EnAlguna(q)
  <2>1. q = ProcesoInicial
    BY <1>2 DEF Init
  <2>2. "NEW" \in Estados /\ cola["NEW"] = <<ProcesoInicial>>
    BY DEF Init, Estados
  <2>3. 1 \in DOMAIN <<ProcesoInicial>> /\ <<ProcesoInicial>>[1] = ProcesoInicial
    OBVIOUS
  <2>. QED BY <2>1, <2>2, <2>3 DEF EnAlguna, Esta
<1>. QED BY <1>1, <1>2 DEF IInvPerdido, NingunoPerdido, EnAlguna

\* What NingunoPerdido needs to be inductive: the process medianoFifo has in its
\* hands is still the first of SUSP_READY, whatever devices append meanwhile.
THEOREM InvarianteDePerdidos == Spec => []IInvPerdido
<1>1. Init => IInvPerdido
  BY InitIInvPerdido
<1>2. IInv /\ IInvPerdido /\ [Next]_vars => IInvPerdido'
  BY NextIInvPerdido
<1>. QED BY <1>1, <1>2, InvarianteInductivo, PTL DEF Spec

\* No process is lost between two queues: from its creation until it is freed it
\* is in some queue or a thread carries it, in any suspension regime and also
\* when a timer, a device and a dump remove it from BLOCKED one after another.
THEOREM NingunProcesoSePierde == Spec => []NingunoPerdido
<1>1. IInvPerdido => NingunoPerdido
  BY DEF IInvPerdido
<1>. QED BY <1>1, InvarianteDePerdidos, PTL

=============================================================================
