----------------------------- MODULE PmcpProofs -----------------------------
(***************************************************************************)
(* Machine-checked proofs about Pmcp, for any number of processes of any     *)
(* size: the semaphores count the queues, and a planner takes out the        *)
(* process it asked about.                                                  *)
(***************************************************************************)
EXTENDS Pmcp, TLAPS

-----------------------------------------------------------------------------
(* Queues.                                                                 *)

\* A sorted insertion adds one element.
LEMMA Insertado ==
    ASSUME NEW c \in Seq(Procs), NEW p \in Procs, NEW d \in Ordenadas(c, p)
    PROVE  d \in Seq(Procs) /\ Len(d) = Len(c) + 1
<1>1. PICK i \in 1 .. Len(c) + 1 : d = InsertAt(c, i, p)
  BY DEF Ordenadas
<1> DEFINE a == SubSeq(c, 1, i - 1)
           b == SubSeq(c, i, Len(c))
<1>2. Len(c) \in Nat
  OBVIOUS
<1>3. a \in Seq(Procs) /\ Len(a) = i - 1
  BY <1>1, <1>2
<1>4. b \in Seq(Procs) /\ Len(b) = Len(c) - i + 1
  BY <1>1, <1>2
<1> DEFINE e == a \o <<p>>
<1>5. d = e \o b
  BY <1>1 DEF InsertAt
<1>6. <<p>> \in Seq(Procs) /\ Len(<<p>>) = 1
  OBVIOUS
<1> HIDE DEF a, b
<1>7. e \in Seq(Procs) /\ Len(e) = i
  BY <1>3, <1>6, <1>1, <1>2
<1> HIDE DEF e
<1>8. e \o b \in Seq(Procs) /\ Len(e \o b) = i + (Len(c) - i + 1)
  BY <1>4, <1>7
<1> QED BY <1>5, <1>8, <1>1, <1>2

\* What Tail does to a queue that is not empty.
LEMMA Sacado ==
    ASSUME NEW c \in Seq(Procs), c # <<>>
    PROVE  /\ Head(c) \in Procs /\ Tail(c) \in Seq(Procs)
           /\ Len(c) \in Nat /\ Len(Tail(c)) = Len(c) - 1
  OBVIOUS

\* The process to ask about is always one.
LEMMA ActualizadoEsProceso ==
    ASSUME NEW c \in Seq(Procs), proximo \in Procs
    PROVE  Actualizado(c) \in Procs
  BY DEF Actualizado

-----------------------------------------------------------------------------
(* The inductive invariant.                                                *)

IInv == TypeOK /\ FichasDeAdmision /\ AdmiteAlConsultado

\* A planner that is awake has a process to deal with.
LEMMA HayPrimero ==
    ASSUME IInv
    PROVE  /\ largo.pc # "duerme" => nuevos # <<>>
           /\ mediano.pc # "duerme" => suspListos # <<>>
<1>1. /\ Len(nuevos) = enNew + Despierto(largo)
      /\ Len(suspListos) = enSuspReady + Despierto(mediano)
      /\ enNew \in Nat /\ enSuspReady \in Nat
  BY DEF IInv, TypeOK, FichasDeAdmision
<1>2. Len(<<>>) = 0
  OBVIOUS
<1> QED BY <1>1, <1>2 DEF Despierto

LEMMA InitInv == Init => IInv
<1> SUFFICES ASSUME Init PROVE IInv
  OBVIOUS
<1>1. lugar \in [Procs -> Lugares]
  BY DEF Init, Lugares
<1>2. largo \in Largos /\ mediano \in Medianos
  BY DEF Init, Duerme, Largos, Medianos
<1>3. intento \in [Hilos -> Intentos]
  BY DEF Init, Intentos
<1>4. ProcesoInicial \in Procs /\ Marcos \in Nat
  BY PmcpAssumption
<1>5. /\ <<ProcesoInicial>> \in Seq(Procs) /\ Len(<<ProcesoInicial>>) = 1
      /\ <<>> \in Seq(Procs) /\ Len(<<>>) = 0
  BY <1>4
<1>6. nuevos = <<ProcesoInicial>> /\ suspListos = <<>>
  BY DEF Init
<1>7. suspensiones = [q \in Procs |-> 0]
  BY DEF Init
<1>8. suspensiones \in [Procs -> Nat]
  BY <1>7
<1>9. proximo = ProcesoInicial /\ libres = Marcos
  BY DEF Init
<1>10. /\ enNew \in Nat /\ enSuspReady \in Nat
       /\ intentarNew \in Nat /\ intentarSuspReady \in Nat /\ sinProcesos \in Nat
  BY DEF Init
<1>14. /\ enSwap \subseteq Procs /\ estorbo \in BOOLEAN
       /\ enSuspBlocked \in Nat /\ marcados \subseteq Procs /\ elegido \in Procs \cup {Nadie}
  BY DEF Init
<1>11. TypeOK
  BY <1>1, <1>2, <1>3, <1>4, <1>5, <1>6, <1>8, <1>9, <1>10, <1>14 DEF TypeOK
<1>12. FichasDeAdmision
  <2>1. Len(nuevos) = 1 /\ Len(suspListos) = 0
    BY <1>5, <1>6
  <2>2. Despierto(largo) = 0 /\ Despierto(mediano) = 0
    BY DEF Init, Despierto, Duerme
  <2>3. enNew = 1 /\ enSuspReady = 0
    BY DEF Init
  <2> QED BY <2>1, <2>2, <2>3 DEF FichasDeAdmision
<1>13. AdmiteAlConsultado
  BY DEF Init, AdmiteAlConsultado, Duerme, Consultas
<1> QED BY <1>11, <1>12, <1>13 DEF IInv

\* The actions of the processes.
LEMMA ProcesoInv ==
    ASSUME IInv, NEW p \in Procs,
           TransicionarANew(p) \/ Demorar(p) \/ FinDeRafaga(p) \/ Finalizar(p)
    PROVE  IInv'
<1>1. CASE TransicionarANew(p)
  <2>1. lugar' \in [Procs -> Lugares]
    BY <1>1 DEF TransicionarANew, IInv, TypeOK, Lugares
  <2>2. nuevos' \in Seq(Procs) /\ Len(nuevos') = Len(nuevos) + 1
    BY <1>1, Insertado DEF TransicionarANew, IInv, TypeOK
  <2>3. enNew' = enNew + 1 /\ intentarNew' = intentarNew + 1
    BY <1>1 DEF TransicionarANew
  <2>4. enNew \in Nat /\ intentarNew \in Nat
    BY DEF IInv, TypeOK
  <2>5. enNew' = enNew + 1 /\ enNew' \in Nat /\ intentarNew' \in Nat
    BY <2>3, <2>4
  <2>6. TypeOK'
    BY <1>1, <2>1, <2>2, <2>5 DEF TransicionarANew, IInv, TypeOK, semSusp, planis, memoria, bloqueo
  <2>7. /\ Len(nuevos) = enNew + Despierto(largo) /\ enNew \in Nat /\ Despierto(largo) \in Nat
        /\ Despierto(largo)' = Despierto(largo)
    BY <1>1 DEF TransicionarANew, IInv, TypeOK, FichasDeAdmision, Despierto, planis
  <2>8. Len(nuevos') = enNew' + Despierto(largo)'
    BY <2>2, <2>5, <2>7
  <2>9. FichasDeAdmision'
    BY <1>1, <2>8 DEF TransicionarANew, IInv, FichasDeAdmision, Despierto, semSusp, planis
  <2>10. AdmiteAlConsultado'
    BY <1>1 DEF TransicionarANew, IInv, AdmiteAlConsultado, Consultas, NewLibre, planis
  <2> QED BY <2>6, <2>9, <2>10 DEF IInv
<1>2. CASE Demorar(p)
  <2>1. lugar' \in [Procs -> Lugares]
    BY <1>2 DEF Demorar, IInv, TypeOK, Lugares
  <2>2. suspensiones' \in [Procs -> Nat]
    <3>1. suspensiones \in [Procs -> Nat] /\ suspensiones' = [suspensiones EXCEPT ![p] = @ + 1]
      BY <1>2 DEF Demorar, IInv, TypeOK
    <3> QED BY <3>1
  <2>3. marcados' \subseteq Procs /\ enSuspBlocked' \in Nat
    BY <1>2 DEF Demorar, IInv, TypeOK
  <2>4. TypeOK'
    BY <1>2, <2>1, <2>2, <2>3 DEF Demorar, IInv, TypeOK, colas, memoria, semNew, semSusp, planis
  <2>5. FichasDeAdmision'
    BY <1>2 DEF Demorar, IInv, FichasDeAdmision, Despierto, colas, semNew, semSusp, planis
  <2>6. AdmiteAlConsultado'
    BY <1>2 DEF Demorar, IInv, AdmiteAlConsultado, Consultas, colas, planis
  <2> QED BY <2>4, <2>5, <2>6 DEF IInv
<1>3. CASE LlegaASuspReady(p)
  <2>1. lugar' \in [Procs -> Lugares]
    BY <1>3 DEF LlegaASuspReady, IInv, TypeOK, Lugares
  <2>2. TypeOK'
    BY <1>3, <2>1 DEF LlegaASuspReady, IInv, TypeOK, colas, semNew, semSusp, planis, memoria, bloqueo
  <2>3. FichasDeAdmision'
    BY <1>3 DEF LlegaASuspReady, IInv, FichasDeAdmision, Despierto, colas, semNew, semSusp, planis
  <2>4. AdmiteAlConsultado'
    BY <1>3 DEF LlegaASuspReady, IInv, AdmiteAlConsultado, Consultas, colas, planis
  <2> QED BY <2>2, <2>3, <2>4 DEF IInv
<1>4. CASE TransicionarASuspReady(p)
  <2>1. lugar' \in [Procs -> Lugares]
    BY <1>4 DEF TransicionarASuspReady, IInv, TypeOK, Lugares
  <2>2. suspListos' \in Seq(Procs) /\ Len(suspListos') = Len(suspListos) + 1
    BY <1>4, Insertado DEF TransicionarASuspReady, IInv, TypeOK
  <2>3. TypeOK'
    BY <1>4, <2>1, <2>2 DEF TransicionarASuspReady, IInv, TypeOK, semNew, planis, memoria, bloqueo
  <2>4. FichasDeAdmision'
    BY <1>4, <2>2 DEF TransicionarASuspReady, IInv, TypeOK, FichasDeAdmision, Despierto, semNew, planis
  <2>5. AdmiteAlConsultado'
    BY <1>4 DEF TransicionarASuspReady, IInv, AdmiteAlConsultado, Consultas, SuspReadyLibre, planis
  <2> QED BY <2>3, <2>4, <2>5 DEF IInv
<1>5. CASE Finalizar(p)
  <2>1. lugar' \in [Procs -> Lugares]
    BY <1>5 DEF Finalizar, IInv, TypeOK, Lugares
  <2>2. intento' \in [Hilos -> Intentos]
    BY <1>5 DEF Finalizar, IInv, TypeOK, Hilos, Intentos
  <2>3. libres' \in Int
    BY <1>5, PmcpAssumption DEF Finalizar, IInv, TypeOK
  <2>4. TypeOK'
    BY <1>5, <2>1, <2>2, <2>3 DEF Finalizar, IInv, TypeOK, colas, semNew, semSusp, planis, memoria, bloqueo
  <2>5. FichasDeAdmision'
    BY <1>5 DEF Finalizar, IInv, FichasDeAdmision, Despierto, colas, semNew, semSusp, planis
  <2>6. AdmiteAlConsultado'
    BY <1>5 DEF Finalizar, IInv, AdmiteAlConsultado, Consultas, colas, planis
  <2> QED BY <2>4, <2>5, <2>6 DEF IInv
<1> QED BY <1>1, <1>2, <1>3, <1>4, <1>5 DEF FinDeRafaga

\* The planner that suspends.
LEMMA SuspensionInv ==
    ASSUME IInv, Suspension
    PROVE  IInv'
<1>1. /\ UNCHANGED <<colas, semNew, semSusp, planis, proximo, lugar, suspensiones, estorbo>>
      /\ marcados' \subseteq Procs
  BY DEF Suspension, ElegirASuspender, NadieASuspender, Suspender, IInv, TypeOK, memoria
<1>2. FichasDeAdmision'
  BY <1>1 DEF IInv, FichasDeAdmision, Despierto, colas, semNew, semSusp, planis
<1>3. AdmiteAlConsultado'
  BY <1>1 DEF IInv, AdmiteAlConsultado, Consultas, colas, planis
<1>4. enSuspBlocked' \in Nat
  BY DEF Suspension, ElegirASuspender, NadieASuspender, Suspender, IInv, TypeOK
<1>5. elegido' \in Procs \cup {Nadie}
  BY DEF Suspension, ElegirASuspender, NadieASuspender, Suspender, PorSuspender, IInv, TypeOK
<1>6. libres' \in Int /\ enSwap' \subseteq Procs /\ intento' \in [Hilos -> Intentos]
  <2>1. CASE Suspender
    <3>1. elegido \in Procs
      BY <2>1 DEF Suspender, IInv, TypeOK
    <3>2. libres' = libres + Tam[elegido] /\ libres \in Int /\ Tam[elegido] \in Int
      BY <2>1, <3>1, PmcpAssumption DEF Suspender, IInv, TypeOK
    <3>3. libres' \in Int
      BY ONLY <3>2
    <3> QED BY <2>1, <3>1, <3>3 DEF Suspender, IInv, TypeOK, Intentos
  <2>2. CASE ElegirASuspender \/ NadieASuspender
    BY <2>2 DEF ElegirASuspender, NadieASuspender, IInv, TypeOK, memoria
  <2> QED BY <2>1, <2>2 DEF Suspension
<1>7. TypeOK'
  BY <1>1, <1>4, <1>5, <1>6 DEF IInv, TypeOK, colas, semNew, semSusp, planis
<1> QED BY <1>2, <1>3, <1>7 DEF IInv

\* Both planners are refused.
LEMMA SeEstorbanInv ==
    ASSUME IInv, SeEstorban
    PROVE  IInv'
<1>1. largo' \in Largos /\ mediano' \in Medianos
  BY DEF SeEstorban, IInv, TypeOK, Largos, Medianos
<1>2. TypeOK'
  BY <1>1 DEF SeEstorban, IInv, TypeOK, colas, memoria, semNew, semSusp, bloqueo
<1>3. FichasDeAdmision'
  BY DEF SeEstorban, IInv, TypeOK, Largos, Medianos, FichasDeAdmision, Despierto, colas, semNew, semSusp
<1>4. AdmiteAlConsultado'
  BY DEF SeEstorban, IInv, TypeOK, Largos, Medianos, AdmiteAlConsultado, Consultas, colas
<1> QED BY <1>2, <1>3, <1>4 DEF IInv

\* The calls of intentar_iniciar.
LEMMA IntentoInv ==
    ASSUME IInv, NEW h \in Hilos, IntentarIniciar(h)
    PROVE  IInv'
<1>1. CASE IntentarMira(h)
  <2>1. intento' \in [Hilos -> Intentos]
    BY <1>1 DEF IntentarMira, IInv, TypeOK, Intentos
  <2>2. TypeOK'
    BY <1>1, <2>1 DEF IntentarMira, IInv, TypeOK, colas, semNew, semSusp, planis, memoria, bloqueo
  <2>3. FichasDeAdmision'
    BY <1>1 DEF IntentarMira, IInv, FichasDeAdmision, Despierto, colas, semNew, semSusp, planis
  <2>4. AdmiteAlConsultado'
    BY <1>1 DEF IntentarMira, IInv, AdmiteAlConsultado, Consultas, colas, planis
  <2> QED BY <2>2, <2>3, <2>4 DEF IInv
<1>2. CASE IntentarIniciarSuspReady(h)
  <2>1. proximo' \in Procs
    BY <1>2, ActualizadoEsProceso DEF IntentarIniciarSuspReady, IInv, TypeOK
  <2>2. intento' \in [Hilos -> Intentos]
    BY <1>2 DEF IntentarIniciarSuspReady, IInv, TypeOK, Intentos
  <2>3. TypeOK'
    BY <1>2, <2>2, <2>1 DEF IntentarIniciarSuspReady, IInv, TypeOK, colas, semNew, planis, memoria, bloqueo
  <2>4. FichasDeAdmision'
    BY <1>2 DEF IntentarIniciarSuspReady, IInv, FichasDeAdmision, Despierto, colas, semNew, planis
  <2>5. AdmiteAlConsultado'
    BY <1>2 DEF IntentarIniciarSuspReady, IInv, AdmiteAlConsultado, Consultas, colas, planis
  <2> QED BY <2>3, <2>4, <2>5 DEF IInv
<1>3. CASE IntentarIniciarNew(h)
  <2>1. proximo' \in Procs
    BY <1>3, ActualizadoEsProceso DEF IntentarIniciarNew, IInv, TypeOK
  <2>2. intento' \in [Hilos -> Intentos]
    BY <1>3 DEF IntentarIniciarNew, IInv, TypeOK, Intentos
  <2>3. TypeOK'
    BY <1>3, <2>2, <2>1 DEF IntentarIniciarNew, IInv, TypeOK, colas, semSusp, planis, memoria, bloqueo
  <2>4. FichasDeAdmision'
    BY <1>3 DEF IntentarIniciarNew, IInv, FichasDeAdmision, Despierto, colas, semSusp, planis
  <2>5. AdmiteAlConsultado'
    BY <1>3 DEF IntentarIniciarNew, IInv, AdmiteAlConsultado, Consultas, colas, planis
  <2> QED BY <2>3, <2>4, <2>5 DEF IInv
<1> QED BY <1>1, <1>2, <1>3 DEF IntentarIniciar

\* The long term planner.
LEMMA LargoInv ==
    ASSUME IInv, Largo
    PROVE  IInv'
<1>1. largo.pc # "duerme" => nuevos # <<>>
  BY HayPrimero
<1>2. CASE LargoDespierta
  <2>1. largo' \in Largos
    BY <1>2 DEF LargoDespierta, IInv, TypeOK, Largos, Medianos
  <2>2. enNew > 0 /\ enNew' = enNew - 1 /\ enNew \in Nat /\ enNew' \in Nat /\ intentarNew' \in Nat
    BY <1>2 DEF LargoDespierta, IInv, TypeOK
  <2>3. TypeOK'
    BY <1>2, <2>2, <2>1 DEF LargoDespierta, IInv, TypeOK, colas, semSusp, memoria, bloqueo
  <2>4. largo.pc = "duerme" /\ largo'.pc # "duerme"
    BY <1>2 DEF LargoDespierta, IInv, TypeOK, Largos, Medianos
  <2>5. Len(nuevos) = enNew' + 1
    BY <2>2, <2>4 DEF IInv, FichasDeAdmision, Despierto
  <2>6. FichasDeAdmision'
    BY <1>2, <2>4, <2>5 DEF LargoDespierta, IInv, FichasDeAdmision, Despierto, colas, semSusp
  <2>7. AdmiteAlConsultado'
    BY <1>2 DEF LargoDespierta, IInv, TypeOK, AdmiteAlConsultado, Consultas, colas, memoria, bloqueo
  <2> QED BY <2>3, <2>6, <2>7 DEF IInv
<1>3. CASE LargoEsperaVacia
  <2>1. largo' \in Largos
    BY <1>3 DEF LargoEsperaVacia, IInv, TypeOK, Largos, Medianos
  <2>2. TypeOK'
    BY <1>3, <2>1 DEF LargoEsperaVacia, IInv, TypeOK, colas, semNew, memoria, bloqueo
  <2>3. FichasDeAdmision'
    BY <1>3 DEF LargoEsperaVacia, IInv, TypeOK, FichasDeAdmision, Despierto, colas, semNew
  <2>4. AdmiteAlConsultado'
    BY <1>3 DEF LargoEsperaVacia, IInv, TypeOK, AdmiteAlConsultado, Consultas, colas, memoria, bloqueo
  <2> QED BY <2>2, <2>3, <2>4 DEF IInv
<1>4. CASE LargoPregunta
  <2>1. nuevos # <<>> /\ Head(nuevos) \in Procs
    BY <1>1, <1>4, Sacado DEF LargoPregunta, IInv, TypeOK
  <2>2. largo' \in Largos
    BY <1>4, <2>1 DEF LargoPregunta, IInv, TypeOK, Largos, Medianos
  <2>3. TypeOK'
    BY <1>4, <2>2, <2>1 DEF LargoPregunta, IInv, TypeOK, colas, semNew, semSusp, memoria, bloqueo
  <2>4. FichasDeAdmision'
    BY <1>4 DEF LargoPregunta, IInv, FichasDeAdmision, Despierto, colas, semNew, semSusp
  <2>5. AdmiteAlConsultado'
    BY <1>4, <2>1 DEF LargoPregunta, IInv, AdmiteAlConsultado, Consultas, colas
  <2> QED BY <2>3, <2>4, <2>5 DEF IInv
<1>5. CASE LargoAceptado
  <2>1. largo.proc \in Procs
    BY <1>5, <1>1, Sacado DEF LargoAceptado, IInv, TypeOK, AdmiteAlConsultado, Consultas
  <2>2. largo' \in Largos
    BY <1>5 DEF LargoAceptado, IInv, TypeOK, Largos, Medianos
  <2>3. libres' \in Int
    <3>1. libres \in Int
      BY DEF IInv, TypeOK
    <3>2. Tam[largo.proc] \in Int
      BY <2>1, PmcpAssumption
    <3>3. libres' = libres - Tam[largo.proc]
      BY <1>5 DEF LargoAceptado
    <3> QED BY ONLY <3>1, <3>2, <3>3
  <2>4. TypeOK'
    BY <1>5, <2>3, <2>2 DEF LargoAceptado, IInv, TypeOK, colas, semNew, semSusp, memoria, bloqueo
  <2>5. FichasDeAdmision'
    BY <1>5 DEF LargoAceptado, IInv, TypeOK, FichasDeAdmision, Despierto, colas, semNew, semSusp
  <2>6. AdmiteAlConsultado'
    BY <1>5 DEF LargoAceptado, IInv, TypeOK, AdmiteAlConsultado, Consultas, colas, memoria, bloqueo
  <2> QED BY <2>4, <2>5, <2>6 DEF IInv
<1>6. CASE LargoRechazado
  <2>1. largo' \in Largos
    BY <1>6 DEF LargoRechazado, IInv, TypeOK, Largos, Medianos, Duerme
  <2>2. TypeOK'
    BY <1>6, <2>1 DEF LargoRechazado, Duerme, IInv, TypeOK, colas, semSusp, memoria, bloqueo
  <2>3. FichasDeAdmision'
    BY <1>6 DEF LargoRechazado, LargoRechaza, Duerme, IInv, TypeOK, FichasDeAdmision, Despierto,
                colas, semSusp, memoria, bloqueo
  <2>4. AdmiteAlConsultado'
    BY <1>6 DEF LargoRechazado, Duerme, IInv, AdmiteAlConsultado, Consultas, colas
  <2> QED BY <2>2, <2>3, <2>4 DEF IInv
<1>7. CASE LargoAdmite
  <2>1. /\ Head(nuevos) \in Procs /\ Tail(nuevos) \in Seq(Procs)
        /\ Len(Tail(nuevos)) = Len(nuevos) - 1
    BY <1>1, <1>7, Sacado DEF LargoAdmite, IInv, TypeOK
  <2>2. proximo' \in Procs
    BY <1>7, <2>1, ActualizadoEsProceso DEF LargoAdmite, IInv, TypeOK
  <2>3. lugar' \in [Procs -> Lugares]
    BY <1>7, <2>1 DEF LargoAdmite, IInv, TypeOK, Lugares
  <2>4. largo' \in Largos
    BY <1>7 DEF LargoAdmite, IInv, TypeOK, Largos, Medianos, Duerme
  <2>5. intentarNew' \in Nat
    BY <1>7 DEF LargoAdmite, IInv, TypeOK
  <2>6. TypeOK'
    BY <1>7, <2>1, <2>2, <2>3, <2>4, <2>5 DEF LargoAdmite, Duerme, IInv, TypeOK, semSusp, memoria, bloqueo
  <2>7. FichasDeAdmision'
    BY <1>7, <2>1 DEF LargoAdmite, Duerme, IInv, TypeOK, FichasDeAdmision, Despierto, semSusp
  <2>8. AdmiteAlConsultado'
    BY <1>7 DEF LargoAdmite, Duerme, IInv, AdmiteAlConsultado, Consultas
  <2> QED BY <2>6, <2>7, <2>8 DEF IInv
<1> QED BY <1>2, <1>3, <1>4, <1>5, <1>6, <1>7 DEF Largo

\* The medium term planner.
LEMMA MedianoInv ==
    ASSUME IInv, Mediano
    PROVE  IInv'
<1>1. mediano.pc # "duerme" => suspListos # <<>>
  BY HayPrimero
<1>2. CASE MedianoDespierta
  <2>1. mediano' \in Medianos
    BY <1>2 DEF MedianoDespierta, IInv, TypeOK, Medianos
  <2>2. enSuspReady > 0 /\ enSuspReady' = enSuspReady - 1 /\ enSuspReady \in Nat /\ enSuspReady' \in Nat /\ intentarSuspReady' \in Nat
    BY <1>2 DEF MedianoDespierta, IInv, TypeOK
  <2>3. TypeOK'
    BY <1>2, <2>2, <2>1 DEF MedianoDespierta, IInv, TypeOK, colas, semNew, memoria, bloqueo
  <2>4. mediano.pc = "duerme" /\ mediano'.pc # "duerme"
    BY <1>2 DEF MedianoDespierta, IInv, TypeOK, Medianos
  <2>5. Len(suspListos) = enSuspReady' + 1
    BY <2>2, <2>4 DEF IInv, FichasDeAdmision, Despierto
  <2>6. FichasDeAdmision'
    BY <1>2, <2>4, <2>5 DEF MedianoDespierta, IInv, FichasDeAdmision, Despierto, colas, semNew
  <2>7. AdmiteAlConsultado'
    BY <1>2 DEF MedianoDespierta, IInv, TypeOK, AdmiteAlConsultado, Consultas, colas, memoria, bloqueo
  <2> QED BY <2>3, <2>6, <2>7 DEF IInv
<1>3. CASE MedianoPregunta
  <2>1. suspListos # <<>> /\ Head(suspListos) \in Procs
    BY <1>1, <1>3, Sacado DEF MedianoPregunta, IInv, TypeOK
  <2>2. mediano' \in Medianos
    BY <1>3, <2>1 DEF MedianoPregunta, IInv, TypeOK, Medianos
  <2>3. TypeOK'
    BY <1>3, <2>2, <2>1 DEF MedianoPregunta, IInv, TypeOK, colas, semNew, semSusp, memoria, bloqueo
  <2>4. FichasDeAdmision'
    BY <1>3 DEF MedianoPregunta, IInv, FichasDeAdmision, Despierto, colas, semNew, semSusp
  <2>5. AdmiteAlConsultado'
    BY <1>3, <2>1 DEF MedianoPregunta, IInv, AdmiteAlConsultado, Consultas, colas
  <2> QED BY <2>3, <2>4, <2>5 DEF IInv
<1>4. CASE MedianoAceptado
  <2>1. mediano.proc \in Procs
    BY <1>4, <1>1, Sacado DEF MedianoAceptado, IInv, TypeOK, AdmiteAlConsultado, Consultas
  <2>2. mediano' \in Medianos
    BY <1>4 DEF MedianoAceptado, IInv, TypeOK, Medianos
  <2>3. libres' \in Int
    <3>1. libres' = libres - Tam[mediano.proc]
      BY <1>4 DEF MedianoAceptado
    <3>2. Tam[mediano.proc] \in Int
      BY <2>1, PmcpAssumption
    <3>3. libres \in Int
      BY DEF IInv, TypeOK
    <3> QED BY <3>1, <3>2, <3>3
  <2>4. TypeOK'
    BY <1>4, <2>3, <2>2 DEF MedianoAceptado, IInv, TypeOK, colas, semNew, semSusp, memoria, bloqueo
  <2>5. FichasDeAdmision'
    BY <1>4 DEF MedianoAceptado, IInv, TypeOK, FichasDeAdmision, Despierto, colas, semNew, semSusp
  <2>6. AdmiteAlConsultado'
    BY <1>4 DEF MedianoAceptado, IInv, TypeOK, AdmiteAlConsultado, Consultas, colas, memoria, bloqueo
  <2> QED BY <2>4, <2>5, <2>6 DEF IInv
<1>5. CASE MedianoRechazado
  <2>1. mediano' \in Medianos
    BY <1>5 DEF MedianoRechazado, MedianoRechaza, IInv, TypeOK, Medianos, Duerme
  <2>2. TypeOK'
    BY <1>5, <2>1 DEF MedianoRechazado, MedianoRechaza, Duerme, IInv, TypeOK, colas, semNew, memoria, bloqueo
  <2>3. FichasDeAdmision'
    BY <1>5 DEF MedianoRechazado, MedianoRechaza, Duerme, IInv, TypeOK, FichasDeAdmision, Despierto, colas, semNew
  <2>4. AdmiteAlConsultado'
    BY <1>5 DEF MedianoRechazado, MedianoRechaza, Duerme, IInv, AdmiteAlConsultado, Consultas, colas
  <2> QED BY <2>2, <2>3, <2>4 DEF IInv
<1>6. CASE MedianoAdmite
  <2>1. /\ Head(suspListos) \in Procs /\ Tail(suspListos) \in Seq(Procs)
        /\ Len(Tail(suspListos)) = Len(suspListos) - 1
    BY <1>1, <1>6, Sacado DEF MedianoAdmite, IInv, TypeOK
  <2>2. proximo' \in Procs
    BY <1>6, <2>1, ActualizadoEsProceso DEF MedianoAdmite, IInv, TypeOK
  <2>3. lugar' \in [Procs -> Lugares]
    BY <1>6, <2>1 DEF MedianoAdmite, IInv, TypeOK, Lugares
  <2>4. mediano' \in Medianos
    BY <1>6 DEF MedianoAdmite, IInv, TypeOK, Medianos, Duerme
  <2>5. intentarSuspReady' \in Nat /\ sinProcesos' \in Nat
    BY <1>6 DEF MedianoAdmite, IInv, TypeOK
  <2>6. TypeOK'
    BY <1>6, <2>1, <2>2, <2>3, <2>4, <2>5 DEF MedianoAdmite, Duerme, IInv, TypeOK, semNew, memoria, bloqueo
  <2>7. FichasDeAdmision'
    BY <1>6, <2>1 DEF MedianoAdmite, Duerme, IInv, TypeOK, FichasDeAdmision, Despierto, semNew
  <2>8. AdmiteAlConsultado'
    BY <1>6 DEF MedianoAdmite, Duerme, IInv, AdmiteAlConsultado, Consultas
  <2> QED BY <2>6, <2>7, <2>8 DEF IInv
<1> QED BY <1>2, <1>3, <1>4, <1>5, <1>6 DEF Mediano

LEMMA NextInv ==
    ASSUME IInv, [Next]_vars
    PROVE  IInv'
<1>1. CASE UNCHANGED vars
  BY <1>1 DEF vars, colas, memoria, semNew, semSusp, bloqueo, planis, IInv, TypeOK, FichasDeAdmision,
              AdmiteAlConsultado, Despierto, memoria, bloqueo
<1>2. CASE Next
  BY <1>2, ProcesoInv, SuspensionInv, IntentoInv, LargoInv, MedianoInv, SeEstorbanInv DEF Next
<1> QED BY <1>1, <1>2

LEMMA SpecInv == Spec => []IInv
<1> QED BY InitInv, NextInv, PTL DEF Spec

-----------------------------------------------------------------------------
(* The theorems.                                                           *)

\* The queues of the admission planners hold processes, and their semaphores never
\* go below zero.
THEOREM SpecTypeOK == Spec => []TypeOK
<1>1. IInv => TypeOK
  BY DEF IInv
<1> QED BY <1>1, SpecInv, PTL

\* CANTIDAD_DE_PROCESOS_EN counts NEW and SUSP_READY, minus the process a planner
\* deals with: however many processes arrive, end and are refused, no token is lost.
THEOREM SpecFichasDeAdmision == Spec => []FichasDeAdmision
<1>1. IInv => FichasDeAdmision
  BY DEF IInv
<1> QED BY <1>1, SpecInv, PTL

\* A process that arrives while the memory module is asked never takes the place of
\* the one that was asked about.
THEOREM SpecAdmiteAlConsultado == Spec => []AdmiteAlConsultado
<1>1. IInv => AdmiteAlConsultado
  BY DEF IInv
<1> QED BY <1>1, SpecInv, PTL

=============================================================================
