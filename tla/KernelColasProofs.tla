-------------------------- MODULE KernelColasProofs --------------------------
(***************************************************************************)
(* Machine-checked proofs about Kernel, for any number of processes, CPUs,   *)
(* devices and threads, as long as the suspension of a process and the end   *)
(* of its burst do not overlap (Regimen).  First, where each process is: in  *)
(* one queue at most, where the thread that has it says; one device at most  *)
(* serves it; and it has its frames while it is ready or runs.  Then, that   *)
(* Kernel implements the life cycle of CicloDeVida when every process has    *)
(* pages: each step moves one process at most in the abstract state, and     *)
(* most move none.  Last, that each process that waits for a device was      *)
(* announced once to the devices of that name.                               *)
(***************************************************************************)
EXTENDS KernelProofs, KernelCiclo, SumasProofs

\* No dumps, and a burst and its timer end one after the other.
Regimen == Separada /\ "DUMP_MEMORY" \notin Syscalls

-----------------------------------------------------------------------------
(* Sequences without repetitions.                                          *)

SinRepetir(s) == \A i, j \in DOMAIN s : s[i] = s[j] => i = j

LEMMA AgregarSinRepetir ==
    ASSUME NEW s \in Seq(Procs), NEW p \in Procs, SinRepetir(s), ~Figura(p, s)
    PROVE  /\ SinRepetir(Append(s, p))
           /\ \A q : Figura(q, Append(s, p)) <=> Figura(q, s) \/ q = p
<1>1. /\ Append(s, p) \in Seq(Procs)
      /\ Len(Append(s, p)) = Len(s) + 1
      /\ \A i \in 1 .. Len(s) : Append(s, p)[i] = s[i]
      /\ Append(s, p)[Len(s) + 1] = p
  BY AppendProperties
<1>2. /\ DOMAIN s = 1 .. Len(s) /\ Len(s) \in Nat
      /\ DOMAIN Append(s, p) = 1 .. Len(s) + 1
  BY <1>1, LenProperties
<1>3. \A i \in 1 .. Len(s) + 1 : i \in 1 .. Len(s) \/ i = Len(s) + 1
  BY <1>2
<1>4. \A i \in 1 .. Len(s) : s[i] # p
  BY <1>2 DEF Figura
<1>5. SinRepetir(Append(s, p))
  BY <1>1, <1>2, <1>3, <1>4 DEF SinRepetir
<1>6. Len(s) + 1 \in 1 .. Len(s) + 1 /\ \A i \in 1 .. Len(s) : i \in 1 .. Len(s) + 1
  BY <1>2
<1>7. \A q : Figura(q, Append(s, p)) <=> Figura(q, s) \/ q = p
  BY <1>1, <1>2, <1>3, <1>6 DEF Figura
<1>. QED BY <1>5, <1>7

LEMMA TailSinRepetir ==
    ASSUME NEW s \in Seq(Procs), s # <<>>, SinRepetir(s)
    PROVE  /\ SinRepetir(Tail(s))
           /\ \A q : Figura(q, Tail(s)) <=> Figura(q, s) /\ q # Head(s)
           /\ Head(s) \in Procs /\ Figura(Head(s), s)
<1>1. /\ Head(s) = s[1] /\ Head(s) \in Procs
      /\ Tail(s) \in Seq(Procs) /\ Len(Tail(s)) = Len(s) - 1
      /\ \A j \in 1 .. Len(Tail(s)) : Tail(s)[j] = s[j + 1]
  BY HeadTailProperties
<1>2. /\ DOMAIN s = 1 .. Len(s) /\ Len(s) \in Nat
      /\ DOMAIN Tail(s) = 1 .. Len(s) - 1
  BY <1>1, LenProperties
<1>3. Len(s) # 0
  BY EmptySeq
<1>4. 1 \in 1 .. Len(s) /\ \A j \in 1 .. Len(s) - 1 : j + 1 \in 1 .. Len(s) /\ j + 1 # 1
  BY <1>2, <1>3
<1>5. \A i, j \in 1 .. Len(s) - 1 : i + 1 = j + 1 => i = j
  BY <1>2
<1>6. SinRepetir(Tail(s))
  BY <1>1, <1>2, <1>4, <1>5 DEF SinRepetir
<1>7. \A q : Figura(q, Tail(s)) => Figura(q, s) /\ q # Head(s)
  BY <1>1, <1>2, <1>4 DEF Figura, SinRepetir
<1>8. \A q : Figura(q, s) /\ q # Head(s) => Figura(q, Tail(s))
  BY TailFigura
<1>9. Figura(Head(s), s)
  BY <1>1, <1>2, <1>4 DEF Figura
<1>. QED BY <1>1, <1>6, <1>7, <1>8, <1>9

LEMMA QuitarSinRepetir ==
    ASSUME NEW s \in Seq(Procs), NEW p, SinRepetir(s)
    PROVE  /\ SinRepetir(Quitar(s, p))
           /\ \A q : Figura(q, Quitar(s, p)) <=> Figura(q, s) /\ q # p
<1>0. \A q : Figura(q, s) /\ q # p => Figura(q, Quitar(s, p))
  BY QuitarFigura
<1>1. CASE BuscarEnLista(s, p) = {}
  <2>1. ~Figura(p, s)
    <3> SUFFICES ASSUME NEW i \in DOMAIN s, s[i] = p PROVE FALSE
      BY DEF Figura
    <3>1. DOMAIN s = 1 .. Len(s) /\ Len(s) \in Nat
      BY LenProperties
    <3>2. \A j \in 1 .. i - 1 : j \in DOMAIN s /\ j # i
      BY <3>1
    <3>3. \A j \in 1 .. i - 1 : s[j] # p
      BY <3>2 DEF SinRepetir
    <3>. QED BY <1>1, <3>3 DEF BuscarEnLista
  <2>. QED BY <1>1, <2>1 DEF Quitar
<1>2. CASE BuscarEnLista(s, p) # {}
  <2> DEFINE k == CHOOSE i \in BuscarEnLista(s, p) : TRUE
             a == SubSeq(s, 1, k - 1)
             b == SubSeq(s, k + 1, Len(s))
  <2>1. k \in 1 .. Len(s) /\ s[k] = p
    BY <1>2, LenProperties DEF BuscarEnLista
  <2>2. Quitar(s, p) = a \o b
    BY <1>2 DEF Quitar, RemoveAt
  <2> HIDE DEF k
  <2>4. Len(s) \in Nat /\ k - 1 \in Nat /\ k + 1 \in Nat /\ DOMAIN s = 1 .. Len(s)
    BY <2>1, LenProperties
  <2>5. /\ a \in Seq(Procs) /\ Len(a) = k - 1
        /\ \A j \in 1 .. k - 1 : a[j] = s[j]
    BY <2>1, <2>4, SubSeqProperties
  <2>6. /\ b \in Seq(Procs) /\ Len(b) = Len(s) - k
        /\ \A j \in 1 .. Len(s) - k : b[j] = s[j + k]
    <3>1. b \in Seq(Procs) /\ Len(b) = IF k + 1 <= Len(s) THEN Len(s) - (k + 1) + 1 ELSE 0
      BY <2>1, <2>4, SubSeqProperties
    <3>0. \A n, m \in Nat : m <= n => (IF m + 1 <= n THEN n - (m + 1) + 1 ELSE 0) = n - m
      OBVIOUS
    <3>5. k \in Nat /\ Len(s) \in Nat /\ k <= Len(s)
      BY <2>1, <2>4
    <3>2. Len(b) = Len(s) - k
      BY <3>0, <3>1, <3>5
    <3>3. \A j \in 1 .. Len(s) - k : b[j] = s[k + 1 + j - 1]
      BY <2>1, <2>4, SubSeqProperties
    <3>4. \A j \in 1 .. Len(s) - k : k + 1 + j - 1 = j + k
      BY <2>1, <2>4
    <3>. QED BY <3>1, <3>2, <3>3, <3>4
  <2> HIDE DEF a, b
  <2> DEFINE r == a \o b
  <2>7. /\ DOMAIN r = 1 .. Len(s) - 1
        /\ \A j \in 1 .. Len(s) - 1 :
             r[j] = IF j <= k - 1 THEN a[j] ELSE b[j - (k - 1)]
    <3>1. /\ a \o b \in Seq(Procs) /\ Len(a \o b) = Len(a) + Len(b)
          /\ \A j \in 1 .. Len(a) + Len(b) :
               (a \o b)[j] = IF j <= Len(a) THEN a[j] ELSE b[j - Len(a)]
      BY <2>5, <2>6, ConcatProperties
    <3>2. Len(a) + Len(b) = Len(s) - 1
      BY <2>1, <2>4, <2>5, <2>6
    <3>. QED BY <3>1, <3>2, <2>5, LenProperties
  <2> DEFINE d == [j \in 1 .. Len(s) - 1 |-> IF j <= k - 1 THEN j ELSE j + 1]
  <2>8. \A j \in 1 .. Len(s) - 1 : d[j] \in 1 .. Len(s) /\ d[j] # k
    BY <2>1, <2>4
  <2>9. \A i, j \in 1 .. Len(s) - 1 : d[i] = d[j] => i = j
    BY <2>1, <2>4
  <2>10. \A j \in 1 .. Len(s) - 1 : r[j] = s[d[j]]
    <3> SUFFICES ASSUME NEW j \in 1 .. Len(s) - 1 PROVE r[j] = s[d[j]]
      OBVIOUS
    <3>1. CASE j <= k - 1
      <4>1. j \in 1 .. k - 1 /\ d[j] = j
        BY <2>1, <2>4, <3>1
      <4>. QED BY <2>5, <2>7, <3>1, <4>1
    <3>2. CASE ~(j <= k - 1)
      <4>1. /\ j - (k - 1) \in 1 .. Len(s) - k /\ (j - (k - 1)) + k = j + 1
            /\ d[j] = j + 1
        BY <2>1, <2>4, <3>2
      <4>. QED BY <2>6, <2>7, <3>2, <4>1
    <3>. QED BY <3>1, <3>2
  <2> HIDE DEF d, r
  <2>11. SinRepetir(r)
    BY <2>4, <2>7, <2>8, <2>9, <2>10 DEF SinRepetir
  <2>12. \A q : Figura(q, r) => Figura(q, s) /\ q # p
    BY <2>1, <2>4, <2>7, <2>8, <2>10 DEF SinRepetir, Figura
  <2>. QED BY <1>0, <2>2, <2>11, <2>12 DEF r
<1>. QED BY <1>1, <1>2

-----------------------------------------------------------------------------
(* The queues.                                                             *)

\* What UnaSolaCola says, queue by queue.
LEMMA UnaSolaPorPartes ==
    ASSUME NEW c, \A e \in Estados : SinRepetir(c[e])
    PROVE  (\A q : \A e, f \in Estados : Figura(q, c[e]) /\ Figura(q, c[f]) => e = f)
             <=> \A e, f \in Estados : \A i \in DOMAIN c[e], j \in DOMAIN c[f] :
                    c[e][i] = c[f][j] => e = f /\ i = j
BY DEF SinRepetir, Figura

\* One queue at most, and no repetitions in it.
LEMMA UnaSolaColaPartes ==
    UnaSolaCola <=> /\ \A e \in Estados : SinRepetir(cola[e])
                    /\ \A q : \A e, f \in Estados : Esta(q, e) /\ Esta(q, f) => e = f
<1>1. UnaSolaCola => /\ \A e \in Estados : SinRepetir(cola[e])
                     /\ \A q : \A e, f \in Estados : Esta(q, e) /\ Esta(q, f) => e = f
  BY DEF UnaSolaCola, SinRepetir, Esta
<1>. QED BY <1>1, UnaSolaPorPartes DEF UnaSolaCola, Esta, Figura

\* After a step p is in the queues of T and nobody else moved.
QuedaEn(p, T) == \A q : \A e \in Estados : Esta(q, e)' <=> IF q = p THEN e \in T ELSE Esta(q, e)

\* If p is in one queue at most and no queue repeats processes, the invariant stays.
LEMMA SigueUnaSola ==
    ASSUME UnaSolaCola, NEW p, NEW f \in Estados, NEW T \in {{}, {f}}, QuedaEn(p, T),
           \A e \in Estados : SinRepetir(cola'[e])
    PROVE  UnaSolaCola'
<1>1. \A q : \A e, g \in Estados : Esta(q, e) /\ Esta(q, g) => e = g
  BY UnaSolaColaPartes
<1>2. \A q : \A e, g \in Estados : Esta(q, e)' /\ Esta(q, g)' => e = g
  BY <1>1 DEF QuedaEn
<1>3. \A q : \A e, g \in Estados : Figura(q, cola'[e]) /\ Figura(q, cola'[g]) => e = g
  BY <1>2 DEF Esta, Figura
<1>4. \A e, g \in Estados : \A i \in DOMAIN cola'[e], j \in DOMAIN cola'[g] :
          cola'[e][i] = cola'[g][j] => e = g /\ i = j
  BY <1>3, UnaSolaPorPartes
<1>. QED BY <1>4 DEF UnaSolaCola

\* QuedaEn, sequence by sequence.
LEMMA QuedaEnFigura ==
    ASSUME NEW p, NEW T,
           \A q : \A e \in Estados :
              Figura(q, cola'[e]) <=> IF q = p THEN e \in T ELSE Figura(q, cola[e])
    PROVE  QuedaEn(p, T)
BY DEF QuedaEn, Esta, Figura

LEMMA ColaEntra ==
    ASSUME cola \in Colas, UnaSolaCola, NEW f \in Estados, NEW p \in Procs, ~EnAlguna(p),
           cola' = [cola EXCEPT ![f] = Append(@, p)]
    PROVE  UnaSolaCola' /\ QuedaEn(p, {f})
<1>1. /\ \A e \in Estados : SinRepetir(cola[e])
      /\ \A e \in Estados : ~Figura(p, cola[e])
  BY UnaSolaColaPartes, EstaFigura DEF EnAlguna
<1>2. /\ cola[f] \in Seq(Procs) /\ cola'[f] = Append(cola[f], p)
      /\ \A g \in Estados \ {f} : cola'[g] = cola[g]
  BY DEF Colas
<1>3. SinRepetir(cola'[f]) /\ \A q : Figura(q, cola'[f]) <=> Figura(q, cola[f]) \/ q = p
  BY <1>1, <1>2, AgregarSinRepetir
<1>4. \A e \in Estados : SinRepetir(cola'[e])
  BY <1>1, <1>2, <1>3
<1>5. \A q : \A e \in Estados : Figura(q, cola'[e]) <=> IF q = p THEN e \in {f} ELSE Figura(q, cola[e])
  BY <1>1, <1>2, <1>3
<1>6. QuedaEn(p, {f})
  BY <1>5, QuedaEnFigura
<1>. QED BY <1>4, <1>6, SigueUnaSola

LEMMA ColaSale ==
    ASSUME cola \in Colas, UnaSolaCola, NEW e \in Estados, NEW p, Esta(p, e),
           cola' = Sacar(p, e)
    PROVE  UnaSolaCola' /\ QuedaEn(p, {})
<1>1. /\ \A g \in Estados : SinRepetir(cola[g])
      /\ \A g \in Estados : Figura(p, cola[g]) => g = e
  BY UnaSolaColaPartes, EstaFigura
<1>2. /\ cola[e] \in Seq(Procs) /\ cola'[e] = Quitar(cola[e], p)
      /\ \A g \in Estados \ {e} : cola'[g] = cola[g]
  BY DEF Colas, Sacar
<1>3. SinRepetir(cola'[e]) /\ \A q : Figura(q, cola'[e]) <=> Figura(q, cola[e]) /\ q # p
  BY <1>1, <1>2, QuitarSinRepetir
<1>4. \A g \in Estados : SinRepetir(cola'[g])
  BY <1>1, <1>2, <1>3
<1>5. \A q : \A g \in Estados : Figura(q, cola'[g]) <=> IF q = p THEN g \in {} ELSE Figura(q, cola[g])
  BY <1>1, <1>2, <1>3
<1>6. QuedaEn(p, {})
  BY <1>5, QuedaEnFigura
<1>. QED BY <1>4, <1>6, SigueUnaSola

LEMMA ColaPasa ==
    ASSUME cola \in Colas, UnaSolaCola, NEW e \in Estados, NEW f \in Estados, e # f,
           NEW p \in Procs, Esta(p, e), cola' = Mover(p, e, f)
    PROVE  UnaSolaCola' /\ QuedaEn(p, {f})
<1>1. /\ \A g \in Estados : SinRepetir(cola[g])
      /\ \A g \in Estados : Figura(p, cola[g]) => g = e
  BY UnaSolaColaPartes, EstaFigura
<1>2. /\ cola[e] \in Seq(Procs) /\ cola'[e] = Quitar(cola[e], p)
      /\ cola[f] \in Seq(Procs) /\ cola'[f] = Append(cola[f], p)
      /\ \A g \in Estados \ {e, f} : cola'[g] = cola[g]
  BY DEF Colas, Mover
<1>3. SinRepetir(cola'[e]) /\ \A q : Figura(q, cola'[e]) <=> Figura(q, cola[e]) /\ q # p
  BY <1>1, <1>2, QuitarSinRepetir
<1>4. SinRepetir(cola'[f]) /\ \A q : Figura(q, cola'[f]) <=> Figura(q, cola[f]) \/ q = p
  BY <1>1, <1>2, AgregarSinRepetir
<1>5. \A g \in Estados : SinRepetir(cola'[g])
  BY <1>1, <1>2, <1>3, <1>4
<1>6. \A q : \A g \in Estados : Figura(q, cola'[g]) <=> IF q = p THEN g \in {f} ELSE Figura(q, cola[g])
  BY <1>1, <1>2, <1>3, <1>4
<1>7. QuedaEn(p, {f})
  BY <1>6, QuedaEnFigura
<1>. QED BY <1>5, <1>7, SigueUnaSola

LEMMA ColaSalePrimero ==
    ASSUME cola \in Colas, UnaSolaCola, NEW e \in Estados, cola[e] # <<>>,
           cola' = [cola EXCEPT ![e] = Tail(@)]
    PROVE  /\ UnaSolaCola' /\ QuedaEn(Head(cola[e]), {})
           /\ Head(cola[e]) \in Procs /\ Esta(Head(cola[e]), e)
<1> DEFINE p == Head(cola[e])
<1>1. /\ cola[e] \in Seq(Procs) /\ cola'[e] = Tail(cola[e])
      /\ \A g \in Estados \ {e} : cola'[g] = cola[g]
  BY DEF Colas
<1>2. \A g \in Estados : SinRepetir(cola[g])
  BY UnaSolaColaPartes
<1>3. /\ SinRepetir(cola'[e]) /\ \A q : Figura(q, cola'[e]) <=> Figura(q, cola[e]) /\ q # p
      /\ p \in Procs /\ Figura(p, cola[e])
  BY <1>1, <1>2, TailSinRepetir
<1> HIDE DEF p
<1>4. \A g \in Estados : Figura(p, cola[g]) => g = e
  BY <1>3, UnaSolaColaPartes, EstaFigura
<1>5. \A g \in Estados : SinRepetir(cola'[g])
  BY <1>1, <1>2, <1>3
<1>6. \A q : \A g \in Estados : Figura(q, cola'[g]) <=> IF q = p THEN g \in {} ELSE Figura(q, cola[g])
  BY <1>1, <1>3, <1>4
<1>7. QuedaEn(p, {})
  BY <1>6 DEF QuedaEn, Esta, Figura
<1>8. UnaSolaCola'
  BY <1>5, <1>7, SigueUnaSola
<1>. QED BY <1>3, <1>7, <1>8, EstaFigura DEF p

LEMMA ColaPasaPrimero ==
    ASSUME cola \in Colas, UnaSolaCola, NEW e \in Estados, NEW f \in Estados, e # f,
           cola[e] # <<>>, cola' = MoverPrimero(e, f)
    PROVE  /\ UnaSolaCola' /\ QuedaEn(Head(cola[e]), {f})
           /\ Head(cola[e]) \in Procs /\ Esta(Head(cola[e]), e)
<1> DEFINE p == Head(cola[e])
<1>1. /\ cola[e] \in Seq(Procs) /\ cola'[e] = Tail(cola[e])
      /\ cola[f] \in Seq(Procs) /\ cola'[f] = Append(cola[f], p)
      /\ \A g \in Estados \ {e, f} : cola'[g] = cola[g]
  BY DEF Colas, MoverPrimero
<1>2. \A g \in Estados : SinRepetir(cola[g])
  BY UnaSolaColaPartes
<1>3. /\ SinRepetir(cola'[e]) /\ \A q : Figura(q, cola'[e]) <=> Figura(q, cola[e]) /\ q # p
      /\ p \in Procs /\ Figura(p, cola[e])
  BY <1>1, <1>2, TailSinRepetir
<1> HIDE DEF p
<1>4. \A g \in Estados : Figura(p, cola[g]) => g = e
  BY <1>3, UnaSolaColaPartes, EstaFigura
<1>5. SinRepetir(cola'[f]) /\ \A q : Figura(q, cola'[f]) <=> Figura(q, cola[f]) \/ q = p
  BY <1>1, <1>2, <1>3, <1>4, AgregarSinRepetir
<1>6. \A g \in Estados : SinRepetir(cola'[g])
  BY <1>1, <1>2, <1>3, <1>5
<1>7. \A q : \A g \in Estados : Figura(q, cola'[g]) <=> IF q = p THEN g \in {f} ELSE Figura(q, cola[g])
  BY <1>1, <1>3, <1>4, <1>5
<1>8. QuedaEn(p, {f})
  BY <1>7, QuedaEnFigura
<1>9. UnaSolaCola'
  BY <1>6, <1>8, SigueUnaSola
<1>. QED BY <1>3, <1>8, <1>9, EstaFigura DEF p

-----------------------------------------------------------------------------
(* Where a process is.                                                     *)

\* The timers of p that are past their sleep, and whether p is being suspended.
Vence(p) == TimersDe(p, {"compara", "visto", "sacado"})
Sacado(p) == TimersDe(p, {"sacado"})
Suspende(p) == Vence(p) \/ flag[p] \/ mediano.proc = p

\* A timer, or the planner it woke, holds p or is about to.
Llevado(p) == TimersDe(p, {"visto", "sacado"}) \/ flag[p] \/ mediano.proc = p

\* A timer that may still suspend p.
Vigente(p, k) ==
    \/ timer[p][k].pc \in {"nace", "compara", "visto", "sacado"}
    \/ timer[p][k].pc = "duerme" /\ timer[p][k].inicial = veces[p]

\* p waits for a device, or for the end of its burst.
Bloqueado(p) == Esta(p, "BLOCKED") \/ Esta(p, "SUSP_BLOCKED") \/ Sacado(p)

\* medianoFifo took p out of SUSP_READY and has not put it in READY yet.
Admite(p) == medianoFifo.pc = "admite" /\ medianoFifo.proc = p

SinDispositivo(p) == \A i \in Ios : io[i].proc # p
SinHilo(p) == \A h \in Hilos : hilo[h].proc # p

PcsEnExec == {"ejecuta", "ioLiberada", "ioBloquea", "ioFinaliza"}
PcsEnExit == {"intenta", "termina"}
PcsAReady == {"aReady", "aSuspReady"}
PcsAlFinal == {"enBlocked", "enSusp"} \cup PcsAReady
PcsConProceso == {"trabaja"} \cup PcsAlFinal

\* The execution thread of p is alone, and p is in the queue that its pc says.
\* A process about to enter BLOCKED carries a name and no timer looks at it.
HiloBien(p) ==
    /\ \A h \in Hilos : hilo[h].proc = p =>
         /\ hilo[h].pc \in PcsEnExec => Esta(p, "EXEC")
         /\ hilo[h].pc \in PcsEnExit => Esta(p, "EXIT_ESTADO")
         /\ hilo[h].pc = "ioBloquea" => nombreIo[p] # Basura /\ (Separada => \A k \in Veces : ~Vigente(p, k))
    /\ \A h, g \in Hilos : hilo[h].proc = p /\ hilo[g].proc = p => h = g

\* The same of its device.  A process that a device has carries no name another
\* one could look for, and nobody suspends it once its burst ended.
IoBien(p) ==
    /\ \A i \in Ios : io[i].proc = p =>
         /\ io[i].pc = "trabaja" => Bloqueado(p)
         /\ io[i].pc = "enBlocked" => Esta(p, "BLOCKED")
         /\ io[i].pc = "enSusp" => Esta(p, "SUSP_BLOCKED")
         /\ io[i].pc \in PcsAReady => ~EnAlguna(p)
         /\ io[i].pc \in PcsAlFinal => ~Suspende(p)
         /\ nombreIo[p] \in {Vacio, Nulo}
    /\ \A i, j \in Ios : io[i].proc = p /\ io[j].proc = p => i = j

\* Of the timers that may suspend p there is one at most, and while it carries
\* p from BLOCKED to SUSP_BLOCKED p is flagged.
TimerBien(p) ==
    /\ Suspende(p) => Separada
    /\ \A k \in Veces :
         /\ timer[p][k].pc = "visto" => Esta(p, "BLOCKED")
         /\ timer[p][k].pc = "sacado" => flag[p] /\ ~EnAlguna(p)
         /\ timer[p][k].pc = "duerme" => timer[p][k].inicial <= veces[p]
    /\ Separada => \A k, l \in Veces : Vigente(p, k) /\ Vigente(p, l) => k = l

\* What the medium term planners hold, and a process in BLOCKED has a name.
PlanBien(p) ==
    /\ flag[p] => Sacado(p) \/ Esta(p, "SUSP_BLOCKED")
    /\ mediano.proc = p => Esta(p, "SUSP_BLOCKED") /\ ~flag[p]
    /\ Admite(p) => ~EnAlguna(p) /\ ~Sacado(p) /\ SinDispositivo(p)
    /\ Bloqueado(p) => nombreIo[p] # Basura

\* A pcb that is not in use is nowhere.  Timers may be left to look at a freed
\* one; they do not find it.
AusenteBien(p) ==
    vivo[p] # "vivo" =>
        ~EnAlguna(p) /\ ~Llevado(p) /\ ~Admite(p) /\ SinHilo(p) /\ SinDispositivo(p)

LugarBien(p) == HiloBien(p) /\ IoBien(p) /\ TimerBien(p) /\ PlanBien(p) /\ AusenteBien(p)

\* A thread with nothing to do holds no process.
Ociosos ==
    /\ \A h \in Hilos : /\ hilo[h].pc \in {"libre"} \cup PcsEnExec \cup PcsEnExit
                        /\ hilo[h].pc = "libre" => hilo[h].proc = Nadie
    /\ \A i \in Ios : io[i].pc \notin PcsConProceso => io[i].proc = Nadie
    /\ mediano.pc = "duerme" => mediano.proc = Nadie

Lugares == UnaSolaCola /\ Ociosos /\ \A p \in Procs : LugarBien(p)

-----------------------------------------------------------------------------
(* A step changes the place of one process at most.                        *)

\* Nothing of what LugarBien(q) says changes.
Quieto(q) ==
    /\ \A e \in Estados : Esta(q, e)' <=> Esta(q, e)
    /\ \A h \in Hilos : hilo'[h] = hilo[h] \/ (hilo[h].proc # q /\ hilo'[h].proc # q)
    /\ \A i \in Ios : io'[i] = io[i] \/ (io[i].proc # q /\ io'[i].proc # q)
    /\ timer'[q] = timer[q] /\ nombreIo'[q] = nombreIo[q] /\ veces'[q] = veces[q]
    /\ flag'[q] = flag[q] /\ vivo'[q] = vivo[q]
    /\ mediano'.proc = q <=> mediano.proc = q
    /\ Admite(q)' <=> Admite(q)

LEMMA LugarQuieto ==
    ASSUME NEW q \in Procs, LugarBien(q), Quieto(q)
    PROVE  LugarBien(q)'
<1>e. {"EXEC", "EXIT_ESTADO", "BLOCKED", "SUSP_BLOCKED"} \subseteq Estados
  BY DEF Estados
<1>1. /\ EnAlguna(q)' <=> EnAlguna(q)
      /\ Sacado(q)' <=> Sacado(q)
      /\ Suspende(q)' <=> Suspende(q)
      /\ \A k \in Veces : Vigente(q, k)' <=> Vigente(q, k)
      /\ Llevado(q)' <=> Llevado(q)
  BY DEF Quieto, EnAlguna, Sacado, Suspende, Vence, TimersDe, Vigente, Llevado
<1>2. /\ Bloqueado(q)' <=> Bloqueado(q)
      /\ SinDispositivo(q)' <=> SinDispositivo(q)
      /\ SinHilo(q)' <=> SinHilo(q)
  BY <1>1, <1>e DEF Quieto, Bloqueado, SinDispositivo, SinHilo
<1>3. HiloBien(q)'
  BY <1>1, <1>e DEF Quieto, LugarBien, HiloBien, Separada
<1>4. IoBien(q)'
  BY <1>1, <1>2, <1>e DEF Quieto, LugarBien, IoBien
<1>5. TimerBien(q)'
  BY <1>1, <1>e DEF Quieto, LugarBien, TimerBien, Separada
<1>6. PlanBien(q)'
  BY <1>1, <1>2, <1>e DEF Quieto, LugarBien, PlanBien
<1>7. AusenteBien(q)'
  BY <1>1, <1>2 DEF Quieto, LugarBien, AusenteBien
<1>. QED BY <1>3, <1>4, <1>5, <1>6, <1>7 DEF LugarBien

\* Where a process cannot be at the same time.
LEMMA Exclusion ==
    ASSUME Lugares, NEW p \in Procs
    PROVE  /\ \A e, f \in Estados : Esta(p, e) /\ Esta(p, f) => e = f
           /\ EnAlguna(p) => /\ vivo[p] = "vivo" /\ ~Sacado(p) /\ ~Admite(p)
                             /\ \A i \in Ios : io[i].proc = p => io[i].pc \in {"trabaja", "enBlocked", "enSusp"}
           /\ ~Bloqueado(p) =>
                /\ ~flag[p] /\ mediano.proc # p
                /\ \A k \in Veces : timer[p][k].pc # "visto"
           /\ ~Bloqueado(p) /\ EnAlguna(p) => SinDispositivo(p)
           /\ \A h \in Hilos : hilo[h].proc = p => Esta(p, "EXEC") \/ Esta(p, "EXIT_ESTADO")
<1>0. LugarBien(p) /\ p # Nadie
  BY ConstantesAssumption DEF Lugares
<1>1. \A e, f \in Estados : Esta(p, e) /\ Esta(p, f) => e = f
  BY UnaSolaColaPartes DEF Lugares
<1>2. EnAlguna(p) => vivo[p] = "vivo" /\ ~Sacado(p) /\ ~Admite(p)
  BY <1>0 DEF LugarBien, AusenteBien, TimerBien, PlanBien, Sacado, TimersDe
<1>3. \A i \in Ios : io[i].proc = p => io[i].pc \in PcsConProceso
  BY <1>0 DEF Lugares, Ociosos
<1>4. EnAlguna(p) => \A i \in Ios : io[i].proc = p => io[i].pc \in {"trabaja", "enBlocked", "enSusp"}
  BY <1>0, <1>3 DEF LugarBien, IoBien, PcsConProceso, PcsAlFinal, PcsAReady
<1>5. ~Bloqueado(p) => /\ ~flag[p] /\ mediano.proc # p
                       /\ \A k \in Veces : timer[p][k].pc # "visto"
  BY <1>0 DEF LugarBien, PlanBien, TimerBien, Bloqueado
<1>6. ~Bloqueado(p) /\ EnAlguna(p) => SinDispositivo(p)
  BY <1>0, <1>4 DEF LugarBien, IoBien, Bloqueado, SinDispositivo
<1>7. \A h \in Hilos : hilo[h].proc = p => Esta(p, "EXEC") \/ Esta(p, "EXIT_ESTADO")
  BY <1>0 DEF Lugares, Ociosos, LugarBien, HiloBien
<1>. QED BY <1>1, <1>2, <1>4, <1>5, <1>6, <1>7

\* A step that keeps p away from BLOCKED, devices and suspensions.
LEMMA LugarSuelto ==
    ASSUME NEW p \in Procs, LugarBien(p), timer'[p] = timer[p], veces'[p] = veces[p],
           \A k \in Veces : timer[p][k].pc # "visto", ~Sacado(p),
           SinDispositivo(p)', ~flag'[p], mediano'.proc # p,
           ~Esta(p, "BLOCKED")', ~Esta(p, "SUSP_BLOCKED")',
           Admite(p)' => ~EnAlguna(p)',
           HiloBien(p)', AusenteBien(p)'
    PROVE  LugarBien(p)'
<1>1. /\ Sacado(p)' <=> Sacado(p)
      /\ Vence(p)' <=> Vence(p)
      /\ \A k \in Veces : Vigente(p, k)' <=> Vigente(p, k)
  BY DEF Sacado, Vence, TimersDe, Vigente
<1>2. ~Bloqueado(p)' /\ (Suspende(p)' => Suspende(p))
  BY <1>1 DEF Bloqueado, Suspende
<1>3. IoBien(p)'
  BY DEF IoBien, SinDispositivo
<1>4. TimerBien(p)'
  BY <1>1, <1>2 DEF LugarBien, TimerBien, Separada, Sacado, TimersDe
<1>5. PlanBien(p)'
  BY <1>1, <1>2 DEF PlanBien
<1>. QED BY <1>3, <1>4, <1>5 DEF LugarBien

\* p is the one process that moves, and T holds the queue it is in.
Mueve(p, T) == QuedaEn(p, T) /\ \A q \in Procs : q # p => Quieto(q)

LEMMA CambiaUno ==
    ASSUME Lugares, NEW p \in Procs, UnaSolaCola', Ociosos', LugarBien(p)',
           \A q \in Procs : q # p => Quieto(q)
    PROVE  Lugares'
<1>1. \A q \in Procs : q # p => LugarBien(q)'
  BY LugarQuieto DEF Lugares
<1>. QED BY <1>1 DEF Lugares

LEMMA CambiaNinguno ==
    ASSUME Lugares, UnaSolaCola', Ociosos', \A q \in Procs : Quieto(q)
    PROVE  Lugares'
BY LugarQuieto DEF Lugares

LEMMA ColaQuieta ==
    ASSUME UnaSolaCola, cola' = cola
    PROVE  UnaSolaCola' /\ \A q : \A e \in Estados : Esta(q, e)' <=> Esta(q, e)
BY DEF UnaSolaCola, Esta

\* The steps of the planners, the connections and the scheduler's death that
\* leave every process where it is.
PasoQuieto ==
    \/ LargoDespierta \/ LargoEsperaVacia \/ LargoAceptado \/ LargoRechazado
    \/ MedianoFifoDespierta \/ MedianoFifoAceptado \/ MedianoFifoRechazado \/ MedianoFifoAvisa
    \/ MedianoEnvia \/ UsoTrasLiberar \/ UNCHANGED vars
    \/ \E c \in Cpus : ConectarCpu(c)
    \/ \E i \in Ios : ConectarIo(i) \/ RegistrarIo(i)

LEMMA PasoQuietoLugares ==
    ASSUME IInv, Lugares, PasoQuieto
    PROVE  Lugares'
<1>. USE DEF planif, disposi, pcbs
<1>t. /\ io \in [Ios -> TipoIo]
      /\ medianoFifo \in [pc : {"duerme", "consulta", "saca", "admite", "avisa"}, proc : Procs \cup {Nadie}]
      /\ mediano \in [pc : {"duerme", "envia", "intenta"}, proc : Procs \cup {Nadie}]
  BY DEF IInv, TypeOK
<1>n. \A q \in Procs : q # Nadie
  BY ConstantesAssumption
<1>1. UNCHANGED <<cola, hilo, timer, nombreIo, veces, flag, vivo>>
  BY DEF PasoQuieto, LargoDespierta, LargoEsperaVacia, LargoAceptado, LargoRechazado,
         MedianoFifoDespierta, MedianoFifoAceptado, MedianoFifoRechazado, MedianoFifoAvisa,
         MedianoEnvia, UsoTrasLiberar, ConectarCpu, ConectarIo, RegistrarIo, vars
<1>2. mediano'.proc = mediano.proc /\ (mediano'.pc = "duerme" => mediano.pc = "duerme")
  <2>1. CASE MedianoEnvia
    BY <1>t, <2>1 DEF MedianoEnvia
  <2>. QED BY <2>1 DEF PasoQuieto, LargoDespierta, LargoEsperaVacia, LargoAceptado, LargoRechazado,
         MedianoFifoDespierta, MedianoFifoAceptado, MedianoFifoRechazado, MedianoFifoAvisa,
         UsoTrasLiberar, ConectarCpu, ConectarIo, RegistrarIo, vars
<1>3. medianoFifo' = medianoFifo \/ (medianoFifo.pc # "admite" /\ medianoFifo'.pc # "admite")
  <2>1. CASE MedianoFifoDespierta \/ MedianoFifoAceptado \/ MedianoFifoRechazado \/ MedianoFifoAvisa
    BY <1>t, <2>1 DEF MedianoFifoDespierta, MedianoFifoAceptado, MedianoFifoRechazado, MedianoFifoAvisa
  <2>. QED BY <2>1 DEF PasoQuieto, LargoDespierta, LargoEsperaVacia, LargoAceptado, LargoRechazado,
         MedianoEnvia, UsoTrasLiberar, ConectarCpu, ConectarIo, RegistrarIo, vars
<1>4. \A i \in Ios : \/ io'[i] = io[i]
                     \/ io[i].proc = Nadie /\ io'[i].proc = Nadie
  <2>1. ASSUME NEW i \in Ios, ConectarIo(i) \/ RegistrarIo(i)
        PROVE  \A j \in Ios : io'[j] = io[j] \/ (io[j].proc = Nadie /\ io'[j].proc = Nadie)
    <3>1. io[i].pc \in {"ausente", "registra"}
      BY <2>1 DEF ConectarIo, RegistrarIo
    <3>2. io[i].proc = Nadie
      BY <3>1 DEF Lugares, Ociosos, PcsConProceso, PcsAlFinal, PcsAReady
    <3>3. io'[i].proc = io[i].proc /\ \A j \in Ios \ {i} : io'[j] = io[j]
      BY <2>1, <1>t DEF ConectarIo, RegistrarIo, TipoIo
    <3>. QED BY <3>2, <3>3
  <2>. QED BY <2>1 DEF PasoQuieto, LargoDespierta, LargoEsperaVacia, LargoAceptado, LargoRechazado,
         MedianoFifoDespierta, MedianoFifoAceptado, MedianoFifoRechazado, MedianoFifoAvisa,
         MedianoEnvia, UsoTrasLiberar, ConectarCpu, vars
<1>5. \A q \in Procs : Admite(q)' <=> Admite(q)
  BY <1>3 DEF Admite
<1>6. UnaSolaCola' /\ \A q : \A e \in Estados : Esta(q, e)' <=> Esta(q, e)
  BY <1>1, ColaQuieta DEF Lugares
<1>7. \A q \in Procs : Quieto(q)
  BY <1>1, <1>2, <1>4, <1>5, <1>6, <1>n DEF Quieto
<1>8. Ociosos'
  BY <1>1, <1>2, <1>4 DEF Lugares, Ociosos
<1>. QED BY <1>6, <1>7, <1>8, CambiaNinguno

-----------------------------------------------------------------------------
(* The planners that move a process.                                       *)

LEMMA LargoAdmiteLugares ==
    ASSUME IInv, Lugares, LargoAdmite
    PROVE  Lugares' /\ Mueve(Head(cola["NEW"]), {"READY"})
<1>. USE DEF planif, disposi, pcbs
<1>e. {"NEW", "READY", "EXEC", "EXIT_ESTADO", "BLOCKED", "SUSP_BLOCKED"} \subseteq Estados
  BY DEF Estados
<1>1. /\ UNCHANGED <<hilo, timer, io, nombreIo, veces, flag, vivo, mediano, medianoFifo>>
      /\ cola' = MoverPrimero("NEW", "READY") /\ largo # "duerme"
  BY DEF LargoAdmite
<1>2. PICK p \in Procs : /\ UnaSolaCola' /\ QuedaEn(p, {"READY"}) /\ Esta(p, "NEW")
                         /\ p = Head(cola["NEW"])
  BY <1>1, <1>e, ColasVacias, ColaPasaPrimero DEF Lugares
<1>3. /\ LugarBien(p) /\ SinHilo(p) /\ SinDispositivo(p) /\ ~Sacado(p) /\ ~flag[p] /\ mediano.proc # p
      /\ ~Admite(p) /\ vivo[p] = "vivo"
      /\ \A k \in Veces : timer[p][k].pc # "visto"
  BY <1>2, <1>e, Exclusion DEF Lugares, SinHilo, Bloqueado, EnAlguna
<1>4. ~Esta(p, "BLOCKED")' /\ ~Esta(p, "SUSP_BLOCKED")'
  BY <1>2, <1>e DEF QuedaEn
<1>5. HiloBien(p)' /\ AusenteBien(p)' /\ SinDispositivo(p)' /\ ~Admite(p)'
  BY <1>1, <1>3 DEF HiloBien, AusenteBien, SinHilo, SinDispositivo, Admite
<1>6. LugarBien(p)'
  BY <1>1, <1>2, <1>3, <1>4, <1>5, LugarSuelto
<1>7. Ociosos'
  BY <1>1 DEF Lugares, Ociosos
<1>8. \A q \in Procs : q # p => Quieto(q)
  BY <1>1, <1>2 DEF Quieto, QuedaEn, Admite
<1>. QED BY <1>2, <1>6, <1>7, <1>8, CambiaUno DEF Mueve

LEMMA MedianoFifoLugares ==
    ASSUME IInv, CabezaRetenida, Lugares, MedianoFifoSaca \/ MedianoFifoAdmite
    PROVE  /\ Lugares'
           /\ MedianoFifoSaca => Mueve(Head(cola["SUSP_READY"]), {})
           /\ MedianoFifoAdmite => Mueve(medianoFifo.proc, {"READY"})
<1>. USE DEF planif, disposi, pcbs
<1>e. {"NEW", "READY", "EXEC", "EXIT_ESTADO", "BLOCKED", "SUSP_BLOCKED", "SUSP_READY"} \subseteq Estados
  BY DEF Estados
<1>t. cola \in Colas
  BY ColasVacias
<1>1. UNCHANGED <<hilo, timer, io, nombreIo, veces, flag, vivo, mediano>>
  BY DEF MedianoFifoSaca, MedianoFifoAdmite
<1>2. Ociosos'
  BY <1>1 DEF Lugares, Ociosos
<1>3. CASE MedianoFifoSaca
  <2>0. /\ cola' = [cola EXCEPT !["SUSP_READY"] = Tail(@)] /\ cola["SUSP_READY"] # <<>>
        /\ medianoFifo.pc = "saca" /\ medianoFifo' = [pc |-> "admite", proc |-> Head(cola["SUSP_READY"])]
    BY <1>3 DEF MedianoFifoSaca, CabezaRetenida
  <2>2. PICK p \in Procs : /\ UnaSolaCola' /\ QuedaEn(p, {}) /\ Esta(p, "SUSP_READY")
                           /\ p = Head(cola["SUSP_READY"])
    BY <1>e, <1>t, <2>0, ColaSalePrimero DEF Lugares
  <2>1. medianoFifo.pc = "saca" /\ medianoFifo' = [pc |-> "admite", proc |-> p]
    BY <2>0, <2>2
  <2>3. /\ LugarBien(p) /\ SinHilo(p) /\ SinDispositivo(p) /\ ~Sacado(p) /\ ~flag[p] /\ mediano.proc # p
        /\ vivo[p] = "vivo"
        /\ \A k \in Veces : timer[p][k].pc # "visto"
    BY <2>2, <1>e, Exclusion DEF Lugares, SinHilo, Bloqueado, EnAlguna
  <2>4. ~EnAlguna(p)' /\ ~Esta(p, "BLOCKED")' /\ ~Esta(p, "SUSP_BLOCKED")'
    BY <2>2, <1>e DEF QuedaEn, EnAlguna
  <2>5. HiloBien(p)' /\ AusenteBien(p)' /\ SinDispositivo(p)'
    BY <1>1, <2>3 DEF HiloBien, AusenteBien, SinHilo, SinDispositivo
  <2>6. LugarBien(p)'
    BY <1>1, <2>2, <2>3, <2>4, <2>5, LugarSuelto
  <2>7. \A q \in Procs : q # p => (Admite(q)' <=> Admite(q))
    BY <2>1 DEF Admite
  <2>8. \A q \in Procs : q # p => Quieto(q)
    BY <1>1, <2>2, <2>7 DEF Quieto, QuedaEn
  <2>9. Lugares' /\ Mueve(p, {})
    BY <1>2, <2>2, <2>6, <2>8, CambiaUno DEF Mueve
  <2>. QED BY <1>3, <2>1, <2>2, <2>9 DEF MedianoFifoAdmite
<1>4. CASE MedianoFifoAdmite
  <2>0. medianoFifo.proc \in Procs /\ medianoFifo.pc = "admite"
    BY <1>4 DEF MedianoFifoAdmite, IInv, ConProceso
  <2>p. PICK p \in Procs : p = medianoFifo.proc
    BY <2>0
  <2>1. /\ cola' = [cola EXCEPT !["READY"] = Append(@, p)] /\ medianoFifo.pc = "admite"
        /\ medianoFifo' = [pc |-> "avisa", proc |-> Nadie]
    BY <1>4, <2>p DEF MedianoFifoAdmite
  <2>2. Admite(p)
    BY <2>1, <2>p DEF Admite
  <2>3. /\ LugarBien(p) /\ ~EnAlguna(p) /\ ~Sacado(p) /\ SinDispositivo(p) /\ vivo[p] = "vivo"
    BY <2>2 DEF Lugares, LugarBien, PlanBien, AusenteBien, IInv, TypeOK
  <2>4. UnaSolaCola' /\ QuedaEn(p, {"READY"})
    BY <1>e, <1>t, <2>1, <2>2, <2>3, ColaEntra DEF Lugares
  <2>5. /\ SinHilo(p) /\ ~flag[p] /\ mediano.proc # p
        /\ \A k \in Veces : timer[p][k].pc # "visto"
    BY <2>2, <2>3, <1>e, Exclusion DEF SinHilo, Bloqueado, EnAlguna
  <2>6. ~Esta(p, "BLOCKED")' /\ ~Esta(p, "SUSP_BLOCKED")'
    BY <2>4, <1>e DEF QuedaEn
  <2>7. HiloBien(p)' /\ AusenteBien(p)' /\ SinDispositivo(p)'
    BY <1>1, <2>3, <2>5 DEF HiloBien, AusenteBien, SinHilo, SinDispositivo
  <2>8. \A q : ~Admite(q)'
    BY <2>1 DEF Admite
  <2>9. LugarBien(p)'
    BY <1>1, <2>2, <2>3, <2>5, <2>6, <2>7, <2>8, LugarSuelto
  <2>10. \A q \in Procs : q # p => (Admite(q)' <=> Admite(q))
    BY <2>8, <2>p DEF Admite
  <2>11. \A q \in Procs : q # p => Quieto(q)
    BY <1>1, <2>4, <2>10 DEF Quieto, QuedaEn
  <2>12. Lugares' /\ Mueve(p, {"READY"})
    BY <1>2, <2>2, <2>4, <2>9, <2>11, CambiaUno DEF Mueve
  <2>. QED BY <1>4, <2>1, <2>p, <2>12 DEF MedianoFifoSaca
<1>. QED BY <1>3, <1>4

LEMMA MedianoLugares ==
    ASSUME IInv, Lugares, MedianoDespierta \/ MedianoIntenta
    PROVE  Lugares'
<1>. USE DEF planif, disposi, pcbs
<1>e. {"BLOCKED", "SUSP_BLOCKED"} \subseteq Estados
  BY DEF Estados
<1>n. \A q \in Procs : q # Nadie
  BY ConstantesAssumption
<1>t. /\ mediano \in [pc : {"duerme", "envia", "intenta"}, proc : Procs \cup {Nadie}]
      /\ flag \in [Procs -> BOOLEAN]
  BY DEF IInv, TypeOK
<1>1. UNCHANGED <<cola, hilo, timer, io, nombreIo, veces, vivo, medianoFifo>>
  BY DEF MedianoDespierta, MedianoIntenta
<1>2. UnaSolaCola' /\ \A q : \A e \in Estados : Esta(q, e)' <=> Esta(q, e)
  BY <1>1, ColaQuieta DEF Lugares
<1>3. /\ \A q : EnAlguna(q)' <=> EnAlguna(q)
      /\ \A q : Sacado(q)' <=> Sacado(q)
      /\ \A q : Vence(q)' <=> Vence(q)
      /\ \A q : Bloqueado(q)' <=> Bloqueado(q)
      /\ \A q : \A k : Vigente(q, k)' <=> Vigente(q, k)
      /\ \A q : Admite(q)' <=> Admite(q)
      /\ \A q : SinHilo(q)' <=> SinHilo(q)
      /\ \A q : SinDispositivo(q)' <=> SinDispositivo(q)
  BY <1>1, <1>2, <1>e DEF EnAlguna, Sacado, Vence, TimersDe, Bloqueado, Vigente, Admite, SinHilo, SinDispositivo
<1>4. CASE MedianoDespierta
  <2>1. mediano.pc = "duerme" /\ mediano.proc = Nadie
    BY <1>4 DEF MedianoDespierta, Lugares, Ociosos
  <2>2. CASE flag' = flag /\ mediano' = mediano
    <3>1. \A q \in Procs : Quieto(q)
      BY <1>1, <1>2, <1>3, <2>2 DEF Quieto
    <3>2. Ociosos'
      BY <1>1, <2>2 DEF Lugares, Ociosos
    <3>. QED BY <1>2, <3>1, <3>2, CambiaNinguno
  <2>3. ASSUME NEW p \in Procs, PrimeroASuspender(p),
               flag' = [flag EXCEPT ![p] = FALSE], mediano' = [pc |-> "envia", proc |-> p]
        PROVE  Lugares'
    <3>1. Esta(p, "SUSP_BLOCKED") /\ flag[p]
      BY <2>3 DEF PrimeroASuspender, Esta
    <3>2. LugarBien(p) /\ ~Sacado(p) /\ EnAlguna(p) /\ vivo[p] = "vivo"
      BY <3>1, <1>e, Exclusion DEF Lugares, EnAlguna
    <3>3. Suspende(p) /\ Suspende(p)' /\ Separada
      BY <3>1, <3>2, <2>3 DEF Suspende, LugarBien, TimerBien
    <3>4. ~flag'[p] /\ mediano'.proc = p /\ \A q \in Procs \ {p} : flag'[q] = flag[q]
      BY <2>3, <1>t
    <3>5. HiloBien(p)' /\ AusenteBien(p)'
      BY <1>1, <1>2, <1>3, <1>e, <3>2 DEF LugarBien, HiloBien, AusenteBien, Estados
    <3>6. IoBien(p)'
      BY <1>1, <1>2, <1>3, <1>e, <3>2, <3>3 DEF LugarBien, IoBien
    <3>7. TimerBien(p)'
      BY <1>1, <1>2, <1>3, <1>e, <3>2, <3>3 DEF LugarBien, TimerBien, Separada, Sacado, TimersDe
    <3>8. PlanBien(p)'
      BY <1>1, <1>2, <1>3, <1>e, <3>1, <3>2, <3>4 DEF LugarBien, PlanBien
    <3>9. LugarBien(p)'
      BY <3>5, <3>6, <3>7, <3>8 DEF LugarBien
    <3>10. Ociosos'
      BY <1>1, <2>3 DEF Lugares, Ociosos
    <3>11. \A q \in Procs : q # p => Quieto(q)
      BY <1>1, <1>2, <1>3, <1>n, <2>1, <3>4 DEF Quieto
    <3>. QED BY <1>2, <3>9, <3>10, <3>11, CambiaUno
  <2>. QED BY <1>4, <2>2, <2>3 DEF MedianoDespierta
<1>5. CASE MedianoIntenta
  <2>0. mediano.proc \in Procs
    BY <1>5 DEF MedianoIntenta, IInv, ConProceso
  <2>2. PICK p \in Procs : p = mediano.proc
    BY <2>0
  <2>1. mediano' = [pc |-> "duerme", proc |-> Nadie] /\ flag' = flag
    BY <1>5 DEF MedianoIntenta
  <2>3. LugarBien(p) /\ mediano'.proc # p
    BY <1>n, <2>1, <2>2 DEF Lugares
  <2>4. \A q \in Procs : q # p => (mediano'.proc = q <=> mediano.proc = q)
    BY <1>n, <2>1, <2>2
  <2>5. Suspende(p)' => Suspende(p)
    BY <1>3, <2>1, <2>3 DEF Suspende
  <2>6. HiloBien(p)'
    BY <1>1, <1>2, <1>3, <1>e, <2>3 DEF LugarBien, HiloBien, Estados
  <2>7. IoBien(p)'
    BY <1>1, <1>2, <1>3, <1>e, <2>3, <2>5 DEF LugarBien, IoBien
  <2>8. TimerBien(p)'
    BY <1>1, <1>2, <1>3, <1>e, <2>1, <2>3, <2>5 DEF LugarBien, TimerBien, Separada
  <2>9. PlanBien(p)'
    BY <1>1, <1>2, <1>3, <1>e, <2>1, <2>3 DEF LugarBien, PlanBien
  <2>10. AusenteBien(p)'
    <3>1. Llevado(p)' => Llevado(p)
      BY <1>1, <1>3, <2>1, <2>3 DEF Llevado, TimersDe
    <3>. QED BY <1>1, <1>3, <2>3, <3>1 DEF LugarBien, AusenteBien
  <2>11. LugarBien(p)'
    BY <2>6, <2>7, <2>8, <2>9, <2>10 DEF LugarBien
  <2>12. Ociosos'
    BY <1>1, <2>1 DEF Lugares, Ociosos
  <2>13. \A q \in Procs : q # p => Quieto(q)
    BY <1>1, <1>2, <1>3, <2>1, <2>4 DEF Quieto
  <2>. QED BY <1>2, <2>2, <2>11, <2>12, <2>13, CambiaUno
<1>. QED BY <1>4, <1>5

LEMMA DespacharLugares ==
    ASSUME IInv, Lugares, NEW c \in Cpus, Despachar(c)
    PROVE  Lugares' /\ Mueve(Head(cola["READY"]), {"EXEC"})
<1>. USE DEF planif, disposi, pcbs
<1>e. {"NEW", "READY", "EXEC", "EXIT_ESTADO", "BLOCKED", "SUSP_BLOCKED"} \subseteq Estados
  BY DEF Estados
<1>n. \A q \in Procs : q # Nadie
  BY ConstantesAssumption
<1>t. hilo \in [Hilos -> TipoHilo]
  BY DEF IInv, TypeOK
<1>1. /\ UNCHANGED <<timer, io, nombreIo, veces, flag, vivo, mediano, medianoFifo>>
      /\ cola' = MoverPrimero("READY", "EXEC") /\ sem["READY"] > 0
  BY DEF Despachar, Senales
<1>2. PICK p \in Procs : /\ UnaSolaCola' /\ QuedaEn(p, {"EXEC"}) /\ Esta(p, "READY")
                         /\ p = Head(cola["READY"])
  BY <1>1, <1>e, ColasVacias, ColaPasaPrimero DEF Lugares
<1>3. PICK h \in Hilos : /\ hilo[h].pc = "libre"
                         /\ hilo' = [hilo EXCEPT ![h] = [pc |-> "ejecuta", proc |-> p, cpu |-> c, motivo |-> "EXIT"]]
  BY <1>2 DEF Despachar, En
<1>4. /\ LugarBien(p) /\ SinHilo(p) /\ SinDispositivo(p) /\ ~Sacado(p) /\ ~flag[p] /\ mediano.proc # p
      /\ ~Admite(p) /\ vivo[p] = "vivo"
      /\ \A k \in Veces : timer[p][k].pc # "visto"
  BY <1>2, <1>e, Exclusion DEF Lugares, SinHilo, Bloqueado, EnAlguna
<1>5. Esta(p, "EXEC")' /\ ~Esta(p, "BLOCKED")' /\ ~Esta(p, "SUSP_BLOCKED")'
  BY <1>2, <1>e DEF QuedaEn
<1>6. /\ hilo'[h].pc = "ejecuta" /\ hilo'[h].proc = p
      /\ \A g \in Hilos \ {h} : hilo'[g] = hilo[g]
      /\ hilo[h].proc = Nadie
  BY <1>3, <1>t DEF Lugares, Ociosos
<1>7. \A g \in Hilos : hilo'[g].proc = p => g = h
  BY <1>4, <1>6 DEF SinHilo
<1>8. HiloBien(p)'
  BY <1>5, <1>6, <1>7 DEF HiloBien, PcsEnExit
<1>9. AusenteBien(p)' /\ SinDispositivo(p)' /\ ~Admite(p)'
  BY <1>1, <1>4 DEF AusenteBien, SinDispositivo, Admite
<1>10. LugarBien(p)'
  BY <1>1, <1>2, <1>4, <1>5, <1>8, <1>9, LugarSuelto
<1>11. Ociosos'
  BY <1>1, <1>6 DEF Lugares, Ociosos, PcsEnExec
<1>12. \A q \in Procs : q # p => Quieto(q)
  BY <1>1, <1>2, <1>6, <1>n DEF Quieto, QuedaEn, Admite
<1>. QED BY <1>2, <1>10, <1>11, <1>12, CambiaUno DEF Mueve

-----------------------------------------------------------------------------
(* The execution threads.                                                  *)

\* What is known of the process of a busy thread.
LEMMA DeHilo ==
    ASSUME IInv, Lugares, NEW h \in Hilos, hilo[h].pc # "libre", NEW p, p = hilo[h].proc
    PROVE  /\ p \in Procs /\ LugarBien(p) /\ SinDispositivo(p) /\ ~Sacado(p) /\ ~flag[p] /\ mediano.proc # p
           /\ ~Admite(p) /\ vivo[p] = "vivo" /\ ~Bloqueado(p) /\ EnAlguna(p)
           /\ \A k \in Veces : timer[p][k].pc # "visto"
           /\ \A g \in Hilos : hilo[g].proc = p => g = h
<1>e. {"EXEC", "EXIT_ESTADO", "BLOCKED", "SUSP_BLOCKED"} \subseteq Estados
  BY DEF Estados
<1>1. p \in Procs
  BY DEF IInv, ConProceso
<1>2. /\ LugarBien(p)
      /\ \A g \in Hilos : hilo[g].proc = p => g = h
  BY <1>1 DEF Lugares, LugarBien, HiloBien
<1>3. EnAlguna(p) /\ ~Bloqueado(p)
  BY <1>1, <1>e, Exclusion DEF EnAlguna, Bloqueado
<1>. QED BY <1>1, <1>2, <1>3, Exclusion

\* A thread that goes on with the same process, or leaves it.
LEMMA HiloSigue ==
    ASSUME IInv, Lugares, NEW h \in Hilos, hilo[h].pc # "libre", NEW p, p = hilo[h].proc,
           NEW T, QuedaEn(p, T), T \subseteq {"EXEC", "EXIT_ESTADO"},
           UNCHANGED <<io, flag, medianoFifo, mediano>>,
           \A g \in Hilos \ {h} : hilo'[g] = hilo[g],
           \/ hilo'[h].proc = Nadie /\ hilo'[h].pc = "libre"
           \/ /\ hilo'[h].proc = p
              /\ hilo'[h].pc \in PcsEnExec \cup PcsEnExit
              /\ hilo'[h].pc \in PcsEnExec => T = {"EXEC"}
              /\ hilo'[h].pc \in PcsEnExit => T = {"EXIT_ESTADO"}
              /\ hilo'[h].pc = "ioBloquea" =>
                   nombreIo'[p] # Basura /\ (Separada => \A k \in Veces : ~Vigente(p, k)')
    PROVE  /\ ~Esta(p, "BLOCKED")' /\ ~Esta(p, "SUSP_BLOCKED")'
           /\ HiloBien(p)' /\ SinDispositivo(p)' /\ ~Admite(p)' /\ Ociosos'
           /\ \A q \in Procs : timer'[q] = timer[q] /\ nombreIo'[q] = nombreIo[q] /\ veces'[q] = veces[q]
                               /\ vivo'[q] = vivo[q] /\ q # p => Quieto(q)
<1>e. {"EXEC", "EXIT_ESTADO", "BLOCKED", "SUSP_BLOCKED"} \subseteq Estados
  BY DEF Estados
<1>n. \A q \in Procs : q # Nadie
  BY ConstantesAssumption
<1>1. /\ p \in Procs /\ SinDispositivo(p) /\ ~Admite(p)
      /\ \A g \in Hilos : hilo[g].proc = p => g = h
  BY DeHilo
<1>2. /\ ~Esta(p, "BLOCKED")' /\ ~Esta(p, "SUSP_BLOCKED")'
      /\ "EXEC" \in T => Esta(p, "EXEC")'
      /\ "EXIT_ESTADO" \in T => Esta(p, "EXIT_ESTADO")'
  BY <1>e DEF QuedaEn
<1>3. \A g \in Hilos : hilo'[g].proc = p => g = h
  BY <1>1
<1>4. HiloBien(p)'
  <2>1. ASSUME NEW g \in Hilos, hilo'[g].proc = p
        PROVE  /\ hilo'[g].pc \in PcsEnExec => Esta(p, "EXEC")'
               /\ hilo'[g].pc \in PcsEnExit => Esta(p, "EXIT_ESTADO")'
               /\ hilo'[g].pc = "ioBloquea" =>
                    nombreIo'[p] # Basura /\ (Separada => \A k \in Veces : ~Vigente(p, k)')
    <3>1. g = h /\ hilo'[h].proc # Nadie
      BY <1>1, <1>3, <1>n, <2>1
    <3>. QED BY <1>2, <3>1
  <2>. QED BY <1>3, <2>1 DEF HiloBien, Separada
<1>5. SinDispositivo(p)' /\ ~Admite(p)'
  BY <1>1 DEF SinDispositivo, Admite
<1>6. Ociosos'
  BY DEF Lugares, Ociosos, PcsEnExec, PcsEnExit
<1>7. ASSUME NEW q \in Procs, timer'[q] = timer[q], nombreIo'[q] = nombreIo[q], veces'[q] = veces[q],
             vivo'[q] = vivo[q], q # p
      PROVE  Quieto(q)
  BY <1>7, <1>n DEF Quieto, QuedaEn, Admite
<1>. QED BY <1>2, <1>4, <1>5, <1>6, <1>7

LEMMA SeQuedaEn ==
    ASSUME UnaSolaCola, cola' = cola, NEW p, NEW e \in Estados, Esta(p, e)
    PROVE  QuedaEn(p, {e})
<1>1. \A f, g \in Estados : Esta(p, f) /\ Esta(p, g) => f = g
  BY UnaSolaColaPartes
<1>2. \A q : \A f \in Estados : Esta(q, f)' <=> Esta(q, f)
  BY ColaQuieta
<1>. QED BY <1>1, <1>2 DEF QuedaEn

\* The steps of a thread that change its pc and the queue of its process only.
LEMMA HiloCambia ==
    ASSUME IInv, Lugares, NEW h \in Hilos, hilo[h].pc # "libre", NEW p, p = hilo[h].proc,
           UnaSolaCola',
           NEW T, QuedaEn(p, T), T \subseteq {"EXEC", "EXIT_ESTADO"},
           UNCHANGED <<io, timer, nombreIo, veces, flag, vivo, medianoFifo, mediano>>,
           \A g \in Hilos \ {h} : hilo'[g] = hilo[g],
           hilo'[h].proc = p,
           hilo'[h].pc \in (PcsEnExec \ {"ioBloquea"}) \cup PcsEnExit,
           hilo'[h].pc \in PcsEnExec => T = {"EXEC"},
           hilo'[h].pc \in PcsEnExit => T = {"EXIT_ESTADO"}
    PROVE  Lugares' /\ Mueve(p, T)
<1>1. /\ p \in Procs /\ LugarBien(p) /\ SinDispositivo(p) /\ ~Sacado(p) /\ ~flag[p] /\ mediano.proc # p
      /\ ~Admite(p) /\ vivo[p] = "vivo"
      /\ \A k \in Veces : timer[p][k].pc # "visto"
  BY DeHilo
<1>2. /\ ~Esta(p, "BLOCKED")' /\ ~Esta(p, "SUSP_BLOCKED")'
      /\ HiloBien(p)' /\ SinDispositivo(p)' /\ ~Admite(p)' /\ Ociosos'
      /\ \A q \in Procs : q # p => Quieto(q)
  <2>1. hilo'[h].pc # "ioBloquea" /\ hilo'[h].pc \in PcsEnExec \cup PcsEnExit
    BY DEF PcsEnExit
  <2>. QED BY <2>1, HiloSigue
<1>3. AusenteBien(p)'
  BY <1>1 DEF AusenteBien
<1>4. LugarBien(p)'
  BY <1>1, <1>2, <1>3, LugarSuelto
<1>. QED BY <1>1, <1>2, <1>4, CambiaUno DEF Mueve

LEMMA SyscallInitProcLugares ==
    ASSUME IInv, Lugares, NEW h \in Hilos, NEW p \in Procs, SyscallInitProc(h, p)
    PROVE  Lugares' /\ Mueve(p, {"NEW"})
<1>. USE DEF planif, disposi, pcbs
<1>e. {"NEW", "BLOCKED", "SUSP_BLOCKED"} \subseteq Estados
  BY DEF Estados
<1>t. vivo \in [Procs -> {"sin crear", "vivo", "liberado"}]
  BY DEF IInv, TypeOK
<1>1. /\ UNCHANGED <<hilo, timer, io, nombreIo, veces, flag, mediano, medianoFifo>>
      /\ cola' = [cola EXCEPT !["NEW"] = Append(@, p)] /\ vivo[p] = "sin crear"
      /\ vivo' = [vivo EXCEPT ![p] = "vivo"]
  BY DEF SyscallInitProc
<1>2. /\ LugarBien(p) /\ ~EnAlguna(p) /\ ~Llevado(p) /\ ~Admite(p) /\ SinHilo(p) /\ SinDispositivo(p)
  BY <1>1 DEF Lugares, LugarBien, AusenteBien
<1>3. /\ ~flag[p] /\ mediano.proc # p /\ ~Sacado(p)
      /\ \A k \in Veces : timer[p][k].pc # "visto"
  BY <1>2 DEF Llevado, Sacado, TimersDe
<1>4. UnaSolaCola' /\ QuedaEn(p, {"NEW"})
  BY <1>1, <1>2, <1>e, ColasVacias, ColaEntra DEF Lugares
<1>5. ~Esta(p, "BLOCKED")' /\ ~Esta(p, "SUSP_BLOCKED")'
  BY <1>4, <1>e DEF QuedaEn
<1>6. HiloBien(p)' /\ AusenteBien(p)' /\ SinDispositivo(p)' /\ ~Admite(p)'
  BY <1>1, <1>2, <1>t DEF HiloBien, AusenteBien, SinHilo, SinDispositivo, Admite
<1>7. LugarBien(p)'
  BY <1>1, <1>2, <1>3, <1>5, <1>6, LugarSuelto
<1>8. Ociosos'
  BY <1>1 DEF Lugares, Ociosos
<1>9. \A q \in Procs : q # p => Quieto(q)
  BY <1>1, <1>4, <1>t DEF Quieto, QuedaEn, Admite
<1>. QED BY <1>4, <1>7, <1>8, <1>9, CambiaUno DEF Mueve

LEMMA FinalizarTerminaLugares ==
    ASSUME Regimen, IInv, Lugares, NEW h \in Hilos, FinalizarTermina(h)
    PROVE  Lugares' /\ Mueve(hilo[h].proc, {})
<1>. USE DEF planif, disposi, pcbs
<1>e. {"EXIT_ESTADO"} \subseteq Estados
  BY DEF Estados
<1>t. /\ hilo \in [Hilos -> TipoHilo] /\ cola \in Colas
      /\ vivo \in [Procs -> {"sin crear", "vivo", "liberado"}]
  BY DEF IInv, TypeOK, Colas
<1>0. hilo[h].pc = "termina"
  BY DEF FinalizarTermina, En
<1>p. PICK p : p = hilo[h].proc
  OBVIOUS
<1>1. /\ UNCHANGED <<timer, io, nombreIo, veces, flag, mediano, medianoFifo>>
      /\ cola' = Sacar(p, "EXIT_ESTADO")
      /\ vivo' = [vivo EXCEPT ![p] = "liberado"]
      /\ hilo' = [hilo EXCEPT ![h] = HiloLibre]
  BY <1>p DEF FinalizarTermina
<1>2. /\ p \in Procs /\ LugarBien(p) /\ SinDispositivo(p) /\ ~Sacado(p) /\ ~flag[p] /\ mediano.proc # p
      /\ ~Admite(p) /\ vivo[p] = "vivo"
      /\ \A k \in Veces : timer[p][k].pc # "visto"
      /\ \A g \in Hilos : hilo[g].proc = p => g = h
  BY <1>0, <1>p, DeHilo
<1>3. Esta(p, "EXIT_ESTADO")
  BY <1>0, <1>2, <1>p DEF LugarBien, HiloBien, PcsEnExit
<1>4. UnaSolaCola' /\ QuedaEn(p, {})
  BY <1>1, <1>3, <1>e, <1>t, ColaSale DEF Lugares
<1>5. /\ \A g \in Hilos \ {h} : hilo'[g] = hilo[g]
      /\ hilo'[h].proc = Nadie /\ hilo'[h].pc = "libre"
  BY <1>1, <1>t DEF HiloLibre
<1>6. \A q \in Procs : q # p => vivo'[q] = vivo[q]
  BY <1>1, <1>t
<1>7. /\ ~Esta(p, "BLOCKED")' /\ ~Esta(p, "SUSP_BLOCKED")'
      /\ HiloBien(p)' /\ SinDispositivo(p)' /\ ~Admite(p)' /\ Ociosos'
      /\ \A q \in Procs : q # p => Quieto(q)
  <2>0. PICK T : T = {}
    OBVIOUS
  <2>1. /\ hilo[h].pc # "libre" /\ QuedaEn(p, T) /\ T \subseteq {"EXEC", "EXIT_ESTADO"}
        /\ UNCHANGED <<io, flag, medianoFifo, mediano>>
    BY <1>0, <1>1, <1>4, <2>0
  <2>2. /\ ~Esta(p, "BLOCKED")' /\ ~Esta(p, "SUSP_BLOCKED")'
        /\ HiloBien(p)' /\ SinDispositivo(p)' /\ ~Admite(p)' /\ Ociosos'
        /\ \A q \in Procs : timer'[q] = timer[q] /\ nombreIo'[q] = nombreIo[q] /\ veces'[q] = veces[q]
                            /\ vivo'[q] = vivo[q] /\ q # p => Quieto(q)
    BY <1>p, <1>5, <2>1, HiloSigue
  <2>. QED BY <1>1, <1>6, <2>2
<1>9. AusenteBien(p)'
  <2>1. ~Llevado(p)'
    BY <1>1, <1>2 DEF Llevado, Sacado, TimersDe
  <2>2. ~EnAlguna(p)'
    BY <1>4 DEF QuedaEn, EnAlguna
  <2>3. SinHilo(p)'
    BY <1>2, <1>5, ConstantesAssumption DEF SinHilo
  <2>. QED BY <1>7, <2>1, <2>2, <2>3 DEF AusenteBien
<1>10. LugarBien(p)'
  BY <1>1, <1>2, <1>7, <1>9, LugarSuelto
<1>11. Lugares' /\ Mueve(p, {})
  BY <1>2, <1>4, <1>7, <1>10, CambiaUno DEF Mueve
<1>. QED BY <1>p, <1>11

\* Under Regimen a burst only ends for a process nobody suspends.
LEMMA RafagaSinSuspension ==
    ASSUME NEW p, LugarBien(p), PuedeTerminarRafaga(p)
    PROVE  ~Suspende(p)
BY DEF LugarBien, TimerBien, PuedeTerminarRafaga, EnSuspension, Suspende, Vence, TimersDe

LEMMA IoBuscaDispositivoLugares ==
    ASSUME Regimen, IInv, Lugares, NEW h \in Hilos, NEW n \in Nombres, IoBuscaDispositivo(h, n)
    PROVE  Lugares'
<1>. USE DEF planif, disposi, pcbs
<1>e. {"EXEC", "BLOCKED", "SUSP_BLOCKED"} \subseteq Estados
  BY DEF Estados
<1>t. /\ hilo \in [Hilos -> TipoHilo]
      /\ veces \in [Procs -> Nat] /\ nombreIo \in [Procs -> Nombres \cup {Vacio, Nulo, Basura}]
      /\ timer \in [Procs -> [Veces -> TipoTimer]]
  BY DEF IInv, TypeOK
<1>0. hilo[h].pc = "ioLiberada"
  BY DEF IoBuscaDispositivo, En
<1>p. PICK p : p = hilo[h].proc
  OBVIOUS
<1>1. /\ UNCHANGED <<cola, timer, io, flag, vivo, mediano, medianoFifo>>
      /\ PuedeTerminarRafaga(p)
      /\ veces' = [veces EXCEPT ![p] = @ + 1] /\ nombreIo' = [nombreIo EXCEPT ![p] = n]
      /\ \E x \in {"ioBloquea", "ioFinaliza"} : hilo' = [hilo EXCEPT ![h].pc = x]
  BY <1>p DEF IoBuscaDispositivo, AnotarIo, Pasa
<1>2. /\ p \in Procs /\ LugarBien(p) /\ SinDispositivo(p) /\ ~Sacado(p) /\ ~flag[p] /\ mediano.proc # p
      /\ ~Admite(p) /\ vivo[p] = "vivo"
      /\ \A k \in Veces : timer[p][k].pc # "visto"
  BY <1>0, <1>p, DeHilo
<1>3. Esta(p, "EXEC")
  BY <1>0, <1>2, <1>p DEF LugarBien, HiloBien, PcsEnExec
<1>4. UnaSolaCola' /\ QuedaEn(p, {"EXEC"})
  BY <1>1, <1>3, <1>e, ColaQuieta, SeQuedaEn DEF Lugares
<1>5. /\ \A g \in Hilos \ {h} : hilo'[g] = hilo[g]
      /\ hilo'[h].proc = p /\ hilo'[h].pc \in {"ioBloquea", "ioFinaliza"}
  BY <1>1, <1>p, <1>t DEF TipoHilo
<1>6. /\ \A q \in Procs : q # p => veces'[q] = veces[q] /\ nombreIo'[q] = nombreIo[q]
      /\ veces'[p] = veces[p] + 1 /\ veces[p] \in Nat /\ nombreIo'[p] = n
  BY <1>1, <1>2, <1>t
<1>7. n # Basura
  BY ConstantesAssumption
<1>8. ~Suspende(p)
  BY <1>1, <1>2, RafagaSinSuspension
<1>9. ASSUME NEW k \in Veces
      PROVE  /\ timer[p][k].pc = "duerme" => timer[p][k].inicial <= veces[p] + 1
             /\ Separada => ~Vigente(p, k)'
  <2>1. timer[p][k].pc = "duerme" => timer[p][k].inicial <= veces[p]
    BY <1>2 DEF LugarBien, TimerBien
  <2>2. timer[p][k].inicial \in Nat
    BY <1>2, <1>t DEF TipoTimer
  <2>3. timer[p][k].pc = "duerme" => timer[p][k].inicial <= veces[p] + 1 /\ timer[p][k].inicial # veces[p] + 1
    BY <1>6, <2>1, <2>2
  <2>4. Separada => timer[p][k].pc \notin {"nace", "compara", "visto", "sacado"}
    BY <1>1 DEF PuedeTerminarRafaga, EnSuspension, TimersDe
  <2>. QED BY <1>1, <1>6, <2>3, <2>4 DEF Vigente
<1>10. /\ ~Esta(p, "BLOCKED")' /\ ~Esta(p, "SUSP_BLOCKED")'
       /\ HiloBien(p)' /\ SinDispositivo(p)' /\ ~Admite(p)' /\ Ociosos'
       /\ \A q \in Procs : q # p => Quieto(q)
  <2>1. /\ hilo'[h].pc \in PcsEnExec /\ hilo'[h].pc \notin PcsEnExit
        /\ nombreIo'[p] # Basura /\ (Separada => \A k \in Veces : ~Vigente(p, k)')
    BY <1>5, <1>6, <1>7, <1>9 DEF PcsEnExec, PcsEnExit
  <2>2. /\ hilo[h].pc # "libre" /\ QuedaEn(p, {"EXEC"}) /\ {"EXEC"} \subseteq {"EXEC", "EXIT_ESTADO"}
        /\ UNCHANGED <<io, flag, medianoFifo, mediano>>
    BY <1>0, <1>1, <1>4
  <2>3. /\ ~Esta(p, "BLOCKED")' /\ ~Esta(p, "SUSP_BLOCKED")'
        /\ HiloBien(p)' /\ SinDispositivo(p)' /\ ~Admite(p)' /\ Ociosos'
        /\ \A q \in Procs : timer'[q] = timer[q] /\ nombreIo'[q] = nombreIo[q] /\ veces'[q] = veces[q]
                            /\ vivo'[q] = vivo[q] /\ q # p => Quieto(q)
    BY <1>p, <1>5, <2>1, <2>2, HiloSigue
  <2>. QED BY <1>1, <1>6, <2>3
<1>11. ~Suspende(p)' /\ ~Sacado(p)' /\ ~Bloqueado(p)'
  BY <1>1, <1>2, <1>8, <1>10 DEF Suspende, Vence, Sacado, TimersDe, Bloqueado
<1>12. TimerBien(p)'
  BY <1>1, <1>2, <1>6, <1>9, <1>11 DEF TimerBien, Separada, Sacado, TimersDe
<1>13. IoBien(p)' /\ PlanBien(p)' /\ AusenteBien(p)'
  BY <1>1, <1>2, <1>10, <1>11 DEF IoBien, SinDispositivo, PlanBien, AusenteBien
<1>14. LugarBien(p)'
  BY <1>10, <1>12, <1>13 DEF LugarBien
<1>. QED BY <1>2, <1>4, <1>10, <1>14, CambiaUno

LEMMA IoBloqueaLugares ==
    ASSUME Regimen, IInv, Lugares, NEW h \in Hilos, IoBloquea(h)
    PROVE  Lugares' /\ Mueve(hilo[h].proc, {"BLOCKED"})
<1>. USE DEF planif, disposi, pcbs
<1>e. {"EXEC", "BLOCKED", "SUSP_BLOCKED"} \subseteq Estados
  BY DEF Estados
<1>n. \A q \in Procs : q # Nadie
  BY ConstantesAssumption
<1>t. /\ hilo \in [Hilos -> TipoHilo] /\ cola \in Colas
      /\ timer \in [Procs -> [Veces -> TipoTimer]]
  BY DEF IInv, TypeOK, Colas
<1>0. hilo[h].pc = "ioBloquea"
  BY DEF IoBloquea, En
<1>p. PICK p : p = hilo[h].proc
  OBVIOUS
<1>1. /\ UNCHANGED <<io, nombreIo, veces, flag, vivo, mediano, medianoFifo>>
      /\ cola' = Mover(p, "EXEC", "BLOCKED")
      /\ hilo' = [hilo EXCEPT ![h] = HiloLibre]
  BY <1>p DEF IoBloquea
<1>k. PICK k : timer' = [timer EXCEPT ![p][k].pc = "nace"]
  BY <1>p DEF IoBloquea
<1>2. /\ p \in Procs /\ LugarBien(p) /\ SinDispositivo(p) /\ ~Sacado(p) /\ ~flag[p] /\ mediano.proc # p
      /\ ~Admite(p) /\ vivo[p] = "vivo"
      /\ \A l \in Veces : timer[p][l].pc # "visto"
      /\ \A g \in Hilos : hilo[g].proc = p => g = h
  BY <1>0, <1>p, DeHilo
<1>3. /\ Esta(p, "EXEC") /\ nombreIo[p] # Basura
      /\ Separada => \A l \in Veces : ~Vigente(p, l)
  BY <1>0, <1>2, <1>p DEF LugarBien, HiloBien, PcsEnExec
<1>4. UnaSolaCola' /\ QuedaEn(p, {"BLOCKED"})
  BY <1>1, <1>2, <1>3, <1>e, <1>t, ColaPasa DEF Lugares
<1>5. /\ \A g \in Hilos \ {h} : hilo'[g] = hilo[g]
      /\ hilo'[h].proc = Nadie /\ hilo'[h].pc = "libre"
  BY <1>1, <1>t DEF HiloLibre
<1>6. /\ \A q \in Procs : q # p => timer'[q] = timer[q]
      /\ \A l \in Veces : IF l = k THEN timer'[p][l] = [timer[p][l] EXCEPT !.pc = "nace"]
                                   ELSE timer'[p][l] = timer[p][l]
  BY <1>2, <1>k, <1>t
<1>7. \A l \in Veces : /\ l = k => timer'[p][l].pc = "nace"
                       /\ l # k => timer'[p][l] = timer[p][l]
  <2>1. \A r \in TipoTimer : [r EXCEPT !.pc = "nace"].pc = "nace"
    BY DEF TipoTimer
  <2>2. \A l \in Veces : timer[p][l] \in TipoTimer
    BY <1>2, <1>t
  <2>. QED BY <1>6, <2>1, <2>2
<1>8. SinHilo(p)' /\ SinDispositivo(p)' /\ ~Admite(p)' /\ vivo'[p] = "vivo"
  BY <1>1, <1>2, <1>5, <1>n DEF SinHilo, SinDispositivo, Admite
<1>9. ~Sacado(p)' /\ (Vence(p)' => Vence(p)) /\ \A l \in Veces : timer'[p][l].pc # "visto"
  BY <1>2, <1>7 DEF Sacado, Vence, TimersDe
<1>10. HiloBien(p)' /\ IoBien(p)' /\ AusenteBien(p)'
  BY <1>8 DEF HiloBien, IoBien, AusenteBien, SinHilo, SinDispositivo
<1>11. TimerBien(p)'
  <2>1. Suspende(p)' => Separada
    BY <1>1, <1>2, <1>9 DEF Suspende, LugarBien, TimerBien
  <2>2. ASSUME NEW l \in Veces
        PROVE  /\ timer'[p][l].pc # "sacado"
               /\ timer'[p][l].pc = "duerme" => timer'[p][l].inicial <= veces'[p]
               /\ Separada /\ Vigente(p, l)' => l = k
    BY <1>1, <1>2, <1>3, <1>7, <1>9 DEF LugarBien, TimerBien, Vigente, Sacado, TimersDe
  <2>. QED BY <1>9, <2>1, <2>2 DEF TimerBien, Separada
<1>12. PlanBien(p)'
  BY <1>1, <1>2, <1>3, <1>8 DEF PlanBien
<1>13. LugarBien(p)'
  BY <1>10, <1>11, <1>12 DEF LugarBien
<1>14. Ociosos'
  BY <1>1, <1>5 DEF Lugares, Ociosos
<1>15. \A q \in Procs : q # p => Quieto(q)
  BY <1>1, <1>4, <1>5, <1>6, <1>n, <1>p DEF Quieto, QuedaEn, Admite
<1>16. Lugares' /\ Mueve(p, {"BLOCKED"})
  BY <1>2, <1>4, <1>13, <1>14, <1>15, CambiaUno DEF Mueve
<1>. QED BY <1>p, <1>16

\* The process ends.
LEMMA FinalizarLugares ==
    ASSUME IInv, Lugares, NEW h \in Hilos, SyscallExit(h) \/ IoFinaliza(h)
    PROVE  Lugares' /\ Mueve(hilo[h].proc, {"EXIT_ESTADO"})
<1>. USE DEF planif, disposi, pcbs
<1>e. {"EXEC", "EXIT_ESTADO"} \subseteq Estados /\ "EXEC" # "EXIT_ESTADO"
  BY DEF Estados
<1>t. hilo \in [Hilos -> TipoHilo] /\ cola \in Colas
  BY DEF IInv, TypeOK, Colas
<1>p. PICK p : p = hilo[h].proc
  OBVIOUS
<1>1. hilo[h].pc \in PcsEnExec
  BY DEF SyscallExit, IoFinaliza, Llega, En, PcsEnExec
<1>2. hilo[h].pc # "libre"
  BY <1>1 DEF PcsEnExec
<1>3. p \in Procs /\ LugarBien(p)
  BY <1>p, <1>2, DeHilo
<1>4. Esta(p, "EXEC")
  BY <1>p, <1>1, <1>3 DEF LugarBien, HiloBien
<1>5. cola' = Mover(p, "EXEC", "EXIT_ESTADO")
  BY <1>p DEF SyscallExit, IoFinaliza, Finalizar
<1>6. UnaSolaCola' /\ QuedaEn(p, {"EXIT_ESTADO"})
  BY <1>e, <1>t, <1>3, <1>4, <1>5, ColaPasa DEF Lugares
<1>7. UNCHANGED <<io, timer, nombreIo, veces, flag, vivo, medianoFifo, mediano>>
  BY DEF SyscallExit, IoFinaliza
<1>8. /\ \A g \in Hilos \ {h} : hilo'[g] = hilo[g]
      /\ hilo'[h].proc = p /\ hilo'[h].pc = "intenta"
  BY <1>p, <1>t DEF SyscallExit, IoFinaliza, Finalizar, TipoHilo
<1>9. hilo'[h].pc \in PcsEnExit /\ hilo'[h].pc \notin PcsEnExec
  BY <1>8 DEF PcsEnExec, PcsEnExit
<1>10. Lugares' /\ Mueve(p, {"EXIT_ESTADO"})
  BY <1>p, <1>2, <1>6, <1>7, <1>8, <1>9, HiloCambia
<1>. QED BY <1>p, <1>10

\* It leaves its CPU and is still in EXEC.
LEMMA SyscallIoLugares ==
    ASSUME IInv, Lugares, NEW h \in Hilos, SyscallIo(h)
    PROVE  Lugares' /\ Mueve(hilo[h].proc, {"EXEC"})
<1>. USE DEF planif, disposi, pcbs
<1>e. {"EXEC", "EXIT_ESTADO"} \subseteq Estados /\ "EXEC" # "EXIT_ESTADO"
  BY DEF Estados
<1>t. hilo \in [Hilos -> TipoHilo] /\ cola \in Colas
  BY DEF IInv, TypeOK, Colas
<1>p. PICK p : p = hilo[h].proc
  OBVIOUS
<1>1. hilo[h].pc \in PcsEnExec /\ hilo[h].pc # "libre"
  BY DEF SyscallIo, Llega, En, PcsEnExec
<1>2. p \in Procs /\ LugarBien(p)
  BY <1>p, <1>1, DeHilo
<1>3. Esta(p, "EXEC")
  BY <1>p, <1>1, <1>2 DEF LugarBien, HiloBien
<1>4. UNCHANGED <<cola, io, timer, nombreIo, veces, flag, vivo, medianoFifo, mediano>>
  BY DEF SyscallIo
<1>5. UnaSolaCola' /\ QuedaEn(p, {"EXEC"})
  BY <1>e, <1>2, <1>3, <1>4, ColaQuieta, SeQuedaEn DEF Lugares
<1>6. /\ \A g \in Hilos \ {h} : hilo'[g] = hilo[g]
      /\ hilo'[h].proc = p /\ hilo'[h].pc = "ioLiberada"
  BY <1>p, <1>t DEF SyscallIo, TipoHilo
<1>7. hilo'[h].pc \in PcsEnExec \ {"ioBloquea"} /\ hilo'[h].pc \notin PcsEnExit
  BY <1>6 DEF PcsEnExec, PcsEnExit
<1>8. Lugares' /\ Mueve(p, {"EXEC"})
  BY <1>p, <1>1, <1>4, <1>5, <1>6, <1>7, HiloCambia
<1>. QED BY <1>p, <1>8

LEMMA HiloLugares ==
    ASSUME Regimen, IInv, Lugares, NEW h \in Hilos, Hilo(h)
    PROVE  Lugares'
<1>. USE DEF planif, disposi, pcbs
<1>e. {"EXEC", "EXIT_ESTADO"} \subseteq Estados /\ "EXEC" # "EXIT_ESTADO"
  BY DEF Estados
<1>t. hilo \in [Hilos -> TipoHilo] /\ cola \in Colas
  BY DEF IInv, TypeOK, Colas
<1>p. PICK p : p = hilo[h].proc
  OBVIOUS
<1>1. CASE \E q \in Procs : SyscallInitProc(h, q)
  BY <1>1, SyscallInitProcLugares
<1>2. CASE SyscallExit(h) \/ IoFinaliza(h)
  BY <1>2, FinalizarLugares
<1>3. CASE FinalizarIntenta(h)
  <2>1. hilo[h].pc \in PcsEnExit /\ hilo[h].pc # "libre"
    BY <1>3 DEF FinalizarIntenta, En, PcsEnExit
  <2>2. p \in Procs /\ LugarBien(p)
    BY <1>p, <2>1, DeHilo
  <2>3. Esta(p, "EXIT_ESTADO")
    BY <1>p, <2>1, <2>2 DEF LugarBien, HiloBien
  <2>4. UNCHANGED <<cola, io, timer, nombreIo, veces, flag, vivo, medianoFifo, mediano>>
    BY <1>3 DEF FinalizarIntenta
  <2>5. UnaSolaCola' /\ QuedaEn(p, {"EXIT_ESTADO"})
    BY <1>e, <2>2, <2>3, <2>4, ColaQuieta, SeQuedaEn DEF Lugares
  <2>6. /\ \A g \in Hilos \ {h} : hilo'[g] = hilo[g]
        /\ hilo'[h].proc = p /\ hilo'[h].pc = "termina"
    BY <1>3, <1>p, <1>t DEF FinalizarIntenta, Pasa, TipoHilo
  <2>7. hilo'[h].pc \in PcsEnExit /\ hilo'[h].pc \notin PcsEnExec
    BY <2>6 DEF PcsEnExec, PcsEnExit
  <2>. QED BY <1>p, <2>1, <2>4, <2>5, <2>6, <2>7, HiloCambia
<1>4. CASE FinalizarTermina(h)
  BY <1>4, FinalizarTerminaLugares
<1>5. CASE SyscallDump(h) \/ DumpLiberaCpu(h) \/ DumpAceptado(h) \/ DumpAReady(h) \/ DumpRechazado(h)
  <2>1. hilo[h].pc \notin {"dump", "dumpEspera", "dumpListo"}
    BY DEF Lugares, Ociosos, PcsEnExec, PcsEnExit
  <2>2. ~SyscallDump(h)
    BY DEF Regimen, SyscallDump, Llega
  <2>. QED BY <1>5, <2>1, <2>2 DEF DumpLiberaCpu, DumpAceptado, DumpAReady, DumpRechazado, En
<1>6. CASE SyscallIo(h)
  BY <1>6, SyscallIoLugares
<1>7. CASE \E n \in Nombres : IoBuscaDispositivo(h, n)
  BY <1>7, IoBuscaDispositivoLugares
<1>8. CASE IoBloquea(h)
  BY <1>8, IoBloqueaLugares
<1>. QED BY <1>1, <1>2, <1>3, <1>4, <1>5, <1>6, <1>7, <1>8 DEF Hilo

-----------------------------------------------------------------------------
(* The timers.                                                             *)

\* A timer that looks at p and leaves it where it is: what it may change.
LEMMA TimerMira ==
    ASSUME IInv, Lugares, NEW p \in Procs,
           UNCHANGED <<cola, hilo, io, nombreIo, veces, flag, vivo, mediano, medianoFifo>>,
           \A q \in Procs : q # p => timer'[q] = timer[q],
           \A l \in Veces :
              /\ Vigente(p, l)' => Vigente(p, l)
              /\ timer'[p][l].pc = "visto" => timer[p][l].pc = "visto" \/ Esta(p, "BLOCKED")
              /\ timer'[p][l].pc = "sacado" => timer[p][l].pc = "sacado"
              /\ timer[p][l].pc = "sacado" => timer'[p][l].pc = "sacado"
              /\ timer'[p][l].pc = "duerme" => timer'[p][l].inicial <= veces[p],
           \/ Vence(p)' => Vence(p)
           \/ Separada /\ \A i \in Ios : io[i].pc \notin PcsAlFinal
    PROVE  Lugares'
<1>e. {"EXEC", "EXIT_ESTADO", "BLOCKED", "SUSP_BLOCKED"} \subseteq Estados
  BY DEF Estados
<1>1. UnaSolaCola' /\ \A q : \A e \in Estados : Esta(q, e)' <=> Esta(q, e)
  BY ColaQuieta DEF Lugares
<1>2. LugarBien(p)
  BY DEF Lugares
<1>3. /\ EnAlguna(p)' <=> EnAlguna(p)
      /\ Sacado(p)' <=> Sacado(p)
      /\ SinDispositivo(p)' <=> SinDispositivo(p)
      /\ SinHilo(p)' <=> SinHilo(p)
      /\ \A q \in Procs : Admite(q)' <=> Admite(q)
  BY <1>1 DEF EnAlguna, Sacado, TimersDe, SinDispositivo, SinHilo, Admite
<1>4. Bloqueado(p)' <=> Bloqueado(p)
  BY <1>1, <1>3, <1>e DEF Bloqueado
<1>5. \/ Suspende(p)' => Suspende(p)
      \/ Separada /\ \A i \in Ios : io[i].pc \notin PcsAlFinal
  BY DEF Suspende
<1>6. HiloBien(p)'
  BY <1>1, <1>2, <1>e DEF LugarBien, HiloBien, Separada
<1>7. IoBien(p)'
  BY <1>1, <1>2, <1>3, <1>4, <1>5, <1>e DEF LugarBien, IoBien
<1>8. TimerBien(p)'
  BY <1>1, <1>2, <1>3, <1>5, <1>e DEF LugarBien, TimerBien, Separada
<1>9. PlanBien(p)'
  BY <1>1, <1>2, <1>3, <1>4, <1>e DEF LugarBien, PlanBien
<1>10. AusenteBien(p)'
  <2>1. Llevado(p)' => Llevado(p) \/ EnAlguna(p)
    BY <1>e DEF Llevado, TimersDe, EnAlguna
  <2>. QED BY <1>2, <1>3, <2>1 DEF LugarBien, AusenteBien
<1>11. LugarBien(p)'
  BY <1>6, <1>7, <1>8, <1>9, <1>10 DEF LugarBien
<1>12. Ociosos'
  BY DEF Lugares, Ociosos
<1>13. \A q \in Procs : q # p => Quieto(q)
  BY <1>1, <1>3 DEF Quieto
<1>. QED BY <1>1, <1>11, <1>12, <1>13, CambiaUno

\* The change of one timer.
LEMMA UnTimer ==
    ASSUME timer \in [Procs -> [Veces -> TipoTimer]], NEW p \in Procs, NEW k \in Veces
    PROVE  /\ \A r : timer' = [timer EXCEPT ![p][k] = r] =>
                /\ timer'[p][k] = r
                /\ \A l \in Veces : l # k => timer'[p][l] = timer[p][l]
                /\ \A q \in Procs : q # p => timer'[q] = timer[q]
           /\ \A x : timer' = [timer EXCEPT ![p][k].pc = x] =>
                /\ timer'[p][k].pc = x /\ timer'[p][k].inicial = timer[p][k].inicial
                /\ \A l \in Veces : l # k => timer'[p][l] = timer[p][l]
                /\ \A q \in Procs : q # p => timer'[q] = timer[q]
<1>1. timer[p][k] \in TipoTimer
  OBVIOUS
<1>2. \A x : [timer[p][k] EXCEPT !.pc = x].pc = x /\ [timer[p][k] EXCEPT !.pc = x].inicial = timer[p][k].inicial
  BY <1>1 DEF TipoTimer
<1>3. ASSUME NEW r, timer' = [timer EXCEPT ![p][k] = r]
      PROVE  /\ timer'[p][k] = r
             /\ \A l \in Veces : l # k => timer'[p][l] = timer[p][l]
             /\ \A q \in Procs : q # p => timer'[q] = timer[q]
  BY <1>3
<1>4. ASSUME NEW x, timer' = [timer EXCEPT ![p][k].pc = x]
      PROVE  /\ timer'[p][k] = [timer[p][k] EXCEPT !.pc = x]
             /\ \A l \in Veces : l # k => timer'[p][l] = timer[p][l]
             /\ \A q \in Procs : q # p => timer'[q] = timer[q]
  BY <1>4
<1>5. ASSUME NEW x, timer' = [timer EXCEPT ![p][k].pc = x]
      PROVE  /\ timer'[p][k].pc = x /\ timer'[p][k].inicial = timer[p][k].inicial
             /\ \A l \in Veces : l # k => timer'[p][l] = timer[p][l]
             /\ \A q \in Procs : q # p => timer'[q] = timer[q]
  <2>1. /\ timer'[p][k] = [timer[p][k] EXCEPT !.pc = x]
        /\ \A l \in Veces : l # k => timer'[p][l] = timer[p][l]
        /\ \A q \in Procs : q # p => timer'[q] = timer[q]
    BY <1>4, <1>5
  <2>2. timer'[p][k].pc = x /\ timer'[p][k].inicial = timer[p][k].inicial
    BY <1>2, <2>1
  <2>. QED BY <2>1, <2>2
<1>. QED BY <1>3, <1>5

LEMMA TimerMiraLugares ==
    ASSUME Regimen, IInv, Lugares, NEW p \in Procs, NEW k \in Veces,
           TimerNace(p, k) \/ TimerCompara(p, k) \/ TimerBusca(p, k)
    PROVE  Lugares'
<1>. USE DEF planif, disposi, pcbs
<1>t. /\ timer \in [Procs -> [Veces -> TipoTimer]] /\ veces \in [Procs -> Nat]
  BY DEF IInv, TypeOK
<1>1. UNCHANGED <<cola, hilo, io, nombreIo, veces, flag, vivo, mediano, medianoFifo>>
  BY DEF TimerNace, TimerCompara, TimerBusca
<1>2. /\ LugarBien(p) /\ veces[p] \in Nat
      /\ \A l \in Veces : timer[p][l].pc = "duerme" => timer[p][l].inicial <= veces[p]
  BY <1>t DEF Lugares, LugarBien, TimerBien
<1>3. CASE TimerNace(p, k)
  <2>1. /\ timer[p][k].pc = "nace"
        /\ timer'[p][k] = [pc |-> "duerme", inicial |-> veces[p]]
        /\ \A l \in Veces : l # k => timer'[p][l] = timer[p][l]
        /\ \A q \in Procs : q # p => timer'[q] = timer[q]
    BY <1>3, <1>t, UnTimer DEF TimerNace
  <2>2. \A l \in Veces :
              /\ Vigente(p, l)' => Vigente(p, l)
              /\ timer'[p][l].pc = "visto" => timer[p][l].pc = "visto" \/ Esta(p, "BLOCKED")
              /\ timer'[p][l].pc = "sacado" => timer[p][l].pc = "sacado"
              /\ timer[p][l].pc = "sacado" => timer'[p][l].pc = "sacado"
    BY <1>1, <2>1 DEF Vigente
  <2>3. \A l \in Veces : timer'[p][l].pc = "duerme" => timer'[p][l].inicial <= veces[p]
    BY <1>2, <2>1
  <2>4. Vence(p)' => Vence(p)
    BY <2>1 DEF TimersDe, Vence
  <2>. QED BY <1>1, <2>1, <2>2, <2>3, <2>4, TimerMira
<1>4. CASE TimerCompara(p, k)
  <2>0. /\ timer[p][k].pc = "duerme" /\ PuedeVencerTimer
        /\ timer' = [timer EXCEPT ![p][k] =
                       [pc |-> IF veces[p] = timer[p][k].inicial THEN "compara" ELSE "no", inicial |-> 0]]
    BY <1>4, <1>t DEF TimerCompara
  <2>1. /\ timer'[p][k] = [pc |-> IF veces[p] = timer[p][k].inicial THEN "compara" ELSE "no", inicial |-> 0]
        /\ \A l \in Veces : l # k => timer'[p][l] = timer[p][l]
        /\ \A q \in Procs : q # p => timer'[q] = timer[q]
    BY <1>t, <2>0, UnTimer
  <2>2. \A l \in Veces :
              /\ Vigente(p, l)' => Vigente(p, l)
              /\ timer'[p][l].pc = "visto" => timer[p][l].pc = "visto" \/ Esta(p, "BLOCKED")
              /\ timer'[p][l].pc = "sacado" => timer[p][l].pc = "sacado"
              /\ timer[p][l].pc = "sacado" => timer'[p][l].pc = "sacado"
              /\ timer'[p][l].pc = "duerme" => timer'[p][l].inicial <= veces[p]
    BY <1>1, <1>2, <2>0, <2>1 DEF Vigente
  <2>3. Separada /\ \A i \in Ios : io[i].pc \notin PcsAlFinal
    BY <2>0 DEF Regimen, PuedeVencerTimer, Separada, PcsAlFinal, PcsAReady
  <2>. QED BY <1>1, <2>1, <2>2, <2>3, TimerMira
<1>5. CASE TimerBusca(p, k)
  <2>1. /\ timer[p][k].pc = "compara"
        /\ timer'[p][k].pc = IF Esta(p, "BLOCKED") THEN "visto" ELSE "no"
        /\ \A l \in Veces : l # k => timer'[p][l] = timer[p][l]
        /\ \A q \in Procs : q # p => timer'[q] = timer[q]
    BY <1>5, <1>t, UnTimer DEF TimerBusca, TimerPasa
  <2>2. \A l \in Veces :
              /\ Vigente(p, l)' => Vigente(p, l)
              /\ timer'[p][l].pc = "visto" => timer[p][l].pc = "visto" \/ Esta(p, "BLOCKED")
              /\ timer'[p][l].pc = "sacado" => timer[p][l].pc = "sacado"
              /\ timer[p][l].pc = "sacado" => timer'[p][l].pc = "sacado"
              /\ timer'[p][l].pc = "duerme" => timer'[p][l].inicial <= veces[p]
    BY <1>1, <1>2, <2>1 DEF Vigente
  <2>3. Vence(p)' => Vence(p)
    BY <2>1 DEF TimersDe, Vence
  <2>. QED BY <1>1, <2>1, <2>2, <2>3, TimerMira
<1>. QED BY <1>3, <1>4, <1>5

LEMMA TimerSacaLugares ==
    ASSUME Regimen, IInv, Lugares, NEW p \in Procs, NEW k \in Veces, TimerSaca(p, k)
    PROVE  Lugares' /\ Mueve(p, {})
<1>. USE DEF planif, disposi, pcbs
<1>e. {"EXEC", "EXIT_ESTADO", "BLOCKED", "SUSP_BLOCKED"} \subseteq Estados
  BY DEF Estados
<1>t. /\ timer \in [Procs -> [Veces -> TipoTimer]] /\ cola \in Colas /\ flag \in [Procs -> BOOLEAN]
  BY DEF IInv, TypeOK, Colas
<1>1. /\ UNCHANGED <<hilo, io, nombreIo, veces, vivo, mediano, medianoFifo>>
      /\ timer[p][k].pc = "visto" /\ cola' = Sacar(p, "BLOCKED") /\ flag' = [flag EXCEPT ![p] = TRUE]
  BY DEF TimerSaca
<1>2. /\ timer'[p][k].pc = "sacado"
      /\ \A l \in Veces : l # k => timer'[p][l] = timer[p][l]
      /\ \A q \in Procs : q # p => timer'[q] = timer[q]
  BY <1>t, UnTimer DEF TimerSaca, TimerPasa
<1>3. LugarBien(p) /\ Esta(p, "BLOCKED")
  BY <1>1 DEF Lugares, LugarBien, TimerBien
<1>4. /\ EnAlguna(p) /\ ~Esta(p, "SUSP_BLOCKED") /\ SinHilo(p) /\ ~Admite(p) /\ vivo[p] = "vivo"
      /\ mediano.proc # p
  BY <1>3, <1>e, Exclusion DEF SinHilo, EnAlguna, LugarBien, PlanBien
<1>5. Separada /\ \A l \in Veces : Vigente(p, l) => l = k
  BY <1>1, <1>3 DEF LugarBien, TimerBien, Suspende, Vence, TimersDe, Vigente
<1>6. UnaSolaCola' /\ QuedaEn(p, {})
  BY <1>1, <1>3, <1>e, <1>t, ColaSale DEF Lugares
<1>7. ~EnAlguna(p)' /\ ~Esta(p, "BLOCKED")' /\ ~Esta(p, "SUSP_BLOCKED")'
  BY <1>6, <1>e DEF QuedaEn, EnAlguna
<1>8. Sacado(p)' /\ Bloqueado(p)' /\ Suspende(p)' /\ flag'[p] /\ \A q \in Procs : q # p => flag'[q] = flag[q]
  BY <1>1, <1>2, <1>t DEF Sacado, Bloqueado, Suspende, TimersDe
<1>9. HiloBien(p)' /\ AusenteBien(p)'
  BY <1>1, <1>4 DEF HiloBien, AusenteBien, SinHilo
<1>10. IoBien(p)'
  <2>1. \A i \in Ios : io[i].proc = p => io[i].pc \notin PcsAlFinal
    BY <1>1, <1>3 DEF LugarBien, IoBien, Suspende, Vence, TimersDe
  <2>. QED BY <1>1, <1>3, <1>8, <2>1 DEF LugarBien, IoBien, PcsAlFinal
<1>11. TimerBien(p)'
  <2>1. ASSUME NEW l \in Veces
        PROVE  /\ timer'[p][l].pc # "visto"
               /\ timer'[p][l].pc = "duerme" => timer'[p][l].inicial <= veces'[p]
               /\ Vigente(p, l)' => l = k
    <3>1. CASE l = k
      BY <1>2, <3>1
    <3>2. CASE l # k
      BY <1>1, <1>2, <1>3, <1>5, <3>2 DEF LugarBien, TimerBien, Vigente
    <3>. QED BY <3>1, <3>2
  <2>. QED BY <1>5, <1>7, <1>8, <2>1 DEF TimerBien, Separada
<1>12. PlanBien(p)'
  BY <1>1, <1>3, <1>4, <1>8 DEF LugarBien, PlanBien, Bloqueado, Admite
<1>13. LugarBien(p)'
  BY <1>9, <1>10, <1>11, <1>12 DEF LugarBien
<1>14. Ociosos'
  BY <1>1 DEF Lugares, Ociosos
<1>15. \A q \in Procs : q # p => Quieto(q)
  BY <1>1, <1>2, <1>6, <1>8 DEF Quieto, QuedaEn, Admite
<1>. QED BY <1>6, <1>13, <1>14, <1>15, CambiaUno DEF Mueve

LEMMA TimerSuspendeLugares ==
    ASSUME Regimen, IInv, Lugares, NEW p \in Procs, NEW k \in Veces, TimerSuspende(p, k)
    PROVE  Lugares' /\ Mueve(p, {"SUSP_BLOCKED"})
<1>. USE DEF planif, disposi, pcbs
<1>e. {"EXEC", "EXIT_ESTADO", "BLOCKED", "SUSP_BLOCKED"} \subseteq Estados
  BY DEF Estados
<1>t. /\ timer \in [Procs -> [Veces -> TipoTimer]] /\ cola \in Colas
  BY DEF IInv, TypeOK, Colas
<1>1. /\ UNCHANGED <<hilo, io, nombreIo, veces, flag, vivo, mediano, medianoFifo>>
      /\ timer[p][k].pc = "sacado" /\ cola' = [cola EXCEPT !["SUSP_BLOCKED"] = Append(@, p)]
  BY DEF TimerSuspende
<1>2. /\ timer'[p][k].pc = "no"
      /\ \A l \in Veces : l # k => timer'[p][l] = timer[p][l]
      /\ \A q \in Procs : q # p => timer'[q] = timer[q]
  BY <1>t, UnTimer DEF TimerSuspende, TimerPasa
<1>3. LugarBien(p) /\ ~EnAlguna(p) /\ flag[p] /\ Sacado(p) /\ Bloqueado(p) /\ Suspende(p)
  BY <1>1 DEF Lugares, LugarBien, TimerBien, Sacado, Bloqueado, Suspende, TimersDe
<1>4. SinHilo(p) /\ ~Admite(p) /\ vivo[p] = "vivo" /\ mediano.proc # p
  BY <1>3, <1>e, Exclusion DEF SinHilo, EnAlguna, LugarBien, PlanBien, AusenteBien, Llevado, TimersDe, Sacado, IInv, TypeOK
<1>5. Separada /\ \A l \in Veces : Vigente(p, l) => l = k
  BY <1>1, <1>3 DEF LugarBien, TimerBien, Vigente
<1>6. UnaSolaCola' /\ QuedaEn(p, {"SUSP_BLOCKED"})
  BY <1>1, <1>3, <1>e, <1>t, ColaEntra DEF Lugares
<1>7. Esta(p, "SUSP_BLOCKED")'
  BY <1>6, <1>e DEF QuedaEn
<1>8. Bloqueado(p)' /\ Suspende(p)'
  BY <1>1, <1>3, <1>7 DEF Bloqueado, Suspende
<1>9. HiloBien(p)' /\ AusenteBien(p)'
  BY <1>1, <1>4 DEF HiloBien, AusenteBien, SinHilo
<1>10. IoBien(p)'
  <2>1. \A i \in Ios : io[i].proc = p => io[i].pc \notin PcsAlFinal
    BY <1>3 DEF LugarBien, IoBien
  <2>. QED BY <1>1, <1>3, <1>8, <2>1 DEF LugarBien, IoBien, PcsAlFinal
<1>11. TimerBien(p)'
  <2>1. ASSUME NEW l \in Veces
        PROVE  /\ timer'[p][l].pc \notin {"visto", "sacado"}
               /\ timer'[p][l].pc = "duerme" => timer'[p][l].inicial <= veces'[p]
               /\ ~Vigente(p, l)' \/ l = k
    <3>1. CASE l = k
      BY <1>2, <3>1
    <3>2. CASE l # k
      BY <1>1, <1>2, <1>3, <1>5, <3>2 DEF LugarBien, TimerBien, Vigente
    <3>. QED BY <3>1, <3>2
  <2>. QED BY <1>5, <2>1 DEF TimerBien, Separada
<1>12. PlanBien(p)'
  BY <1>1, <1>3, <1>4, <1>7 DEF LugarBien, PlanBien, Admite
<1>13. LugarBien(p)'
  BY <1>9, <1>10, <1>11, <1>12 DEF LugarBien
<1>14. Ociosos'
  BY <1>1 DEF Lugares, Ociosos
<1>15. \A q \in Procs : q # p => Quieto(q)
  BY <1>1, <1>2, <1>6 DEF Quieto, QuedaEn, Admite
<1>. QED BY <1>6, <1>13, <1>14, <1>15, CambiaUno DEF Mueve

-----------------------------------------------------------------------------
(* The devices.                                                            *)

\* The change of one device thread.
LEMMA UnDispositivo ==
    ASSUME io \in [Ios -> TipoIo], NEW i \in Ios
    PROVE  /\ \A x : io' = [io EXCEPT ![i].pc = x] =>
                /\ io'[i].pc = x /\ io'[i].proc = io[i].proc
                /\ \A j \in Ios : j # i => io'[j] = io[j]
           /\ \A x, p : io' = [io EXCEPT ![i].pc = x, ![i].proc = p] =>
                /\ io'[i].pc = x /\ io'[i].proc = p
                /\ \A j \in Ios : j # i => io'[j] = io[j]
<1>1. io[i] \in TipoIo
  OBVIOUS
<1>2. \A x : [io[i] EXCEPT !.pc = x].pc = x /\ [io[i] EXCEPT !.pc = x].proc = io[i].proc
  BY <1>1 DEF TipoIo
<1>3. \A x, p : /\ [[io[i] EXCEPT !.pc = x] EXCEPT !.proc = p].pc = x
                /\ [[io[i] EXCEPT !.pc = x] EXCEPT !.proc = p].proc = p
  BY <1>1 DEF TipoIo
<1>4. ASSUME NEW x, io' = [io EXCEPT ![i].pc = x]
      PROVE  /\ io'[i].pc = x /\ io'[i].proc = io[i].proc
             /\ \A j \in Ios : j # i => io'[j] = io[j]
  <2>1. io'[i] = [io[i] EXCEPT !.pc = x] /\ \A j \in Ios : j # i => io'[j] = io[j]
    BY <1>4
  <2>. QED BY <1>2, <2>1
<1>5. ASSUME NEW x, NEW p, io' = [io EXCEPT ![i].pc = x, ![i].proc = p]
      PROVE  /\ io'[i].pc = x /\ io'[i].proc = p
             /\ \A j \in Ios : j # i => io'[j] = io[j]
  <2>1. io'[i] = [[io[i] EXCEPT !.pc = x] EXCEPT !.proc = p] /\ \A j \in Ios : j # i => io'[j] = io[j]
    BY <1>5
  <2>. QED BY <1>3, <2>1
<1>. QED BY <1>4, <1>5

\* A device takes a process that waits for it.
LEMMA TomaLugares ==
    ASSUME IInv, Lugares, NEW i \in Ios, io[i].pc \in {"espera", "busca"}, NEW p \in Procs,
           NEW e \in {"BLOCKED", "SUSP_BLOCKED"}, Coincide(p, e, NombreDe[i]), Toma(i, p),
           UNCHANGED <<cola, hilo, timer, veces, flag, vivo, mediano, medianoFifo>>
    PROVE  Lugares'
<1>e. {"EXEC", "EXIT_ESTADO", "BLOCKED", "SUSP_BLOCKED"} \subseteq Estados
  BY DEF Estados
<1>n. \A q \in Procs : q # Nadie
  BY ConstantesAssumption
<1>t. /\ io \in [Ios -> TipoIo]
      /\ nombreIo \in [Procs -> Nombres \cup {Vacio, Nulo, Basura}]
  BY DEF IInv, TypeOK
<1>1. /\ io'[i].pc = "trabaja" /\ io'[i].proc = p
      /\ \A j \in Ios : j # i => io'[j] = io[j]
  BY <1>t, UnDispositivo DEF Toma
<1>2. nombreIo'[p] = Vacio /\ \A q \in Procs : q # p => nombreIo'[q] = nombreIo[q]
  BY <1>t DEF Toma
<1>3. Esta(p, e) /\ nombreIo[p] \in {NombreDe[i], Basura}
  BY DEF Coincide, Esta
<1>4. LugarBien(p) /\ Bloqueado(p) /\ EnAlguna(p) /\ ~Sacado(p) /\ ~Admite(p) /\ vivo[p] = "vivo"
  BY <1>3, <1>e, Exclusion DEF Lugares, Bloqueado, EnAlguna
<1>5. nombreIo[p] \notin {Vacio, Nulo, Basura}
  <2>1. NombreDe[i] \in Nombres /\ NombreDe[i] \notin {Vacio, Nulo, Basura}
    BY ConstantesAssumption
  <2>. QED BY <1>3, <1>4, <2>1 DEF LugarBien, PlanBien
<1>6. SinDispositivo(p)
  BY <1>4, <1>5 DEF LugarBien, IoBien, SinDispositivo
<1>7. SinHilo(p)
  <2>1. ~Esta(p, "EXEC") /\ ~Esta(p, "EXIT_ESTADO")
    BY <1>3, <1>e, Exclusion
  <2>. QED BY <2>1, Exclusion DEF SinHilo
<1>8. io[i].proc = Nadie
  BY DEF Lugares, Ociosos, PcsConProceso, PcsAlFinal, PcsAReady
<1>9. UnaSolaCola' /\ \A q : \A f \in Estados : Esta(q, f)' <=> Esta(q, f)
  BY ColaQuieta DEF Lugares
<1>10. /\ EnAlguna(p)' <=> EnAlguna(p)
       /\ Sacado(p)' <=> Sacado(p)
       /\ Suspende(p)' <=> Suspende(p)
       /\ \A k \in Veces : Vigente(p, k)' <=> Vigente(p, k)
       /\ \A q \in Procs : Admite(q)' <=> Admite(q)
  BY <1>9 DEF EnAlguna, Sacado, Suspende, Vence, TimersDe, Vigente, Admite
<1>11. Bloqueado(p)' <=> Bloqueado(p)
  BY <1>9, <1>10, <1>e DEF Bloqueado
<1>12. HiloBien(p)' /\ AusenteBien(p)'
  BY <1>4, <1>7 DEF HiloBien, AusenteBien, SinHilo
<1>13. IoBien(p)'
  <2>1. \A j \in Ios : io'[j].proc = p => j = i
    BY <1>1, <1>6 DEF SinDispositivo
  <2>. QED BY <1>1, <1>2, <1>4, <1>11, <2>1 DEF IoBien, PcsAlFinal, PcsAReady
<1>14. TimerBien(p)'
  BY <1>4, <1>9, <1>10, <1>e DEF LugarBien, TimerBien, Separada
<1>15. PlanBien(p)'
  BY <1>2, <1>4, <1>9, <1>10, <1>e DEF LugarBien, PlanBien, Vacio, Basura
<1>16. LugarBien(p)'
  BY <1>12, <1>13, <1>14, <1>15 DEF LugarBien
<1>17. Ociosos'
  BY <1>1 DEF Lugares, Ociosos, PcsConProceso
<1>18. \A q \in Procs : q # p => Quieto(q)
  BY <1>1, <1>2, <1>8, <1>9, <1>10, <1>n DEF Quieto
<1>. QED BY <1>9, <1>16, <1>17, <1>18, CambiaUno

\* A device that finds nobody goes on to the other queue, or the Kernel dies.
LEMMA IoDespiertaLugares ==
    ASSUME IInv, Lugares, NEW i \in Ios, IoDespierta(i) \/ IoBusca(i)
    PROVE  Lugares'
<1>. USE DEF planif, disposi, pcbs
<1>n. \A q \in Procs : q # Nadie
  BY ConstantesAssumption
<1>t. io \in [Ios -> TipoIo]
  BY DEF IInv, TypeOK
<1>1. /\ UNCHANGED <<cola, hilo, timer, veces, flag, vivo, mediano, medianoFifo>>
      /\ io[i].pc \in {"espera", "busca"}
  BY DEF IoDespierta, IoBusca
<1>2. CASE \E p \in Procs, e \in {"BLOCKED", "SUSP_BLOCKED"} : Coincide(p, e, NombreDe[i]) /\ Toma(i, p)
  BY <1>1, <1>2, TomaLugares
<1>3. CASE nombreIo' = nombreIo /\ (io' = io \/ io' = [io EXCEPT ![i].pc = "busca"])
  <2>1. io[i].proc = Nadie
    BY <1>1 DEF Lugares, Ociosos, PcsConProceso, PcsAlFinal, PcsAReady
  <2>2. /\ io'[i].proc = Nadie
        /\ \A j \in Ios : j # i => io'[j] = io[j]
    BY <1>3, <1>t, <2>1, UnDispositivo
  <2>3. UnaSolaCola' /\ \A q : \A e \in Estados : Esta(q, e)' <=> Esta(q, e)
    BY <1>1, ColaQuieta DEF Lugares
  <2>4. Ociosos'
    BY <1>1, <2>2 DEF Lugares, Ociosos
  <2>5. \A q \in Procs : Quieto(q)
    BY <1>1, <1>3, <1>n, <2>1, <2>2, <2>3 DEF Quieto, Admite
  <2>. QED BY <2>3, <2>4, <2>5, CambiaNinguno
<1>4. CASE IoDespierta(i)
  <2>1. \/ \E p \in Procs : Coincide(p, "SUSP_BLOCKED", NombreDe[i]) /\ Toma(i, p)
        \/ nombreIo' = nombreIo /\ (io' = io \/ io' = [io EXCEPT ![i].pc = "busca"])
    BY <1>4 DEF IoDespierta
  <2>. QED BY <1>2, <1>3, <2>1
<1>5. CASE IoBusca(i)
  <2>1. \/ \E p \in Procs : Coincide(p, "BLOCKED", NombreDe[i]) /\ Toma(i, p)
        \/ nombreIo' = nombreIo /\ io' = io
    BY <1>5 DEF IoBusca
  <2>. QED BY <1>2, <1>3, <2>1
<1>. QED BY <1>4, <1>5

LEMMA IoTerminaLugares ==
    ASSUME IInv, Lugares, NEW i \in Ios, IoTermina(i)
    PROVE  Lugares'
<1>. USE DEF planif, disposi, pcbs
<1>e. {"EXEC", "EXIT_ESTADO", "BLOCKED", "SUSP_BLOCKED"} \subseteq Estados
  BY DEF Estados
<1>t. /\ io \in [Ios -> TipoIo]
      /\ nombreIo \in [Procs -> Nombres \cup {Vacio, Nulo, Basura}]
  BY DEF IInv, TypeOK
<1>0. io[i].proc \in Procs
  BY DEF IoTermina, IInv, ConProceso
<1>p. PICK p \in Procs : p = io[i].proc
  BY <1>0
<1>1. /\ UNCHANGED <<cola, hilo, timer, veces, flag, vivo, mediano, medianoFifo>>
      /\ io[i].pc = "trabaja" /\ PuedeTerminarRafaga(p)
      /\ io' = [io EXCEPT ![i].pc = DondeEsta(p)] /\ nombreIo' = [nombreIo EXCEPT ![p] = Nulo]
  BY <1>p DEF IoTermina
<1>2. /\ io'[i].pc = DondeEsta(p) /\ io'[i].proc = p
      /\ \A j \in Ios : j # i => io'[j] = io[j]
  BY <1>1, <1>p, <1>t, UnDispositivo
<1>3. nombreIo'[p] = Nulo /\ \A q \in Procs : q # p => nombreIo'[q] = nombreIo[q]
  BY <1>1, <1>t
<1>4. LugarBien(p) /\ Bloqueado(p) /\ ~Suspende(p)
  BY <1>1, <1>p, RafagaSinSuspension DEF Lugares, LugarBien, IoBien
<1>5. ~Sacado(p)
  BY <1>4 DEF Suspende, Vence, Sacado, TimersDe
<1>6. /\ Esta(p, "BLOCKED") => io'[i].pc = "enBlocked"
      /\ ~Esta(p, "BLOCKED") => io'[i].pc = "enSusp" /\ Esta(p, "SUSP_BLOCKED")
  BY <1>2, <1>4, <1>5 DEF DondeEsta, Bloqueado
<1>7. EnAlguna(p) /\ ~Admite(p) /\ vivo[p] = "vivo" /\ \A j \in Ios : io[j].proc = p => j = i
  BY <1>4, <1>6, <1>e, <1>p, Exclusion DEF EnAlguna, LugarBien, IoBien
<1>8. SinHilo(p)
  <2>1. ~Esta(p, "EXEC") /\ ~Esta(p, "EXIT_ESTADO")
    BY <1>6, <1>e, Exclusion
  <2>. QED BY <2>1, Exclusion DEF SinHilo
<1>9. UnaSolaCola' /\ \A q : \A f \in Estados : Esta(q, f)' <=> Esta(q, f)
  BY <1>1, ColaQuieta DEF Lugares
<1>10. /\ EnAlguna(p)' <=> EnAlguna(p)
       /\ Sacado(p)' <=> Sacado(p)
       /\ Suspende(p)' <=> Suspende(p)
       /\ \A k \in Veces : Vigente(p, k)' <=> Vigente(p, k)
       /\ \A q \in Procs : Admite(q)' <=> Admite(q)
  BY <1>1, <1>9 DEF EnAlguna, Sacado, Suspende, Vence, TimersDe, Vigente, Admite
<1>11. HiloBien(p)' /\ AusenteBien(p)'
  BY <1>1, <1>7, <1>8 DEF HiloBien, AusenteBien, SinHilo
<1>12. IoBien(p)'
  <2>1. \A j \in Ios : io'[j].proc = p => j = i
    BY <1>2, <1>7
  <2>2. io'[i].pc \notin PcsAReady /\ io'[i].pc # "trabaja"
    BY <1>6 DEF PcsAReady
  <2>. QED BY <1>3, <1>4, <1>6, <1>9, <1>10, <1>e, <2>1, <2>2 DEF IoBien
<1>13. TimerBien(p)'
  BY <1>1, <1>4, <1>9, <1>10, <1>e DEF LugarBien, TimerBien, Separada
<1>14. PlanBien(p)'
  BY <1>1, <1>3, <1>4, <1>7, <1>9, <1>10, <1>e DEF LugarBien, PlanBien, Nulo, Basura
<1>15. LugarBien(p)'
  BY <1>11, <1>12, <1>13, <1>14 DEF LugarBien
<1>16. Ociosos'
  <2>1. io'[i].pc \in PcsConProceso
    BY <1>6 DEF PcsConProceso, PcsAlFinal
  <2>. QED BY <1>1, <1>2, <2>1 DEF Lugares, Ociosos
<1>17. \A q \in Procs : q # p => Quieto(q)
  BY <1>1, <1>2, <1>3, <1>9, <1>10, <1>p DEF Quieto
<1>. QED BY <1>9, <1>15, <1>16, <1>17, CambiaUno

LEMMA IoSacaLugares ==
    ASSUME IInv, Lugares, NEW i \in Ios, IoSaca(i)
    PROVE  Lugares' /\ Mueve(io[i].proc, {})
<1>. USE DEF planif, disposi, pcbs
<1>e. {"EXEC", "EXIT_ESTADO", "BLOCKED", "SUSP_BLOCKED"} \subseteq Estados
  BY DEF Estados
<1>t. io \in [Ios -> TipoIo] /\ cola \in Colas
  BY DEF IInv, TypeOK, Colas
<1>0. io[i].proc \in Procs
  BY DEF IoSaca, IInv, ConProceso
<1>p. PICK p \in Procs : p = io[i].proc
  BY <1>0
<1>1. UNCHANGED <<hilo, timer, nombreIo, veces, flag, vivo, mediano, medianoFifo>>
  BY DEF IoSaca
<1>2. PICK e \in {"BLOCKED", "SUSP_BLOCKED"} :
         /\ io[i].pc = IF e = "BLOCKED" THEN "enBlocked" ELSE "enSusp"
         /\ cola' = Sacar(p, e)
         /\ io' = [io EXCEPT ![i].pc = IF e = "BLOCKED" THEN "aReady" ELSE "aSuspReady"]
  BY <1>p DEF IoSaca
<1>3. /\ io'[i].pc \in PcsAReady /\ io'[i].proc = p
      /\ \A j \in Ios : j # i => io'[j] = io[j]
  BY <1>2, <1>p, <1>t, UnDispositivo DEF PcsAReady
<1>4. LugarBien(p) /\ Esta(p, e)
  BY <1>2, <1>p DEF Lugares, LugarBien, IoBien
<1>5. /\ ~Suspende(p) /\ nombreIo[p] \in {Vacio, Nulo}
      /\ \A j \in Ios : io[j].proc = p => j = i
  BY <1>2, <1>4, <1>p DEF LugarBien, IoBien, PcsAlFinal
<1>6. EnAlguna(p) /\ ~Admite(p) /\ vivo[p] = "vivo"
  BY <1>4, <1>e, Exclusion DEF EnAlguna
<1>7. SinHilo(p)
  <2>1. ~Esta(p, "EXEC") /\ ~Esta(p, "EXIT_ESTADO")
    BY <1>4, <1>e, Exclusion
  <2>. QED BY <2>1, Exclusion DEF SinHilo
<1>8. UnaSolaCola' /\ QuedaEn(p, {})
  BY <1>2, <1>4, <1>e, <1>t, ColaSale DEF Lugares
<1>9. ~EnAlguna(p)' /\ ~Esta(p, "BLOCKED")' /\ ~Esta(p, "SUSP_BLOCKED")'
  BY <1>8, <1>e DEF QuedaEn, EnAlguna
<1>10. /\ Sacado(p)' <=> Sacado(p)
       /\ Suspende(p)' <=> Suspende(p)
       /\ \A k \in Veces : Vigente(p, k)' <=> Vigente(p, k)
       /\ \A q \in Procs : Admite(q)' <=> Admite(q)
  BY <1>1 DEF Sacado, Suspende, Vence, TimersDe, Vigente, Admite
<1>11. /\ ~Sacado(p)' /\ ~flag'[p] /\ mediano'.proc # p
       /\ \A k \in Veces : timer'[p][k].pc \notin {"visto", "sacado"}
  BY <1>1, <1>5 DEF Suspende, Vence, Sacado, TimersDe
<1>12. HiloBien(p)' /\ AusenteBien(p)'
  BY <1>1, <1>6, <1>7 DEF HiloBien, AusenteBien, SinHilo
<1>13. IoBien(p)'
  <2>1. \A j \in Ios : io'[j].proc = p => j = i
    BY <1>3, <1>5
  <2>2. io'[i].pc \notin {"trabaja", "enBlocked", "enSusp"}
    BY <1>3 DEF PcsAReady
  <2>. QED BY <1>1, <1>5, <1>9, <1>10, <2>1, <2>2 DEF IoBien
<1>14. TimerBien(p)'
  BY <1>1, <1>4, <1>5, <1>10, <1>11 DEF LugarBien, TimerBien, Separada
<1>15. PlanBien(p)'
  BY <1>6, <1>9, <1>10, <1>11 DEF PlanBien, Bloqueado
<1>16. LugarBien(p)'
  BY <1>12, <1>13, <1>14, <1>15 DEF LugarBien
<1>17. Ociosos'
  <2>1. io'[i].pc \in PcsConProceso
    BY <1>3 DEF PcsConProceso, PcsAlFinal
  <2>. QED BY <1>1, <1>3, <2>1 DEF Lugares, Ociosos
<1>18. \A q \in Procs : q # p => Quieto(q)
  BY <1>1, <1>3, <1>8, <1>10, <1>p DEF Quieto, QuedaEn
<1>19. Lugares' /\ Mueve(p, {})
  BY <1>8, <1>16, <1>17, <1>18, CambiaUno DEF Mueve
<1>. QED BY <1>p, <1>19

LEMMA IoTransicionaLugares ==
    ASSUME IInv, Lugares, NEW i \in Ios, IoTransiciona(i)
    PROVE  /\ Lugares'
           /\ Mueve(io[i].proc, IF io[i].pc = "aReady" THEN {"READY"} ELSE {"SUSP_READY"})
<1>. USE DEF planif, disposi, pcbs
<1>e. {"READY", "SUSP_READY", "BLOCKED", "SUSP_BLOCKED"} \subseteq Estados
  BY DEF Estados
<1>n. \A q \in Procs : q # Nadie
  BY ConstantesAssumption
<1>t. io \in [Ios -> TipoIo] /\ cola \in Colas
  BY DEF IInv, TypeOK, Colas
<1>0. io[i].proc \in Procs
  BY DEF IoTransiciona, IInv, ConProceso
<1>p. PICK p \in Procs : p = io[i].proc
  BY <1>0
<1>1. /\ UNCHANGED <<hilo, timer, nombreIo, veces, flag, vivo, mediano, medianoFifo>>
      /\ io' = [io EXCEPT ![i].pc = "espera", ![i].proc = Nadie]
  BY DEF IoTransiciona
<1>2. PICK e \in {"READY", "SUSP_READY"} :
         /\ io[i].pc = IF e = "READY" THEN "aReady" ELSE "aSuspReady"
         /\ cola' = [cola EXCEPT ![e] = Append(@, p)]
  BY <1>p DEF IoTransiciona
<1>3. /\ io'[i].pc = "espera" /\ io'[i].proc = Nadie
      /\ \A j \in Ios : j # i => io'[j] = io[j]
  BY <1>1, <1>t, UnDispositivo
<1>4. io[i].pc \in PcsAReady /\ io[i].pc \in PcsAlFinal
  BY <1>2 DEF PcsAReady, PcsAlFinal
<1>5. /\ LugarBien(p) /\ ~EnAlguna(p) /\ ~Suspende(p)
      /\ \A j \in Ios : io[j].proc = p => j = i
  BY <1>4, <1>p DEF Lugares, LugarBien, IoBien
<1>6. /\ ~Sacado(p) /\ ~flag[p] /\ mediano.proc # p
      /\ \A k \in Veces : timer[p][k].pc # "visto"
  BY <1>5 DEF Suspende, Vence, Sacado, TimersDe
<1>7. SinHilo(p) /\ ~Admite(p) /\ vivo[p] = "vivo"
  <2>1. ~Esta(p, "EXEC") /\ ~Esta(p, "EXIT_ESTADO")
    BY <1>5 DEF EnAlguna, Estados
  <2>2. ~SinDispositivo(p)
    BY <1>p DEF SinDispositivo
  <2>. QED BY <1>5, <2>1, <2>2, Exclusion DEF SinHilo, LugarBien, PlanBien, AusenteBien
<1>8. UnaSolaCola' /\ QuedaEn(p, {e})
  BY <1>2, <1>5, <1>e, <1>t, ColaEntra DEF Lugares
<1>9. ~Esta(p, "BLOCKED")' /\ ~Esta(p, "SUSP_BLOCKED")'
  BY <1>8, <1>e DEF QuedaEn
<1>10. SinDispositivo(p)' /\ ~Admite(p)' /\ HiloBien(p)' /\ AusenteBien(p)'
  BY <1>1, <1>3, <1>5, <1>7, <1>n DEF SinDispositivo, Admite, HiloBien, AusenteBien, SinHilo
<1>11. LugarBien(p)'
  BY <1>1, <1>5, <1>6, <1>9, <1>10, LugarSuelto
<1>12. Ociosos'
  BY <1>1, <1>3 DEF Lugares, Ociosos
<1>13. \A q \in Procs : q # p => Quieto(q)
  BY <1>1, <1>3, <1>8, <1>n, <1>p DEF Quieto, QuedaEn, Admite
<1>14. Lugares' /\ Mueve(p, {e})
  BY <1>8, <1>11, <1>12, <1>13, CambiaUno DEF Mueve
<1>. QED BY <1>2, <1>p, <1>14

-----------------------------------------------------------------------------
(* All the steps.                                                          *)

LEMMA InitLugares ==
    ASSUME Init
    PROVE  Lugares
<1>e. Estados = {"NEW", "READY", "BLOCKED", "EXEC", "EXIT_ESTADO", "SUSP_READY", "SUSP_BLOCKED"}
  BY DEF Estados
<1>n. \A q \in Procs : q # Nadie
  BY ConstantesAssumption
<1>1. /\ cola["NEW"] = <<ProcesoInicial>>
      /\ \A e \in Estados : e # "NEW" => cola[e] = <<>>
  BY <1>e DEF Init
<1>2. DOMAIN <<ProcesoInicial>> = 1 .. 1 /\ \A i \in 1 .. 1 : i = 1
  OBVIOUS
<1>3. DOMAIN <<>> = {}
  OBVIOUS
<1>4. UnaSolaCola
  BY <1>1, <1>2, <1>3 DEF UnaSolaCola
<1>5. Ociosos
  BY DEF Init, Ociosos, HiloLibre
<1>6. ASSUME NEW p \in Procs
      PROVE  LugarBien(p)
  <2>1. /\ SinHilo(p) /\ SinDispositivo(p) /\ ~Admite(p) /\ mediano.proc # p /\ ~flag[p]
        /\ \A k \in Veces : timer[p][k].pc = "no"
    BY <1>n DEF Init, SinHilo, SinDispositivo, Admite, HiloLibre
  <2>2. ~Sacado(p) /\ ~Suspende(p) /\ ~Llevado(p) /\ \A k \in Veces : ~Vigente(p, k)
    BY <2>1 DEF Sacado, Suspende, Vence, TimersDe, Vigente, Llevado
  <2>3. ~Esta(p, "BLOCKED") /\ ~Esta(p, "SUSP_BLOCKED")
    BY <1>1, <1>3, <1>e DEF Esta
  <2>4. vivo[p] # "vivo" => ~EnAlguna(p)
    <3>1. vivo[p] # "vivo" => p # ProcesoInicial
      BY DEF Init
    <3>. QED BY <1>1, <1>2, <1>3, <3>1 DEF EnAlguna, Esta
  <2>5. HiloBien(p) /\ IoBien(p)
    BY <2>1 DEF HiloBien, IoBien, SinHilo, SinDispositivo
  <2>6. TimerBien(p) /\ PlanBien(p) /\ AusenteBien(p)
    BY <2>1, <2>2, <2>3, <2>4 DEF TimerBien, PlanBien, AusenteBien, Bloqueado
  <2>. QED BY <2>5, <2>6 DEF LugarBien
<1>. QED BY <1>4, <1>5, <1>6 DEF Lugares

LEMMA NextLugares ==
    ASSUME Regimen, IInv, CabezaRetenida, Lugares, [Next]_vars
    PROVE  Lugares'
<1>1. CASE PasoQuieto
  BY <1>1, PasoQuietoLugares
<1>2. CASE Largo
  BY <1>1, <1>2, LargoAdmiteLugares DEF Largo, PasoQuieto
<1>3. CASE MedianoFifo
  BY <1>1, <1>3, MedianoFifoLugares DEF MedianoFifo, PasoQuieto
<1>4. CASE Mediano
  BY <1>1, <1>4, MedianoLugares DEF Mediano, PasoQuieto
<1>5. CASE Corto
  BY <1>5, DespacharLugares DEF Corto
<1>6. CASE \E h \in Hilos : Hilo(h)
  BY <1>6, HiloLugares
<1>7. CASE \E p \in Procs, k \in Veces : Timer(p, k)
  BY <1>7, TimerMiraLugares, TimerSacaLugares, TimerSuspendeLugares DEF Timer
<1>8. CASE \E i \in Ios : ConectarIo(i) \/ Io(i)
  BY <1>1, <1>8, IoDespiertaLugares, IoTerminaLugares, IoSacaLugares, IoTransicionaLugares DEF Io, PasoQuieto
<1>9. CASE (\E c \in Cpus : ConectarCpu(c)) \/ UsoTrasLiberar \/ UNCHANGED vars
  BY <1>1, <1>9 DEF PasoQuieto
<1>. QED BY <1>2, <1>3, <1>4, <1>5, <1>6, <1>7, <1>8, <1>9 DEF Next

\* Each process is where the threads that work on it say: what a queue at most,
\* and a device at most, per process need to be inductive.
THEOREM InvarianteDeLugares == ASSUME Regimen PROVE Spec => []Lugares
<1>1. Init => Lugares
  BY InitLugares
<1>2. IInv /\ IInvPerdido /\ Lugares /\ [Next]_vars => Lugares'
  BY NextLugares DEF IInvPerdido
<1>. QED BY <1>1, <1>2, InvarianteInductivo, InvarianteDePerdidos, PTL DEF Spec

\* A process is in one state queue at most, and once: no timer, device or planner
\* inserts it while another one still has it.
THEOREM ProcesosEnUnaCola == ASSUME Regimen PROVE Spec => []UnaSolaCola
<1>1. Lugares => UnaSolaCola
  BY DEF Lugares
<1>. QED BY <1>1, InvarianteDeLugares, PTL

\* Two device threads never serve the same process, also when they share a name
\* and its semaphore.
THEOREM DispositivosDistintos == ASSUME Regimen PROVE Spec => []UnDispositivoPorProceso
<1>1. IInv /\ Lugares => UnDispositivoPorProceso
  <2> SUFFICES ASSUME IInv, Lugares, NEW i \in Ios, NEW j \in Ios, i # j, io[i].proc # Nadie,
                      io[j].proc = io[i].proc
               PROVE  FALSE
    BY DEF UnDispositivoPorProceso
  <2>1. io[i].proc \in Procs
    BY DEF IInv, TypeOK, TipoIo
  <2>. QED BY <2>1 DEF Lugares, LugarBien, IoBien
<1>. QED BY <1>1, InvarianteInductivo, InvarianteDeLugares, PTL

-----------------------------------------------------------------------------
(* The frames: where the memory module keeps a process.                    *)

\* p is ready or runs, was accepted for that, or waits in BLOCKED or is still
\* to be suspended.
EnMemoria(p) ==
    \/ largo = "admite" /\ p = Head(cola["NEW"])
    \/ medianoFifo.pc \in {"saca", "admite"} /\ medianoFifo.proc = p
    \/ mediano.pc = "envia" /\ mediano.proc = p
    \/ Esta(p, "READY") \/ Esta(p, "EXEC") \/ Esta(p, "BLOCKED")
    \/ flag[p]
    \/ \E i \in Ios : io[i].proc = p /\ io[i].pc = "aReady"

Ubicados == \A p \in Procs : EnMemoria(p) => ubicacion[p] = "memoria"

\* p was suspended and medianoFifo has not brought it back.
EnSwap(p) ==
    \/ mediano.pc = "intenta" /\ mediano.proc = p
    \/ Esta(p, "SUSP_BLOCKED") /\ ~flag[p] /\ mediano.proc # p
    \/ Esta(p, "SUSP_READY") /\ medianoFifo # [pc |-> "saca", proc |-> p]
    \/ \E i \in Ios : io[i].proc = p /\ io[i].pc = "aSuspReady"

Suspendidos == \A p \in Procs : EnSwap(p) => ubicacion[p] = "swap"

\* A step that moves no process from one of these groups to another.
Conserva == \A q \in Procs : /\ EnMemoria(q)' => EnMemoria(q)
                             /\ EnSwap(q)' => EnSwap(q)
                             /\ ubicacion'[q] = ubicacion[q]

LEMMA ConservaMarcos ==
    ASSUME Conserva
    PROVE  (Ubicados => Ubicados') /\ (Suspendidos => Suspendidos')
BY DEF Conserva, Ubicados, Suspendidos

\* largo only accepts the head of NEW, which stays there until it is admitted.
CabezaNew == largo' = "admite" => largo = "admite" /\ Head(cola'["NEW"]) = Head(cola["NEW"])

\* The groups of everyone but p, when p is the one that moves.
LEMMA OtrosConservan ==
    ASSUME NEW p \in Procs, NEW T, QuedaEn(p, T), CabezaNew,
           medianoFifo' = medianoFifo, mediano' = mediano,
           NEW q \in Procs, q # p, flag'[q] = flag[q],
           \A i \in Ios : io'[i] = io[i] \/ (io[i].proc # q /\ io'[i].proc # q)
    PROVE  /\ EnMemoria(q)' => EnMemoria(q)
           /\ EnSwap(q)' => EnSwap(q)
<1>e. {"READY", "EXEC", "BLOCKED", "SUSP_BLOCKED", "SUSP_READY"} \subseteq Estados
  BY DEF Estados
<1>1. \A f \in Estados : Esta(q, f)' <=> Esta(q, f)
  BY DEF QuedaEn
<1>. QED BY <1>1, <1>e DEF EnMemoria, EnSwap, CabezaNew

\* No queue changes.
LEMMA SinColasConserva ==
    ASSUME cola' = cola, largo' = "admite" => largo = "admite",
           medianoFifo' = medianoFifo, mediano' = mediano, flag' = flag, ubicacion' = ubicacion,
           \A i \in Ios : io'[i].pc \in PcsAReady => io'[i] = io[i]
    PROVE  Conserva
<1>1. \A q : \A f \in Estados : Esta(q, f)' <=> Esta(q, f)
  BY DEF Esta
<1>2. {"READY", "EXEC", "BLOCKED", "SUSP_BLOCKED", "SUSP_READY"} \subseteq Estados
  BY DEF Estados
<1>. QED BY <1>1, <1>2 DEF Conserva, EnMemoria, EnSwap, PcsAReady

LEMMA SinColasMarcos ==
    ASSUME IInv,
           \/ LargoDespierta \/ LargoEsperaVacia \/ LargoRechazado
           \/ UsoTrasLiberar \/ UNCHANGED vars
           \/ \E c \in Cpus : ConectarCpu(c)
           \/ \E h \in Hilos : FinalizarIntenta(h) \/ SyscallIo(h)
           \/ \E h \in Hilos, n \in Nombres : IoBuscaDispositivo(h, n)
           \/ \E p \in Procs, k \in Veces : TimerNace(p, k) \/ TimerCompara(p, k) \/ TimerBusca(p, k)
           \/ \E i \in Ios : ConectarIo(i) \/ RegistrarIo(i) \/ IoDespierta(i) \/ IoBusca(i) \/ IoTermina(i)
    PROVE  Conserva
<1>. USE DEF planif, disposi, pcbs, memoria
<1>t. io \in [Ios -> TipoIo]
  BY DEF IInv, TypeOK
<1>1. ASSUME NEW i \in Ios,
             ConectarIo(i) \/ RegistrarIo(i) \/ IoDespierta(i) \/ IoBusca(i) \/ IoTermina(i)
      PROVE  Conserva
  <2>1. UNCHANGED <<cola, largo, medianoFifo, mediano, flag, ubicacion>>
    BY <1>1 DEF ConectarIo, RegistrarIo, IoDespierta, IoBusca, IoTermina
  <2>2. /\ \A j \in Ios : j # i => io'[j] = io[j]
        /\ io'[i].pc \in PcsAReady => io'[i] = io[i]
    <3>1. CASE ConectarIo(i)
      BY <1>t, <3>1 DEF ConectarIo, TipoIo, PcsAReady
    <3>2. CASE RegistrarIo(i)
      <4>1. io'[i].pc = "espera" /\ \A j \in Ios : j # i => io'[j] = io[j]
        BY <1>t, <3>2, UnDispositivo DEF RegistrarIo
      <4>. QED BY <4>1 DEF PcsAReady
    <3>3. CASE IoDespierta(i) \/ IoBusca(i)
      <4>1. CASE \E p \in Procs : Toma(i, p)
        <5>0. PICK p \in Procs : io' = [io EXCEPT ![i].pc = "trabaja", ![i].proc = p]
          BY <4>1 DEF Toma
        <5>1. io'[i].pc = "trabaja" /\ \A j \in Ios : j # i => io'[j] = io[j]
          BY <1>t, <5>0, UnDispositivo
        <5>. QED BY <5>1 DEF PcsAReady
      <4>2. CASE io' = io \/ io' = [io EXCEPT ![i].pc = "busca"]
        <5>1. io' = io \/ (io'[i].pc = "busca" /\ \A j \in Ios : j # i => io'[j] = io[j])
          BY <1>t, <4>2, UnDispositivo
        <5>. QED BY <5>1 DEF PcsAReady
      <4>. QED BY <3>3, <4>1, <4>2 DEF IoDespierta, IoBusca
    <3>4. CASE IoTermina(i)
      <4>1. io'[i].pc = DondeEsta(io[i].proc) /\ \A j \in Ios : j # i => io'[j] = io[j]
        BY <1>t, <3>4, UnDispositivo DEF IoTermina
      <4>2. DondeEsta(io[i].proc) \notin PcsAReady
        BY DEF DondeEsta, PcsAReady
      <4>. QED BY <4>1, <4>2
    <3>. QED BY <1>1, <3>1, <3>2, <3>3, <3>4
  <2>3. \A j \in Ios : io'[j].pc \in PcsAReady => io'[j] = io[j]
    BY <2>2
  <2>. QED BY <2>1, <2>3, SinColasConserva
<1>2. CASE \/ \E p \in Procs, k \in Veces : TimerNace(p, k) \/ TimerCompara(p, k) \/ TimerBusca(p, k)
           \/ \E h \in Hilos : FinalizarIntenta(h) \/ SyscallIo(h)
           \/ \E h \in Hilos, n \in Nombres : IoBuscaDispositivo(h, n)
  <2>1. UNCHANGED <<cola, largo, medianoFifo, mediano, flag, ubicacion, io>>
    BY <1>2 DEF TimerNace, TimerCompara, TimerBusca, FinalizarIntenta, SyscallIo, IoBuscaDispositivo
  <2>. QED BY <2>1, SinColasConserva
<1>3. CASE LargoDespierta \/ LargoEsperaVacia \/ LargoRechazado
  <2>1. UNCHANGED <<cola, medianoFifo, mediano, flag, ubicacion, io>> /\ largo' # "admite"
    BY <1>3 DEF LargoDespierta, LargoEsperaVacia, LargoRechazado
  <2>. QED BY <2>1, SinColasConserva
<1>4. CASE UsoTrasLiberar \/ UNCHANGED vars \/ \E c \in Cpus : ConectarCpu(c)
  <2>1. UNCHANGED <<cola, largo, medianoFifo, mediano, flag, ubicacion, io>>
    BY <1>4 DEF UsoTrasLiberar, vars, ConectarCpu
  <2>. QED BY <2>1, SinColasConserva
<1>. QED BY <1>1, <1>2, <1>3, <1>4

LEMMA LargoMarcos ==
    ASSUME IInv, Lugares, Ubicados, LargoAceptado \/ LargoAdmite
    PROVE  Ubicados' /\ (Suspendidos => Suspendidos')
<1>. USE DEF planif, disposi, pcbs, memoria
<1>e. {"NEW", "READY", "EXEC", "BLOCKED", "SUSP_BLOCKED", "SUSP_READY"} \subseteq Estados
  BY DEF Estados
<1>t. /\ cola \in Colas /\ cola["NEW"] \in Seq(Procs)
      /\ ubicacion \in [Procs -> {"fuera", "memoria", "swap"}]
  BY <1>e DEF IInv, TypeOK, Colas
<1>1. CASE LargoAceptado
  <2>1. /\ UNCHANGED <<cola, medianoFifo, mediano, flag, io>> /\ cola["NEW"] # <<>>
        /\ ubicacion' = [ubicacion EXCEPT ![Head(cola["NEW"])] = "memoria"]
    BY <1>1, ColasVacias DEF LargoAceptado
  <2>2. Head(cola["NEW"]) \in Procs /\ Figura(Head(cola["NEW"]), cola["NEW"])
    BY <1>e, <1>t, <2>1, UnaSolaColaPartes, TailSinRepetir DEF Lugares
  <2>3. PICK p \in Procs : p = Head(cola["NEW"]) /\ Esta(p, "NEW")
    BY <2>2, EstaFigura
  <2>4. /\ ubicacion'[p] = "memoria" /\ \A q \in Procs : q # p => ubicacion'[q] = ubicacion[q]
        /\ \A q : \A f \in Estados : Esta(q, f)' <=> Esta(q, f)
    BY <1>t, <2>1, <2>3 DEF Esta
  <2>5. \A q \in Procs : q # p => (EnMemoria(q)' => EnMemoria(q))
    BY <1>e, <2>1, <2>3, <2>4 DEF EnMemoria
  <2>6. \A q \in Procs : EnSwap(q)' => EnSwap(q)
    BY <1>e, <2>1, <2>4 DEF EnSwap
  <2>7. ~EnSwap(p)
    BY <1>e, <2>3, Exclusion DEF EnSwap, EnAlguna, Lugares, LugarBien, PlanBien
  <2>. QED BY <2>4, <2>5, <2>6, <2>7 DEF Ubicados, Suspendidos
<1>2. CASE LargoAdmite
  <2>1. /\ UNCHANGED <<ubicacion, flag, io, medianoFifo, mediano>>
        /\ cola' = MoverPrimero("NEW", "READY") /\ largo = "admite" /\ largo' = "duerme"
    BY <1>2 DEF LargoAdmite
  <2>2. PICK p \in Procs : /\ QuedaEn(p, {"READY"}) /\ Esta(p, "NEW")
                           /\ p = Head(cola["NEW"])
    BY <2>1, <1>e, ColasVacias, ColaPasaPrimero DEF Lugares
  <2>3. EnMemoria(p)
    BY <2>1, <2>2 DEF EnMemoria
  <2>4. EnSwap(p)' => EnSwap(p)
    BY <1>e, <2>1, <2>2 DEF EnSwap, QuedaEn
  <2>5. \A q \in Procs : q # p => (EnMemoria(q)' => EnMemoria(q)) /\ (EnSwap(q)' => EnSwap(q))
    BY <2>1, <2>2, OtrosConservan DEF CabezaNew
  <2>. QED BY <2>1, <2>3, <2>4, <2>5 DEF Ubicados, Suspendidos
<1>. QED BY <1>1, <1>2

LEMMA MedianoFifoMarcos ==
    ASSUME IInv, CabezaRetenida, Lugares, Ubicados, MedianoFifo
    PROVE  Ubicados' /\ (Suspendidos => Suspendidos')
<1>. USE DEF planif, disposi, pcbs, memoria
<1>e. {"NEW", "READY", "EXEC", "BLOCKED", "SUSP_BLOCKED", "SUSP_READY"} \subseteq Estados
  BY DEF Estados
<1>n. \A q \in Procs : q # Nadie
  BY ConstantesAssumption
<1>t. /\ cola \in Colas
      /\ ubicacion \in [Procs -> {"fuera", "memoria", "swap"}]
      /\ medianoFifo \in [pc : {"duerme", "consulta", "saca", "admite", "avisa"}, proc : Procs \cup {Nadie}]
  BY DEF IInv, TypeOK, Colas
<1>1. UNCHANGED <<largo, mediano, flag, io>>
  BY DEF MedianoFifo, MedianoFifoDespierta, MedianoFifoAceptado, MedianoFifoRechazado,
         MedianoFifoSaca, MedianoFifoAdmite, MedianoFifoAvisa
<1>2. CASE MedianoFifoDespierta \/ MedianoFifoRechazado \/ MedianoFifoAvisa
  <2>1. /\ UNCHANGED <<cola, ubicacion>> /\ medianoFifo.pc # "saca" /\ medianoFifo'.pc \notin {"saca", "admite"}
    BY <1>2 DEF MedianoFifoDespierta, MedianoFifoRechazado, MedianoFifoAvisa
  <2>2. \A q : \A f \in Estados : Esta(q, f)' <=> Esta(q, f)
    BY <2>1 DEF Esta
  <2>3. Conserva
    BY <1>1, <1>e, <2>1, <2>2 DEF Conserva, EnMemoria, EnSwap
  <2>. QED BY <2>3, ConservaMarcos
<1>3. CASE MedianoFifoAceptado
  <2>1. /\ UNCHANGED cola /\ ubicacion' = [ubicacion EXCEPT ![medianoFifo.proc] = "memoria"]
        /\ medianoFifo.pc = "consulta"
        /\ medianoFifo' = [medianoFifo EXCEPT !.pc = "saca"]
    BY <1>3 DEF MedianoFifoAceptado
  <2>2. PICK p \in Procs : p = medianoFifo.proc
    BY <2>1 DEF IInv, ConProceso
  <2>3. medianoFifo' = [pc |-> "saca", proc |-> p]
    BY <1>t, <2>1, <2>2
  <2>4. cola["SUSP_READY"] # <<>> /\ p = Head(cola["SUSP_READY"])
    BY <2>1, <2>2 DEF CabezaRetenida
  <2>5. Esta(p, "SUSP_READY")
    BY <1>e, <1>t, <2>4, UnaSolaColaPartes, TailSinRepetir, EstaFigura DEF Lugares, Colas
  <2>6. /\ ubicacion'[p] = "memoria" /\ \A q \in Procs : q # p => ubicacion'[q] = ubicacion[q]
        /\ \A q : \A f \in Estados : Esta(q, f)' <=> Esta(q, f)
    BY <1>t, <2>1, <2>2 DEF Esta
  <2>7. \A q \in Procs : q # p => (EnMemoria(q)' => EnMemoria(q)) /\ (EnSwap(q)' => EnSwap(q))
    BY <1>1, <1>e, <2>1, <2>3, <2>6 DEF EnMemoria, EnSwap
  <2>8. ~EnSwap(p)'
    <3>1. /\ ~Esta(p, "SUSP_BLOCKED") /\ mediano.proc # p
          /\ \A i \in Ios : io[i].proc = p => io[i].pc # "aSuspReady"
      BY <1>e, <2>5, Exclusion DEF EnAlguna, Lugares, LugarBien, PlanBien
    <3>. QED BY <1>1, <1>e, <2>3, <2>6, <3>1 DEF EnSwap
  <2>. QED BY <2>6, <2>7, <2>8 DEF Ubicados, Suspendidos
<1>4. CASE MedianoFifoSaca
  <2>1. /\ UNCHANGED ubicacion /\ cola' = [cola EXCEPT !["SUSP_READY"] = Tail(@)]
        /\ cola["SUSP_READY"] # <<>> /\ medianoFifo.pc = "saca"
        /\ medianoFifo.proc = Head(cola["SUSP_READY"])
        /\ medianoFifo' = [pc |-> "admite", proc |-> Head(cola["SUSP_READY"])]
    BY <1>4 DEF MedianoFifoSaca, CabezaRetenida
  <2>2. PICK p \in Procs : QuedaEn(p, {}) /\ p = Head(cola["SUSP_READY"])
    BY <1>e, <1>t, <2>1, ColaSalePrimero DEF Lugares
  <2>3. medianoFifo.proc = p /\ medianoFifo' = [pc |-> "admite", proc |-> p] /\ cola'["NEW"] = cola["NEW"]
    BY <1>e, <1>t, <2>1, <2>2 DEF Colas
  <2>4. EnMemoria(p) /\ (EnSwap(p)' => EnSwap(p))
    BY <1>1, <1>e, <2>1, <2>2, <2>3 DEF EnMemoria, EnSwap, QuedaEn
  <2>5. \A q \in Procs : q # p => (EnMemoria(q)' => EnMemoria(q)) /\ (EnSwap(q)' => EnSwap(q))
    BY <1>1, <1>e, <2>1, <2>2, <2>3 DEF EnMemoria, EnSwap, QuedaEn
  <2>. QED BY <2>1, <2>4, <2>5 DEF Ubicados, Suspendidos
<1>5. CASE MedianoFifoAdmite
  <2>1. /\ UNCHANGED ubicacion /\ cola' = [cola EXCEPT !["READY"] = Append(@, medianoFifo.proc)]
        /\ medianoFifo.pc = "admite" /\ medianoFifo' = [pc |-> "avisa", proc |-> Nadie]
    BY <1>5 DEF MedianoFifoAdmite
  <2>2. PICK p \in Procs : p = medianoFifo.proc
    BY <2>1 DEF IInv, ConProceso
  <2>3. ~EnAlguna(p)
    BY <2>1, <2>2 DEF Lugares, LugarBien, PlanBien, Admite
  <2>4. QuedaEn(p, {"READY"}) /\ cola'["NEW"] = cola["NEW"]
    BY <1>e, <1>t, <2>1, <2>2, <2>3, ColaEntra DEF Lugares, Colas
  <2>5. EnMemoria(p) /\ (EnSwap(p)' => EnSwap(p))
    BY <1>1, <1>e, <2>1, <2>2, <2>4 DEF EnMemoria, EnSwap, QuedaEn
  <2>6. \A q \in Procs : q # p => (EnMemoria(q)' => EnMemoria(q)) /\ (EnSwap(q)' => EnSwap(q))
    BY <1>1, <1>e, <2>1, <2>4 DEF EnMemoria, EnSwap, QuedaEn
  <2>. QED BY <2>1, <2>5, <2>6 DEF Ubicados, Suspendidos
<1>. QED BY <1>2, <1>3, <1>4, <1>5 DEF MedianoFifo

\* Here VaASwap needs a process with pages.
LEMMA MedianoMarcos ==
    ASSUME IInv, CabezaRetenida, Lugares, Ubicados, Mediano
    PROVE  Ubicados' /\ ((\A p \in Procs : Tam[p] > 0) /\ Suspendidos => Suspendidos')
<1>. USE DEF planif, disposi, pcbs, memoria
<1>e. {"NEW", "READY", "EXEC", "BLOCKED", "SUSP_BLOCKED", "SUSP_READY"} \subseteq Estados
  BY DEF Estados
<1>t. /\ ubicacion \in [Procs -> {"fuera", "memoria", "swap"}] /\ flag \in [Procs -> BOOLEAN]
      /\ mediano \in [pc : {"duerme", "envia", "intenta"}, proc : Procs \cup {Nadie}]
  BY DEF IInv, TypeOK
<1>1. UNCHANGED <<cola, largo, medianoFifo, io>>
  BY DEF Mediano, MedianoDespierta, MedianoEnvia, MedianoIntenta
<1>2. \A q : \A f \in Estados : Esta(q, f)' <=> Esta(q, f)
  BY <1>1 DEF Esta
<1>3. CASE MedianoDespierta
  <2>1. UNCHANGED ubicacion /\ mediano.pc = "duerme"
    BY <1>3 DEF MedianoDespierta
  <2>2. CASE UNCHANGED <<flag, mediano>>
    <3>1. Conserva
      BY <1>1, <1>2, <1>e, <2>1, <2>2 DEF Conserva, EnMemoria, EnSwap
    <3>. QED BY <3>1, ConservaMarcos
  <2>3. ASSUME NEW p \in Procs, PrimeroASuspender(p),
               flag' = [flag EXCEPT ![p] = FALSE], mediano' = [pc |-> "envia", proc |-> p]
        PROVE  Ubicados' /\ (Suspendidos => Suspendidos')
    <3>1. flag[p] /\ ~flag'[p] /\ \A q \in Procs : q # p => flag'[q] = flag[q]
      BY <2>3, <1>t DEF PrimeroASuspender
    <3>2. mediano.proc # p
      BY <3>1 DEF Lugares, LugarBien, PlanBien
    <3>3. EnMemoria(p) /\ (EnSwap(p)' => EnSwap(p))
      BY <1>1, <1>2, <1>e, <2>1, <2>3, <3>1, <3>2 DEF EnMemoria, EnSwap
    <3>4. \A q \in Procs : mediano.proc # q
      BY <2>1, ConstantesAssumption DEF Lugares, Ociosos
    <3>5. \A q \in Procs : q # p => (EnMemoria(q)' => EnMemoria(q)) /\ (EnSwap(q)' => EnSwap(q))
      BY <1>1, <1>2, <1>e, <2>1, <2>3, <3>1, <3>4 DEF EnMemoria, EnSwap
    <3>. QED BY <2>1, <3>3, <3>5 DEF Ubicados, Suspendidos
  <2>. QED BY <1>3, <2>2, <2>3 DEF MedianoDespierta
<1>4. CASE MedianoEnvia
  <2>1. flag' = flag /\ mediano.pc = "envia"
    BY <1>4 DEF MedianoEnvia
  <2>2. PICK p \in Procs : p = mediano.proc
    BY <2>1 DEF IInv, ConProceso
  <2>3. mediano'.pc = "intenta" /\ mediano'.proc = p
    BY <1>4, <1>t, <2>2 DEF MedianoEnvia
  <2>4. Esta(p, "SUSP_BLOCKED") /\ ~flag[p] /\ ubicacion[p] = "memoria"
    BY <2>1, <2>2 DEF Lugares, LugarBien, PlanBien, Ubicados, EnMemoria
  <2>5. \A q \in Procs : q # p => ubicacion'[q] = ubicacion[q]
    BY <1>4, <1>t, <2>2 DEF MedianoEnvia
  <2>6. Tam[p] > 0 => ubicacion'[p] = "swap"
    BY <1>4, <1>t, <2>2, <2>4 DEF MedianoEnvia, VaASwap
  <2>7. ~EnMemoria(p)'
    <3>1. ~Esta(p, "READY") /\ ~Esta(p, "EXEC") /\ ~Esta(p, "BLOCKED") /\ ~Esta(p, "NEW")
          /\ ~Esta(p, "SUSP_READY") /\ EnAlguna(p)
      BY <1>e, <2>4, Exclusion DEF EnAlguna
    <3>2. ~Admite(p) /\ \A i \in Ios : io[i].proc = p => io[i].pc # "aReady"
      BY <3>1, Exclusion
    <3>3. largo = "admite" => p # Head(cola["NEW"])
      <4>1. cola["NEW"] \in Seq(Procs) /\ SinRepetir(cola["NEW"])
        BY <1>e, UnaSolaColaPartes DEF IInv, TypeOK, Lugares
      <4>2. largo = "admite" => cola["NEW"] # <<>>
        BY ColasVacias
      <4>. QED BY <3>1, <4>1, <4>2, TailSinRepetir, EstaFigura
    <3>4. ~(medianoFifo.pc = "saca" /\ medianoFifo.proc = p)
      <4>1. cola["SUSP_READY"] \in Seq(Procs) /\ SinRepetir(cola["SUSP_READY"])
        BY <1>e, UnaSolaColaPartes DEF IInv, TypeOK, Lugares
      <4>. QED BY <3>1, <4>1, TailSinRepetir, EstaFigura DEF CabezaRetenida
    <3>. QED BY <1>1, <1>2, <1>e, <2>1, <2>3, <2>4, <3>1, <3>2, <3>3, <3>4 DEF EnMemoria, Admite
  <2>8. \A q \in Procs : q # p => (EnMemoria(q)' => EnMemoria(q)) /\ (EnSwap(q)' => EnSwap(q))
    BY <1>1, <1>2, <1>e, <2>1, <2>2, <2>3 DEF EnMemoria, EnSwap
  <2>. QED BY <2>5, <2>6, <2>7, <2>8 DEF Ubicados, Suspendidos
<1>5. CASE MedianoIntenta
  <2>1. /\ UNCHANGED <<flag, ubicacion>> /\ mediano.pc = "intenta"
        /\ mediano' = [pc |-> "duerme", proc |-> Nadie]
    BY <1>5 DEF MedianoIntenta
  <2>2. Conserva
    BY <1>1, <1>2, <1>e, <2>1 DEF Conserva, EnMemoria, EnSwap
  <2>. QED BY <2>2, ConservaMarcos
<1>. QED BY <1>3, <1>4, <1>5 DEF Mediano

\* p moves, or leaves both groups, and nobody else does.
LEMMA UnoMarcos ==
    ASSUME Ubicados, NEW p \in Procs, NEW T, QuedaEn(p, T), CabezaNew,
           medianoFifo' = medianoFifo, mediano' = mediano,
           \A q \in Procs : q # p =>
              /\ flag'[q] = flag[q] /\ ubicacion'[q] = ubicacion[q]
              /\ \A i \in Ios : io'[i] = io[i] \/ (io[i].proc # q /\ io'[i].proc # q),
           \/ /\ EnMemoria(p)' => EnMemoria(p)
              /\ EnSwap(p)' => EnSwap(p)
              /\ ubicacion'[p] = ubicacion[p]
           \/ ~EnMemoria(p)' /\ ~EnSwap(p)'
    PROVE  Ubicados' /\ (Suspendidos => Suspendidos')
<1>1. \A q \in Procs : q # p => (EnMemoria(q)' => EnMemoria(q)) /\ (EnSwap(q)' => EnSwap(q))
  BY OtrosConservan
<1>. QED BY <1>1 DEF Ubicados, Suspendidos

\* A process held as a head is in the queue it heads.
LEMMA CabezasEn ==
    ASSUME IInv, CabezaRetenida, Lugares
    PROVE  /\ largo = "admite" => cola["NEW"] # <<>> /\ Esta(Head(cola["NEW"]), "NEW")
           /\ medianoFifo.pc = "saca" => Esta(medianoFifo.proc, "SUSP_READY")
<1>e. {"NEW", "SUSP_READY"} \subseteq Estados
  BY DEF Estados
<1>1. /\ cola["NEW"] \in Seq(Procs) /\ SinRepetir(cola["NEW"])
      /\ cola["SUSP_READY"] \in Seq(Procs) /\ SinRepetir(cola["SUSP_READY"])
  BY <1>e, UnaSolaColaPartes DEF IInv, TypeOK, Lugares
<1>2. largo = "admite" => cola["NEW"] # <<>>
  BY ColasVacias
<1>3. medianoFifo.pc = "saca" => cola["SUSP_READY"] # <<>> /\ medianoFifo.proc = Head(cola["SUSP_READY"])
  BY DEF CabezaRetenida
<1>. QED BY <1>1, <1>2, <1>3, TailSinRepetir, EstaFigura

LEMMA DespacharMarcos ==
    ASSUME IInv, Lugares, Ubicados, NEW c \in Cpus, Despachar(c)
    PROVE  Ubicados' /\ (Suspendidos => Suspendidos')
<1>. USE DEF planif, disposi, pcbs, memoria
<1>e. {"NEW", "READY", "EXEC", "BLOCKED", "SUSP_BLOCKED", "SUSP_READY"} \subseteq Estados
  BY DEF Estados
<1>1. /\ UNCHANGED <<largo, io, flag, ubicacion, mediano, medianoFifo>>
      /\ cola' = MoverPrimero("READY", "EXEC") /\ sem["READY"] > 0
  BY DEF Despachar, Senales
<1>2. PICK p \in Procs : QuedaEn(p, {"EXEC"}) /\ Esta(p, "READY")
  BY <1>1, <1>e, ColasVacias, ColaPasaPrimero DEF Lugares
<1>3. cola'["NEW"] = cola["NEW"]
  BY <1>1, <1>e, ColasVacias DEF MoverPrimero, Colas
<1>4. EnMemoria(p) /\ (EnSwap(p)' => EnSwap(p))
  BY <1>1, <1>2, <1>e DEF EnMemoria, EnSwap, QuedaEn
<1>. QED BY <1>1, <1>2, <1>3, <1>4, UnoMarcos DEF CabezaNew

LEMMA SyscallInitProcMarcos ==
    ASSUME IInv, CabezaRetenida, Lugares, Ubicados, NEW h \in Hilos, NEW p \in Procs, SyscallInitProc(h, p)
    PROVE  Ubicados' /\ (Suspendidos => Suspendidos')
<1>. USE DEF planif, disposi, pcbs, memoria
<1>e. {"NEW", "READY", "EXEC", "BLOCKED", "SUSP_BLOCKED", "SUSP_READY"} \subseteq Estados
  BY DEF Estados
<1>t. cola \in Colas /\ cola["NEW"] \in Seq(Procs)
  BY <1>e, ColasVacias DEF Colas
<1>1. /\ UNCHANGED <<largo, io, flag, ubicacion, mediano, medianoFifo>>
      /\ cola' = [cola EXCEPT !["NEW"] = Append(@, p)] /\ vivo[p] = "sin crear"
  BY DEF SyscallInitProc
<1>2. ~EnAlguna(p)
  BY <1>1 DEF Lugares, LugarBien, AusenteBien
<1>3. QuedaEn(p, {"NEW"})
  BY <1>1, <1>2, <1>e, <1>t, ColaEntra DEF Lugares
<1>4. CabezaNew
  <2>1. cola'["NEW"] = Append(cola["NEW"], p)
    BY <1>1, <1>e, <1>t DEF Colas
  <2>2. largo = "admite" => cola["NEW"] # <<>>
    BY CabezasEn
  <2>3. cola["NEW"] # <<>> => Head(Append(cola["NEW"], p)) = Head(cola["NEW"])
    BY <1>t
  <2>. QED BY <1>1, <2>1, <2>2, <2>3 DEF CabezaNew
<1>5. (EnMemoria(p)' => EnMemoria(p)) /\ (EnSwap(p)' => EnSwap(p))
  BY <1>1, <1>3, <1>4, <1>e DEF EnMemoria, EnSwap, QuedaEn, CabezaNew
<1>. QED BY <1>1, <1>3, <1>4, <1>5, UnoMarcos

\* The process that ends leaves main memory, and both groups.
LEMMA FinalizarMarcos ==
    ASSUME IInv, CabezaRetenida, Lugares, Ubicados, NEW h \in Hilos, SyscallExit(h) \/ IoFinaliza(h)
    PROVE  Ubicados' /\ (Suspendidos => Suspendidos')
<1>. USE DEF planif, disposi, pcbs, memoria
<1>e. {"NEW", "READY", "EXEC", "EXIT_ESTADO", "BLOCKED", "SUSP_BLOCKED", "SUSP_READY"} \subseteq Estados
  BY DEF Estados
<1>t. cola \in Colas /\ ubicacion \in [Procs -> {"fuera", "memoria", "swap"}]
  BY DEF IInv, TypeOK, Colas
<1>1. UNCHANGED <<largo, io, flag, mediano, medianoFifo>>
  BY DEF SyscallExit, IoFinaliza
<1>2. hilo[h].pc \in PcsEnExec /\ hilo[h].pc # "libre"
  BY DEF SyscallExit, IoFinaliza, Llega, En, PcsEnExec
<1>3. PICK p \in Procs : p = hilo[h].proc
  BY <1>2, DeHilo
<1>4. /\ LugarBien(p) /\ SinDispositivo(p) /\ ~flag[p] /\ mediano.proc # p /\ ~Admite(p)
  BY <1>2, <1>3, DeHilo
<1>5. Esta(p, "EXEC")
  BY <1>2, <1>3, <1>4 DEF LugarBien, HiloBien
<1>6. /\ cola' = Mover(p, "EXEC", "EXIT_ESTADO")
      /\ ubicacion' = [ubicacion EXCEPT ![p] = "fuera"] \/ ubicacion' = ubicacion
  BY <1>3 DEF SyscallExit, IoFinaliza, Finalizar
<1>7. QuedaEn(p, {"EXIT_ESTADO"}) /\ cola'["NEW"] = cola["NEW"]
  BY <1>e, <1>t, <1>5, <1>6, ColaPasa DEF Lugares, Mover, Colas
<1>8. \A q \in Procs : q # p => ubicacion'[q] = ubicacion[q]
  BY <1>6, <1>t
<1>9. ~EnMemoria(p)' /\ ~EnSwap(p)'
  <2>1. /\ largo = "admite" => p # Head(cola["NEW"])
        /\ medianoFifo.pc = "saca" => medianoFifo.proc # p
    BY <1>5, <1>e, CabezasEn, Exclusion
  <2>. QED BY <1>1, <1>4, <1>7, <1>e, <2>1 DEF EnMemoria, EnSwap, QuedaEn, Admite, SinDispositivo
<1>. QED BY <1>1, <1>7, <1>8, <1>9, UnoMarcos DEF CabezaNew

LEMMA FinalizarTerminaMarcos ==
    ASSUME IInv, Lugares, Ubicados, NEW h \in Hilos, FinalizarTermina(h)
    PROVE  Ubicados' /\ (Suspendidos => Suspendidos')
<1>. USE DEF planif, disposi, pcbs, memoria
<1>e. {"NEW", "READY", "EXEC", "EXIT_ESTADO", "BLOCKED", "SUSP_BLOCKED", "SUSP_READY"} \subseteq Estados
  BY DEF Estados
<1>0. hilo[h].pc = "termina"
  BY DEF FinalizarTermina, En
<1>p. PICK p \in Procs : p = hilo[h].proc
  BY <1>0, DeHilo
<1>1. UNCHANGED <<largo, io, flag, ubicacion, mediano, medianoFifo>> /\ cola' = Sacar(p, "EXIT_ESTADO")
  BY <1>p DEF FinalizarTermina
<1>2. LugarBien(p)
  BY <1>p DEF Lugares
<1>3. Esta(p, "EXIT_ESTADO")
  BY <1>0, <1>2, <1>p DEF LugarBien, HiloBien, PcsEnExit
<1>4. QuedaEn(p, {}) /\ cola'["NEW"] = cola["NEW"]
  BY <1>1, <1>3, <1>e, ColasVacias, ColaSale DEF Lugares, Sacar, Colas
<1>5. (EnMemoria(p)' => EnMemoria(p)) /\ (EnSwap(p)' => EnSwap(p))
  BY <1>1, <1>4, <1>e DEF EnMemoria, EnSwap, QuedaEn
<1>. QED BY <1>1, <1>4, <1>5, UnoMarcos DEF CabezaNew

LEMMA IoBloqueaMarcos ==
    ASSUME IInv, Lugares, Ubicados, NEW h \in Hilos, IoBloquea(h)
    PROVE  Ubicados' /\ (Suspendidos => Suspendidos')
<1>. USE DEF planif, disposi, pcbs, memoria
<1>e. {"NEW", "READY", "EXEC", "EXIT_ESTADO", "BLOCKED", "SUSP_BLOCKED", "SUSP_READY"} \subseteq Estados
  BY DEF Estados
<1>0. hilo[h].pc = "ioBloquea"
  BY DEF IoBloquea, En
<1>p. PICK p \in Procs : p = hilo[h].proc
  BY <1>0, DeHilo
<1>1. UNCHANGED <<largo, io, flag, ubicacion, mediano, medianoFifo>> /\ cola' = Mover(p, "EXEC", "BLOCKED")
  BY <1>p DEF IoBloquea
<1>2. LugarBien(p)
  BY <1>p DEF Lugares
<1>3. Esta(p, "EXEC")
  BY <1>0, <1>2, <1>p DEF LugarBien, HiloBien, PcsEnExec
<1>4. QuedaEn(p, {"BLOCKED"}) /\ cola'["NEW"] = cola["NEW"]
  BY <1>1, <1>3, <1>e, ColasVacias, ColaPasa DEF Lugares, Mover, Colas
<1>5. EnMemoria(p) /\ (EnSwap(p)' => EnSwap(p))
  BY <1>1, <1>3, <1>4, <1>e DEF EnMemoria, EnSwap, QuedaEn
<1>. QED BY <1>1, <1>4, <1>5, UnoMarcos DEF CabezaNew

LEMMA TimerSacaMarcos ==
    ASSUME IInv, Lugares, Ubicados, NEW p \in Procs, NEW k \in Veces, TimerSaca(p, k)
    PROVE  Ubicados' /\ (Suspendidos => Suspendidos')
<1>. USE DEF planif, disposi, pcbs, memoria
<1>e. {"NEW", "READY", "EXEC", "EXIT_ESTADO", "BLOCKED", "SUSP_BLOCKED", "SUSP_READY"} \subseteq Estados
  BY DEF Estados
<1>t. flag \in [Procs -> BOOLEAN]
  BY DEF IInv, TypeOK
<1>1. /\ UNCHANGED <<largo, io, ubicacion, mediano, medianoFifo>> /\ cola' = Sacar(p, "BLOCKED")
      /\ timer[p][k].pc = "visto" /\ flag' = [flag EXCEPT ![p] = TRUE]
  BY DEF TimerSaca
<1>2. \A q \in Procs : q # p => flag'[q] = flag[q]
  BY <1>1, <1>t
<1>3. Esta(p, "BLOCKED")
  BY <1>1 DEF Lugares, LugarBien, TimerBien
<1>4. QuedaEn(p, {}) /\ cola'["NEW"] = cola["NEW"]
  BY <1>1, <1>3, <1>e, ColasVacias, ColaSale DEF Lugares, Sacar, Colas
<1>5. EnMemoria(p) /\ (EnSwap(p)' => EnSwap(p))
  BY <1>1, <1>3, <1>4, <1>e DEF EnMemoria, EnSwap, QuedaEn
<1>. QED BY <1>1, <1>2, <1>4, <1>5, UnoMarcos DEF CabezaNew

LEMMA TimerSuspendeMarcos ==
    ASSUME IInv, Lugares, Ubicados, NEW p \in Procs, NEW k \in Veces, TimerSuspende(p, k)
    PROVE  Ubicados' /\ (Suspendidos => Suspendidos')
<1>. USE DEF planif, disposi, pcbs, memoria
<1>e. {"NEW", "READY", "EXEC", "EXIT_ESTADO", "BLOCKED", "SUSP_BLOCKED", "SUSP_READY"} \subseteq Estados
  BY DEF Estados
<1>1. /\ UNCHANGED <<largo, io, flag, ubicacion, mediano, medianoFifo>>
      /\ cola' = [cola EXCEPT !["SUSP_BLOCKED"] = Append(@, p)] /\ timer[p][k].pc = "sacado"
  BY DEF TimerSuspende
<1>2. flag[p] /\ ~EnAlguna(p)
  BY <1>1 DEF Lugares, LugarBien, TimerBien
<1>3. QuedaEn(p, {"SUSP_BLOCKED"}) /\ cola'["NEW"] = cola["NEW"]
  BY <1>1, <1>2, <1>e, ColasVacias, ColaEntra DEF Lugares, Colas
<1>4. EnMemoria(p) /\ (EnSwap(p)' => EnSwap(p))
  BY <1>1, <1>2, <1>3, <1>e DEF EnMemoria, EnSwap, QuedaEn
<1>. QED BY <1>1, <1>3, <1>4, UnoMarcos DEF CabezaNew

LEMMA IoSacaMarcos ==
    ASSUME IInv, Lugares, Ubicados, NEW i \in Ios, IoSaca(i)
    PROVE  Ubicados' /\ (Suspendidos => Suspendidos')
<1>. USE DEF planif, disposi, pcbs, memoria
<1>e. {"NEW", "READY", "EXEC", "EXIT_ESTADO", "BLOCKED", "SUSP_BLOCKED", "SUSP_READY"} \subseteq Estados
  BY DEF Estados
<1>t. io \in [Ios -> TipoIo] /\ cola \in Colas
  BY DEF IInv, TypeOK, Colas
<1>0. io[i].proc \in Procs
  BY DEF IoSaca, IInv, ConProceso
<1>p. PICK p \in Procs : p = io[i].proc
  BY <1>0
<1>1. UNCHANGED <<largo, flag, ubicacion, mediano, medianoFifo>>
  BY DEF IoSaca
<1>2. LugarBien(p)
  BY DEF Lugares
<1>3. CASE io[i].pc = "enBlocked"
  <2>1. cola' = Sacar(p, "BLOCKED") /\ io' = [io EXCEPT ![i].pc = "aReady"]
    BY <1>3, <1>p DEF IoSaca
  <2>2. io'[i].pc = "aReady" /\ io'[i].proc = p /\ \A j \in Ios : j # i => io'[j] = io[j]
    BY <2>1, <1>p, <1>t, UnDispositivo
  <2>3. Esta(p, "BLOCKED")
    BY <1>2, <1>3, <1>p DEF LugarBien, IoBien
  <2>4. QuedaEn(p, {}) /\ cola'["NEW"] = cola["NEW"]
    BY <1>e, <1>t, <2>1, <2>3, ColaSale DEF Lugares, Sacar, Colas
  <2>5. EnMemoria(p)
    BY <2>3 DEF EnMemoria
  <2>6. EnSwap(p)' => EnSwap(p)
    <3>1. \A j \in Ios : io'[j].pc = "aSuspReady" => io'[j] = io[j]
      BY <2>2
    <3>. QED BY <1>1, <1>e, <2>4, <3>1 DEF EnSwap, QuedaEn
  <2>. QED BY <1>1, <1>p, <2>2, <2>4, <2>5, <2>6, UnoMarcos DEF CabezaNew
<1>4. CASE io[i].pc = "enSusp"
  <2>1. cola' = Sacar(p, "SUSP_BLOCKED") /\ io' = [io EXCEPT ![i].pc = "aSuspReady"]
    BY <1>4, <1>p DEF IoSaca
  <2>2. io'[i].pc = "aSuspReady" /\ io'[i].proc = p /\ \A j \in Ios : j # i => io'[j] = io[j]
    BY <2>1, <1>p, <1>t, UnDispositivo
  <2>3. Esta(p, "SUSP_BLOCKED") /\ ~Suspende(p)
    BY <1>2, <1>4, <1>p DEF LugarBien, IoBien, PcsAlFinal
  <2>4. QuedaEn(p, {}) /\ cola'["NEW"] = cola["NEW"]
    BY <1>e, <1>t, <2>1, <2>3, ColaSale DEF Lugares, Sacar, Colas
  <2>5. EnSwap(p)
    BY <2>3 DEF EnSwap, Suspende
  <2>6. EnMemoria(p)' => EnMemoria(p)
    <3>1. \A j \in Ios : io'[j].pc = "aReady" => io'[j] = io[j]
      BY <2>2
    <3>. QED BY <1>1, <1>e, <2>4, <3>1 DEF EnMemoria, QuedaEn
  <2>. QED BY <1>1, <1>p, <2>2, <2>4, <2>5, <2>6, UnoMarcos DEF CabezaNew
<1>. QED BY <1>3, <1>4 DEF IoSaca

LEMMA IoTransicionaMarcos ==
    ASSUME IInv, Lugares, Ubicados, NEW i \in Ios, IoTransiciona(i)
    PROVE  Ubicados' /\ (Suspendidos => Suspendidos')
<1>. USE DEF planif, disposi, pcbs, memoria
<1>e. {"NEW", "READY", "EXEC", "EXIT_ESTADO", "BLOCKED", "SUSP_BLOCKED", "SUSP_READY"} \subseteq Estados
  BY DEF Estados
<1>n. \A q \in Procs : q # Nadie
  BY ConstantesAssumption
<1>t. io \in [Ios -> TipoIo] /\ cola \in Colas
  BY DEF IInv, TypeOK, Colas
<1>0. io[i].proc \in Procs
  BY DEF IoTransiciona, IInv, ConProceso
<1>p. PICK p \in Procs : p = io[i].proc
  BY <1>0
<1>1. /\ UNCHANGED <<largo, flag, ubicacion, mediano, medianoFifo>>
      /\ io' = [io EXCEPT ![i].pc = "espera", ![i].proc = Nadie]
  BY DEF IoTransiciona
<1>2. io'[i].pc = "espera" /\ io'[i].proc = Nadie /\ \A j \in Ios : j # i => io'[j] = io[j]
  BY <1>1, <1>t, UnDispositivo
<1>3. /\ \A j \in Ios : io'[j].pc \in {"aReady", "aSuspReady"} => io'[j] = io[j]
      /\ \A q \in Procs : q # p =>
           \A j \in Ios : io'[j] = io[j] \/ (io[j].proc # q /\ io'[j].proc # q)
  BY <1>2, <1>n, <1>p
<1>4. ~EnAlguna(p)
  <2>1. io[i].pc \in PcsAReady
    BY DEF IoTransiciona, PcsAReady
  <2>. QED BY <1>p, <2>1 DEF Lugares, LugarBien, IoBien
<1>5. CASE io[i].pc = "aReady"
  <2>1. cola' = [cola EXCEPT !["READY"] = Append(@, p)]
    BY <1>5, <1>p DEF IoTransiciona
  <2>2. QuedaEn(p, {"READY"}) /\ cola'["NEW"] = cola["NEW"]
    BY <1>e, <1>t, <1>4, <2>1, ColaEntra DEF Lugares, Colas
  <2>3. EnMemoria(p) /\ (EnSwap(p)' => EnSwap(p))
    BY <1>1, <1>e, <1>3, <1>5, <1>p, <2>2 DEF EnMemoria, EnSwap, QuedaEn
  <2>. QED BY <1>1, <1>3, <2>2, <2>3, UnoMarcos DEF CabezaNew
<1>6. CASE io[i].pc = "aSuspReady"
  <2>1. cola' = [cola EXCEPT !["SUSP_READY"] = Append(@, p)]
    BY <1>6, <1>p DEF IoTransiciona
  <2>2. QuedaEn(p, {"SUSP_READY"}) /\ cola'["NEW"] = cola["NEW"]
    BY <1>e, <1>t, <1>4, <2>1, ColaEntra DEF Lugares, Colas
  <2>3. EnSwap(p) /\ (EnMemoria(p)' => EnMemoria(p))
    BY <1>1, <1>e, <1>3, <1>6, <1>p, <2>2 DEF EnMemoria, EnSwap, QuedaEn
  <2>. QED BY <1>1, <1>3, <2>2, <2>3, UnoMarcos DEF CabezaNew
<1>. QED BY <1>5, <1>6 DEF IoTransiciona

LEMMA InitMarcos ==
    ASSUME Init
    PROVE  Ubicados /\ Suspendidos
<1>e. Estados = {"NEW", "READY", "BLOCKED", "EXEC", "EXIT_ESTADO", "SUSP_READY", "SUSP_BLOCKED"}
  BY DEF Estados
<1>1. \A e \in Estados : e # "NEW" => cola[e] = <<>>
  BY <1>e DEF Init
<1>2. \A q : \A e \in Estados : e # "NEW" => ~Esta(q, e)
  <2>1. DOMAIN <<>> = {}
    OBVIOUS
  <2>. QED BY <1>1, <2>1 DEF Esta
<1>3. \A q \in Procs : ~EnMemoria(q) /\ ~EnSwap(q)
  BY <1>2, <1>e, ConstantesAssumption DEF Init, EnMemoria, EnSwap
<1>. QED BY <1>3 DEF Ubicados, Suspendidos

LEMMA NextMarcos ==
    ASSUME Regimen, IInv, CabezaRetenida, Lugares, Ubicados, [Next]_vars
    PROVE  Ubicados' /\ ((\A p \in Procs : Tam[p] > 0) /\ Suspendidos => Suspendidos')
<1>1. CASE Conserva
  BY <1>1, ConservaMarcos
<1>2. CASE Largo
  BY <1>1, <1>2, SinColasMarcos, LargoMarcos DEF Largo
<1>3. CASE MedianoFifo
  BY <1>3, MedianoFifoMarcos
<1>4. CASE Mediano
  BY <1>4, MedianoMarcos
<1>5. CASE Corto
  BY <1>5, DespacharMarcos DEF Corto
<1>6. ASSUME NEW h \in Hilos, Hilo(h)
      PROVE  Ubicados' /\ (Suspendidos => Suspendidos')
  <2>1. CASE SyscallDump(h) \/ DumpLiberaCpu(h) \/ DumpAceptado(h) \/ DumpAReady(h) \/ DumpRechazado(h)
    <3>1. hilo[h].pc \notin {"dump", "dumpEspera", "dumpListo"}
      BY DEF Lugares, Ociosos, PcsEnExec, PcsEnExit
    <3>2. ~SyscallDump(h)
      BY DEF Regimen, SyscallDump, Llega
    <3>. QED BY <2>1, <3>1, <3>2 DEF DumpLiberaCpu, DumpAceptado, DumpAReady, DumpRechazado, En
  <2>2. CASE FinalizarIntenta(h) \/ SyscallIo(h) \/ \E n \in Nombres : IoBuscaDispositivo(h, n)
    <3>1. Conserva
      BY <2>2, SinColasMarcos
    <3>. QED BY <3>1, ConservaMarcos
  <2>3. CASE \/ \E q \in Procs : SyscallInitProc(h, q)
             \/ SyscallExit(h) \/ IoFinaliza(h) \/ FinalizarTermina(h) \/ IoBloquea(h)
    BY <2>3, SyscallInitProcMarcos, FinalizarMarcos, FinalizarTerminaMarcos, IoBloqueaMarcos
  <2>. QED BY <1>6, <2>1, <2>2, <2>3 DEF Hilo
<1>7. ASSUME NEW p \in Procs, NEW k \in Veces, Timer(p, k)
      PROVE  Ubicados' /\ (Suspendidos => Suspendidos')
  <2>1. CASE TimerNace(p, k) \/ TimerCompara(p, k) \/ TimerBusca(p, k)
    <3>1. Conserva
      BY <2>1, SinColasMarcos
    <3>. QED BY <3>1, ConservaMarcos
  <2>. QED BY <1>7, <2>1, TimerSacaMarcos, TimerSuspendeMarcos DEF Timer
<1>8. ASSUME NEW i \in Ios, ConectarIo(i) \/ Io(i)
      PROVE  Ubicados' /\ (Suspendidos => Suspendidos')
  <2>1. CASE ConectarIo(i) \/ RegistrarIo(i) \/ IoDespierta(i) \/ IoBusca(i) \/ IoTermina(i)
    <3>1. Conserva
      BY <2>1, SinColasMarcos
    <3>. QED BY <3>1, ConservaMarcos
  <2>. QED BY <1>8, <2>1, IoSacaMarcos, IoTransicionaMarcos DEF Io
<1>9. CASE (\E c \in Cpus : ConectarCpu(c)) \/ UsoTrasLiberar \/ UNCHANGED vars
  BY <1>1, <1>9, SinColasMarcos
<1>. QED BY <1>2, <1>3, <1>4, <1>5, <1>6, <1>7, <1>8, <1>9 DEF Next

\* A process is in main memory from the moment it is accepted until it is
\* suspended or ends, wherever the planners, a timer or a device carry it.
THEOREM InvarianteDeMarcos == ASSUME Regimen PROVE Spec => []Ubicados
<1>1. Init => Ubicados
  BY InitMarcos
<1>2. IInv /\ IInvPerdido /\ Lugares /\ Ubicados /\ [Next]_vars => Ubicados'
  BY NextMarcos DEF IInvPerdido
<1>. QED BY <1>1, <1>2, InvarianteInductivo, InvarianteDePerdidos, InvarianteDeLugares, PTL DEF Spec

\* No process is ready or runs while its pages are in swap: what the CPUs take
\* for granted when they translate an address of the process they were given.
THEOREM ResidenteAlEjecutar == ASSUME Regimen PROVE Spec => []ResidenteSiEjecuta
<1>1. Lugares /\ Ubicados => ResidenteSiEjecuta
  <2> SUFFICES ASSUME Lugares, Ubicados, NEW p \in Procs,
                      Esta(p, "READY") \/ \E h \in Hilos : hilo[h].proc = p /\ En(h, "ejecuta")
               PROVE  ubicacion[p] = "memoria"
    BY DEF ResidenteSiEjecuta
  <2>1. Esta(p, "READY") \/ Esta(p, "EXEC")
    BY DEF Lugares, LugarBien, HiloBien, En, PcsEnExec
  <2>. QED BY <2>1 DEF Ubicados, EnMemoria
<1>. QED BY <1>1, InvarianteDeLugares, InvarianteDeMarcos, PTL

-----------------------------------------------------------------------------
(* The refinement mapping, one name per abstract variable.                  *)

Frenado(p) == ~TieneCpu(p) /\ (Esta(p, "BLOCKED") \/ DejoEjecutar(p) \/ EntreColas(p, "BLOCKED"))
EnSuspBlocked(p) == Esta(p, "SUSP_BLOCKED") \/ EntreColas(p, "SUSP_BLOCKED")

Ejecutan == {p \in Procs : TieneCpu(p)}
Frenados == {p \in Procs : Frenado(p)}
SuspBloqueados == {p \in Procs : EnSuspBlocked(p)}
SuspListos == (IF medianoFifo.pc = "admite" THEN <<medianoFifo.proc>> ELSE <<>>)
                \o cola["SUSP_READY"]
Salen == ToSet(cola["EXIT_ESTADO"])
Terminados == {p \in Procs : vivo[p] = "liberado"}
Residentes == {p \in Procs : ubicacion[p] = "memoria"}

\* p is in none of the three sets that threads, timers and devices make up.
Fuera(p) == ~TieneCpu(p) /\ ~Frenado(p) /\ ~EnSuspBlocked(p)
SoloCorre(p) == TieneCpu(p) /\ ~Frenado(p) /\ ~EnSuspBlocked(p)
SoloFrenado(p) == ~TieneCpu(p) /\ Frenado(p) /\ ~EnSuspBlocked(p)
SoloSuspendido(p) == ~TieneCpu(p) /\ ~Frenado(p) /\ EnSuspBlocked(p)

\* Where a process is in the life cycle, read from the queue or the thread it is in.
Situacion(p) ==
    /\ \A h \in Hilos : hilo[h].proc = p =>
         /\ hilo[h].pc = "ejecuta" => SoloCorre(p)
         /\ hilo[h].pc \in {"ioLiberada", "ioBloquea", "ioFinaliza"} => SoloFrenado(p)
         /\ hilo[h].pc \in PcsEnExit => Fuera(p)
    /\ Esta(p, "BLOCKED") \/ Sacado(p) => SoloFrenado(p)
    /\ Esta(p, "SUSP_BLOCKED") => SoloSuspendido(p)
    /\ \A i \in Ios : io[i].proc = p =>
         /\ io[i].pc = "aReady" => SoloFrenado(p)
         /\ io[i].pc = "aSuspReady" => SoloSuspendido(p)
    /\ \A e \in {"NEW", "READY", "SUSP_READY", "EXIT_ESTADO"} : Esta(p, e) => Fuera(p)
    /\ vivo[p] # "vivo" \/ Admite(p) => Fuera(p)
    /\ SinHilo(p) /\ SinDispositivo(p) /\ ~Esta(p, "BLOCKED") /\ ~Esta(p, "SUSP_BLOCKED") /\ ~Sacado(p)
         => Fuera(p)

Situaciones == \A p \in Procs : Situacion(p)

\* Under Lugares, what makes p be in each of the three sets.
LEMMA SituacionPartes ==
    ASSUME Lugares, NEW p \in Procs
    PROVE  /\ TieneCpu(p) <=> \E h \in Hilos : hilo[h].proc = p /\ hilo[h].pc = "ejecuta"
           /\ DejoEjecutar(p) <=> \E h \in Hilos : hilo[h].proc = p
                                     /\ hilo[h].pc \in {"ioLiberada", "ioBloquea", "ioFinaliza"}
           /\ EntreColas(p, "BLOCKED")
                <=> Sacado(p) \/ \E i \in Ios : io[i].proc = p /\ io[i].pc = "aReady"
           /\ EntreColas(p, "SUSP_BLOCKED") <=> \E i \in Ios : io[i].proc = p /\ io[i].pc = "aSuspReady"
<1>1. \A h \in Hilos : hilo[h].pc \in {"libre"} \cup PcsEnExec \cup PcsEnExit
  BY DEF Lugares, Ociosos
<1>2. TieneCpu(p) <=> \E h \in Hilos : hilo[h].proc = p /\ hilo[h].pc = "ejecuta"
  BY <1>1 DEF TieneCpu, PcsEnExec, PcsEnExit
<1>3. DejoEjecutar(p) <=> \E h \in Hilos : hilo[h].proc = p
                                     /\ hilo[h].pc \in {"ioLiberada", "ioBloquea", "ioFinaliza"}
  BY <1>1 DEF DejoEjecutar, PcsEnExec, PcsEnExit
<1>4. /\ EntreColas(p, "BLOCKED")
           <=> Sacado(p) \/ \E i \in Ios : io[i].proc = p /\ io[i].pc = "aReady"
      /\ EntreColas(p, "SUSP_BLOCKED") <=> \E i \in Ios : io[i].proc = p /\ io[i].pc = "aSuspReady"
  BY DEF EntreColas, Sacado
<1> QED BY <1>2, <1>3, <1>4

\* The thread, the queue or the device of p excludes the others.
LEMMA SituacionEsta ==
    ASSUME Lugares, NEW p \in Procs
    PROVE  Situacion(p)
<1> DEFINE EnCpu == \E h \in Hilos : hilo[h].proc = p /\ hilo[h].pc = "ejecuta"
           Deja == \E h \in Hilos : hilo[h].proc = p /\ hilo[h].pc \in {"ioLiberada", "ioBloquea", "ioFinaliza"}
           Acaba == \E h \in Hilos : hilo[h].proc = p /\ hilo[h].pc \in PcsEnExit
           AReady == \E i \in Ios : io[i].proc = p /\ io[i].pc = "aReady"
           ASusp == \E i \in Ios : io[i].proc = p /\ io[i].pc = "aSuspReady"
<1>e. {"NEW", "READY", "EXEC", "EXIT_ESTADO", "BLOCKED", "SUSP_BLOCKED", "SUSP_READY"} \subseteq Estados
  BY DEF Estados
<1>l. LugarBien(p)
  BY DEF Lugares
<1>1. /\ TieneCpu(p) <=> EnCpu
      /\ Frenado(p) <=> ~EnCpu /\ (Esta(p, "BLOCKED") \/ Deja \/ Sacado(p) \/ AReady)
      /\ EnSuspBlocked(p) <=> Esta(p, "SUSP_BLOCKED") \/ ASusp
  BY SituacionPartes DEF Frenado, EnSuspBlocked
<1>2. (EnCpu \/ Deja => Esta(p, "EXEC")) /\ (Acaba => Esta(p, "EXIT_ESTADO"))
  BY <1>l DEF LugarBien, HiloBien, PcsEnExec
<1>3. ~(EnCpu /\ Deja)
  BY <1>l DEF LugarBien, HiloBien
<1>4. \A e, f \in Estados : Esta(p, e) /\ Esta(p, f) => e = f
  BY UnaSolaColaPartes DEF Lugares
<1>5. \A e \in Estados : Esta(p, e) => ~Sacado(p) /\ ~AReady /\ ~ASusp /\ ~Admite(p) /\ vivo[p] = "vivo"
  BY <1>l, Exclusion DEF EnAlguna
<1>6. /\ Sacado(p) => ~AReady /\ ~ASusp
      /\ ~(AReady /\ ASusp)
  BY <1>l DEF LugarBien, IoBien, PcsAlFinal, PcsAReady, Suspende, Vence, Sacado, TimersDe
<1>7. /\ Admite(p) => SinDispositivo(p) /\ ~Sacado(p) /\ ~EnAlguna(p)
      /\ vivo[p] # "vivo" => SinHilo(p) /\ SinDispositivo(p) /\ ~Sacado(p) /\ ~EnAlguna(p)
  BY <1>l DEF LugarBien, PlanBien, AusenteBien, Llevado, Sacado, TimersDe
<1>8. /\ SinDispositivo(p) => ~AReady /\ ~ASusp
      /\ SinHilo(p) => ~EnCpu /\ ~Deja
      /\ ~EnAlguna(p) => \A e \in Estados : ~Esta(p, e)
  BY DEF SinDispositivo, SinHilo, EnAlguna
<1> HIDE DEF EnCpu, Deja, Acaba, AReady, ASusp
<1>a. EnCpu => SoloCorre(p)
  BY <1>1, <1>2, <1>4, <1>5, <1>e DEF SoloCorre
<1>b. Deja => SoloFrenado(p)
  BY <1>1, <1>2, <1>3, <1>4, <1>5, <1>e DEF SoloFrenado
<1>c. Acaba => Fuera(p)
  BY <1>1, <1>2, <1>4, <1>5, <1>e DEF Fuera
<1>d. Esta(p, "BLOCKED") \/ Sacado(p) => SoloFrenado(p)
  BY <1>1, <1>2, <1>4, <1>5, <1>6, <1>e DEF SoloFrenado
<1>f. Esta(p, "SUSP_BLOCKED") => SoloSuspendido(p)
  BY <1>1, <1>2, <1>4, <1>5, <1>e DEF SoloSuspendido
<1>g. (AReady => SoloFrenado(p)) /\ (ASusp => SoloSuspendido(p))
  BY <1>1, <1>2, <1>4, <1>5, <1>6, <1>e DEF SoloFrenado, SoloSuspendido
<1>h. \A e \in {"NEW", "READY", "SUSP_READY", "EXIT_ESTADO"} : Esta(p, e) => Fuera(p)
  BY <1>1, <1>2, <1>4, <1>5, <1>e DEF Fuera
<1>i. vivo[p] # "vivo" \/ Admite(p) => Fuera(p)
  <2>1. vivo[p] # "vivo" \/ Admite(p) => ~AReady /\ ~ASusp /\ ~Sacado(p) /\ \A e \in Estados : ~Esta(p, e)
    BY <1>7, <1>8
  <2>2. (\A e \in Estados : ~Esta(p, e)) => ~EnCpu /\ ~Deja
    BY <1>2, <1>e
  <2> QED BY <1>1, <1>e, <2>1, <2>2 DEF Fuera
<1>j. SinHilo(p) /\ SinDispositivo(p) /\ ~Esta(p, "BLOCKED") /\ ~Esta(p, "SUSP_BLOCKED") /\ ~Sacado(p)
         => Fuera(p)
  BY <1>1, <1>8 DEF Fuera
<1> QED BY <1>a, <1>b, <1>c, <1>d, <1>f, <1>g, <1>h, <1>i, <1>j DEF Situacion, EnCpu, Deja, Acaba, AReady, ASusp

\* The same after a step.
LEMMA SituacionTras == Lugares' => \A p \in Procs : Situacion(p)'
<1>1. Lugares => Situaciones
  BY SituacionEsta DEF Situaciones
<1>2. Lugares' => Situaciones'
  BY <1>1, PTL
<1> QED BY <1>2 DEF Situaciones

\* A process that a step does not move stays where it was.
LEMMA QuietoSitua ==
    ASSUME NEW q \in Procs, Quieto(q)
    PROVE  /\ TieneCpu(q)' <=> TieneCpu(q)
           /\ Frenado(q)' <=> Frenado(q)
           /\ EnSuspBlocked(q)' <=> EnSuspBlocked(q)
<1>e. {"BLOCKED", "SUSP_BLOCKED"} \subseteq Estados
  BY DEF Estados
<1>1. TieneCpu(q)' <=> TieneCpu(q)
  BY DEF Quieto, TieneCpu
<1>2. DejoEjecutar(q)' <=> DejoEjecutar(q)
  BY DEF Quieto, DejoEjecutar
<1>3. \A e : EntreColas(q, e)' <=> EntreColas(q, e)
  BY DEF Quieto, EntreColas, TimersDe
<1> QED BY <1>e, <1>1, <1>2, <1>3 DEF Quieto, Frenado, EnSuspBlocked

-----------------------------------------------------------------------------
(* What a step does to the abstract variables.                              *)

\* Every process keeps its place.
MismosLugares == /\ cola'["NEW"] = cola["NEW"] /\ cola'["READY"] = cola["READY"]
                 /\ Ejecutan' = Ejecutan /\ Frenados' = Frenados /\ SuspBloqueados' = SuspBloqueados
                 /\ SuspListos' = SuspListos /\ Salen' = Salen /\ Terminados' = Terminados

\* No abstract variable changes.
Igual == MismosLugares /\ Residentes' = Residentes

LEMMA IgualEsPausa == ASSUME Igual PROVE UNCHANGED Ciclo!vars
BY DEF Igual, MismosLugares, Ciclo!vars, Ejecutan, Frenados, Frenado, SuspBloqueados, EnSuspBlocked, SuspListos, Salen,
       Terminados, Residentes

\* The three sets, when p is the one process that moves.
LEMMA ConjuntosTras ==
    ASSUME NEW p \in Procs, \A q \in Procs : q # p => Quieto(q)
    PROVE  /\ SoloCorre(p)' => /\ Ejecutan' = Ejecutan \cup {p} /\ Frenados' = Frenados \ {p}
                               /\ SuspBloqueados' = SuspBloqueados \ {p}
           /\ SoloFrenado(p)' => /\ Ejecutan' = Ejecutan \ {p} /\ Frenados' = Frenados \cup {p}
                                 /\ SuspBloqueados' = SuspBloqueados \ {p}
           /\ SoloSuspendido(p)' => /\ Ejecutan' = Ejecutan \ {p} /\ Frenados' = Frenados \ {p}
                                    /\ SuspBloqueados' = SuspBloqueados \cup {p}
           /\ Fuera(p)' => /\ Ejecutan' = Ejecutan \ {p} /\ Frenados' = Frenados \ {p}
                           /\ SuspBloqueados' = SuspBloqueados \ {p}
<1>1. \A q \in Procs : q # p => /\ TieneCpu(q)' <=> TieneCpu(q)
                                /\ Frenado(q)' <=> Frenado(q)
                                /\ EnSuspBlocked(q)' <=> EnSuspBlocked(q)
  BY QuietoSitua
<1>2. /\ TieneCpu(p)' => Ejecutan' = Ejecutan \cup {p}
      /\ ~TieneCpu(p)' => Ejecutan' = Ejecutan \ {p}
  BY <1>1 DEF Ejecutan
<1>3. /\ Frenado(p)' => Frenados' = Frenados \cup {p}
      /\ ~Frenado(p)' => Frenados' = Frenados \ {p}
  BY <1>1 DEF Frenados
<1>4. /\ EnSuspBlocked(p)' => SuspBloqueados' = SuspBloqueados \cup {p}
      /\ ~EnSuspBlocked(p)' => SuspBloqueados' = SuspBloqueados \ {p}
  BY <1>1 DEF SuspBloqueados
<1> QED BY <1>2, <1>3, <1>4 DEF SoloCorre, SoloFrenado, SoloSuspendido, Fuera

\* Its place before the step.
LEMMA ConjuntosAntes ==
    ASSUME NEW p \in Procs
    PROVE  /\ SoloCorre(p) => p \in Ejecutan /\ p \notin Frenados /\ p \notin SuspBloqueados
           /\ SoloFrenado(p) => p \notin Ejecutan /\ p \in Frenados /\ p \notin SuspBloqueados
           /\ SoloSuspendido(p) => p \notin Ejecutan /\ p \notin Frenados /\ p \in SuspBloqueados
           /\ Fuera(p) => p \notin Ejecutan /\ p \notin Frenados /\ p \notin SuspBloqueados
BY DEF SoloCorre, SoloFrenado, SoloSuspendido, Fuera, Ejecutan, Frenados, SuspBloqueados

LEMMA ConjuntosQuietos ==
    ASSUME NEW p \in Procs, \A q \in Procs : q # p => Quieto(q),
           \/ SoloCorre(p) /\ SoloCorre(p)'
           \/ SoloFrenado(p) /\ SoloFrenado(p)'
           \/ SoloSuspendido(p) /\ SoloSuspendido(p)'
           \/ Fuera(p) /\ Fuera(p)'
    PROVE  Ejecutan' = Ejecutan /\ Frenados' = Frenados /\ SuspBloqueados' = SuspBloqueados
BY ConjuntosTras, ConjuntosAntes

\* EXIT_ESTADO as a set.
LEMMA SalenTras ==
    ASSUME NEW p, NEW T, QuedaEn(p, T)
    PROVE  /\ Salen' = IF "EXIT_ESTADO" \in T THEN Salen \cup {p} ELSE Salen \ {p}
           /\ ~Esta(p, "EXIT_ESTADO") => p \notin Salen
           /\ Esta(p, "EXIT_ESTADO") => p \in Salen
<1>1. \A q : q \in Salen <=> Esta(q, "EXIT_ESTADO")
  BY DEF Salen, ToSet, Esta
<1>2. \A q : q \in Salen' <=> Esta(q, "EXIT_ESTADO")'
  BY DEF Salen, ToSet, Esta
<1>3. "EXIT_ESTADO" \in Estados
  BY DEF Estados
<1> QED BY <1>1, <1>2, <1>3 DEF QuedaEn

\* Steps that leave the queues and the places of all processes alone.
LEMMA SinMoverse ==
    ASSUME cola' = cola, vivo' = vivo,
           medianoFifo'.pc = "admite" <=> medianoFifo.pc = "admite",
           medianoFifo.pc = "admite" => medianoFifo' = medianoFifo,
           \A q \in Procs : /\ TieneCpu(q)' <=> TieneCpu(q)
                            /\ DejoEjecutar(q)' <=> DejoEjecutar(q)
                            /\ \A e \in {"BLOCKED", "SUSP_BLOCKED"} : EntreColas(q, e)' <=> EntreColas(q, e)
    PROVE  MismosLugares /\ (ubicacion' = ubicacion => Igual)
<1>1. \A q, e : Esta(q, e)' <=> Esta(q, e)
  BY DEF Esta
<1>2. \A q \in Procs : /\ Frenado(q)' <=> Frenado(q)
                       /\ EnSuspBlocked(q)' <=> EnSuspBlocked(q)
  BY <1>1 DEF Frenado, EnSuspBlocked
<1>3. Ejecutan' = Ejecutan /\ Frenados' = Frenados /\ SuspBloqueados' = SuspBloqueados
  BY <1>2 DEF Ejecutan, Frenados, SuspBloqueados
<1>4. SuspListos' = SuspListos
  BY DEF SuspListos
<1> QED BY <1>3, <1>4 DEF Igual, MismosLugares, Salen, Terminados, Residentes

LEMMA SinHilos ==
    ASSUME hilo' = hilo, timer' = timer,
           \A i \in Ios : io'[i] = io[i] \/ (io[i].pc \notin PcsAReady /\ io'[i].pc \notin PcsAReady)
    PROVE  \A q \in Procs : /\ TieneCpu(q)' <=> TieneCpu(q)
                            /\ DejoEjecutar(q)' <=> DejoEjecutar(q)
                            /\ \A e \in {"BLOCKED", "SUSP_BLOCKED"} : EntreColas(q, e)' <=> EntreColas(q, e)
<1> SUFFICES ASSUME NEW q \in Procs
             PROVE  /\ TieneCpu(q)' <=> TieneCpu(q)
                    /\ DejoEjecutar(q)' <=> DejoEjecutar(q)
                    /\ \A e \in {"BLOCKED", "SUSP_BLOCKED"} : EntreColas(q, e)' <=> EntreColas(q, e)
  OBVIOUS
<1>1. (TieneCpu(q)' <=> TieneCpu(q)) /\ (DejoEjecutar(q)' <=> DejoEjecutar(q))
  BY DEF TieneCpu, DejoEjecutar
<1>2. \A x \in {"aReady", "aSuspReady"} :
         (\E i \in Ios : io'[i].proc = q /\ io'[i].pc = x) <=> \E i \in Ios : io[i].proc = q /\ io[i].pc = x
  BY DEF PcsAReady
<1>3. TimersDe(q, {"sacado"})' <=> TimersDe(q, {"sacado"})
  BY DEF TimersDe
<1>4. EntreColas(q, "BLOCKED")' <=> EntreColas(q, "BLOCKED")
  BY <1>2, <1>3 DEF EntreColas
<1>5. EntreColas(q, "SUSP_BLOCKED")' <=> EntreColas(q, "SUSP_BLOCKED")
  BY <1>2, <1>3 DEF EntreColas
<1> QED BY <1>1, <1>4, <1>5

\* The steps of the planners that only read, and those of the connections.
LEMMA LeerEsPausa ==
    ASSUME \/ LargoDespierta \/ LargoEsperaVacia \/ LargoRechazado
           \/ MedianoFifoDespierta \/ MedianoFifoRechazado \/ MedianoFifoAvisa
           \/ MedianoDespierta \/ MedianoIntenta \/ UsoTrasLiberar \/ UNCHANGED vars
           \/ \E c \in Cpus : ConectarCpu(c)
    PROVE  Igual
<1>. USE DEF planif, disposi, pcbs, memoria
<1>1. UNCHANGED <<cola, vivo, ubicacion, hilo, timer, io>>
  BY DEF LargoDespierta, LargoEsperaVacia, LargoRechazado, MedianoFifoDespierta, MedianoFifoRechazado,
         MedianoFifoAvisa, MedianoDespierta, MedianoIntenta, UsoTrasLiberar, ConectarCpu, vars
<1>2. \/ medianoFifo' = medianoFifo
      \/ medianoFifo.pc # "admite" /\ medianoFifo'.pc # "admite"
  BY DEF LargoDespierta, LargoEsperaVacia, LargoRechazado, MedianoFifoDespierta, MedianoFifoRechazado,
         MedianoFifoAvisa, MedianoDespierta, MedianoIntenta, UsoTrasLiberar, ConectarCpu, vars
<1> QED BY <1>1, <1>2, SinHilos, SinMoverse

\* A device that connects, takes a process or ends its burst.
LEMMA DispositivoEsPausa ==
    ASSUME IInv, NEW i \in Ios,
           ConectarIo(i) \/ RegistrarIo(i) \/ IoDespierta(i) \/ IoBusca(i) \/ IoTermina(i)
    PROVE  Igual
<1>. USE DEF planif, disposi, pcbs, memoria
<1>t. io \in [Ios -> TipoIo]
  BY DEF IInv, TypeOK
<1>1. UNCHANGED <<cola, vivo, ubicacion, hilo, timer, medianoFifo>>
  BY DEF ConectarIo, RegistrarIo, IoDespierta, IoBusca, IoTermina
<1>2. /\ \A j \in Ios : j # i => io'[j] = io[j]
      /\ io'[i] = io[i] \/ io'[i].pc \notin PcsAReady
      /\ io[i].pc \notin PcsAReady
  BY <1>t DEF ConectarIo, RegistrarIo, IoDespierta, IoBusca, IoTermina, Toma, DondeEsta, PcsAReady, TipoIo
<1> QED BY <1>1, <1>2, SinHilos, SinMoverse

\* A timer that begins, ends its sleep or looks BLOCKED up.
LEMMA TimerEsPausa ==
    ASSUME IInv, NEW p \in Procs, NEW k \in Veces, TimerNace(p, k) \/ TimerCompara(p, k) \/ TimerBusca(p, k)
    PROVE  Igual
<1>. USE DEF planif, disposi, pcbs, memoria
<1>t. timer \in [Procs -> [Veces -> TipoTimer]]
  BY DEF IInv, TypeOK
<1>1. UNCHANGED <<cola, vivo, ubicacion, hilo, io, medianoFifo>>
  BY DEF TimerNace, TimerCompara, TimerBusca
<1>2. /\ timer[p][k].pc # "sacado" /\ timer'[p][k].pc # "sacado"
      /\ \A l \in Veces : l # k => timer'[p][l] = timer[p][l]
      /\ \A q \in Procs : q # p => timer'[q] = timer[q]
  <2>1. CASE TimerNace(p, k)
    BY <1>t, <2>1, UnTimer DEF TimerNace
  <2>2. CASE TimerCompara(p, k)
    <3>1. /\ timer[p][k].pc = "duerme"
          /\ timer' = [timer EXCEPT ![p][k] =
                         [pc |-> IF veces[p] = timer[p][k].inicial THEN "compara" ELSE "no", inicial |-> 0]]
      BY <1>t, <2>2 DEF TimerCompara
    <3> QED BY <1>t, <3>1, UnTimer
  <2>3. CASE TimerBusca(p, k)
    BY <1>t, <2>3, UnTimer DEF TimerBusca, TimerPasa
  <2> QED BY <2>1, <2>2, <2>3
<1>3. \A q \in Procs : TimersDe(q, {"sacado"})' <=> TimersDe(q, {"sacado"})
  BY <1>2 DEF TimersDe
<1>4. \A q \in Procs : /\ TieneCpu(q)' <=> TieneCpu(q)
                       /\ DejoEjecutar(q)' <=> DejoEjecutar(q)
                       /\ \A e \in {"BLOCKED", "SUSP_BLOCKED"} : EntreColas(q, e)' <=> EntreColas(q, e)
  BY <1>1, <1>3 DEF TieneCpu, DejoEjecutar, EntreColas
<1> QED BY <1>1, <1>4, SinMoverse

\* A thread that chose which device it needs, or told a planner about the memory.
LEMMA HiloEsPausa ==
    ASSUME IInv, NEW h \in Hilos, FinalizarIntenta(h) \/ \E n \in Nombres : IoBuscaDispositivo(h, n)
    PROVE  Igual
<1>. USE DEF planif, disposi, pcbs, memoria
<1>1. UNCHANGED <<cola, vivo, ubicacion, timer, io, medianoFifo>>
  BY DEF FinalizarIntenta, IoBuscaDispositivo, AnotarIo
<1>t. hilo \in [Hilos -> TipoHilo]
  BY DEF IInv, TypeOK
<1>2. PICK x, y \in PcsHilo : /\ hilo[h].pc = x /\ hilo' = [hilo EXCEPT ![h].pc = y]
                             /\ \/ x = "intenta" /\ y = "termina"
                                \/ x = "ioLiberada" /\ y \in {"ioBloquea", "ioFinaliza"}
  BY DEF FinalizarIntenta, IoBuscaDispositivo, Pasa, En, PcsHilo
<1>5. /\ \A g \in Hilos : hilo'[g].proc = hilo[g].proc
      /\ \A g \in Hilos : g # h => hilo'[g] = hilo[g]
      /\ hilo'[h].pc = y
  BY <1>2, <1>t DEF TipoHilo
<1>3. \A q \in Procs : (TieneCpu(q)' <=> TieneCpu(q)) /\ (DejoEjecutar(q)' <=> DejoEjecutar(q))
  BY <1>2, <1>5 DEF TieneCpu, DejoEjecutar
<1>4. \A q \in Procs : \A e \in {"BLOCKED", "SUSP_BLOCKED"} : EntreColas(q, e)' <=> EntreColas(q, e)
  BY <1>1 DEF EntreColas, TimersDe
<1> QED BY <1>1, <1>3, <1>4, SinMoverse

-----------------------------------------------------------------------------
(* The steps of CicloDeVida, over the names of the mapping.                 *)

LEMMA OcupadosSuma == Ciclo!Ocupados = Suma(Tam, Residentes)
BY DEF Ciclo!Ocupados, Suma, Residentes, MapThenSumSet, Ciclo!MapThenSumSet, MapThenFoldSet, Ciclo!MapThenFoldSet

\* CicloDeVida counts as FiniteSets does.
LEMMA MismaCardinalidad == \A S : Ciclo!Cardinality(S) = Cardinality(S)
BY DEF Cardinality, Ciclo!Cardinality

LEMMA EsReservar ==
    ASSUME NEW p \in Procs \ Residentes,
           \/ cola["NEW"] # <<>> /\ p = Head(cola["NEW"])
           \/ SuspListos # <<>> /\ p = Head(SuspListos),
           Suma(Tam, Residentes) + Tam[p] <= Marcos,
           Residentes' = Residentes \cup {p},
           cola'["NEW"] = cola["NEW"], cola'["READY"] = cola["READY"], Ejecutan' = Ejecutan, Frenados' = Frenados,
           SuspBloqueados' = SuspBloqueados, SuspListos' = SuspListos, Salen' = Salen, Terminados' = Terminados
    PROVE  Ciclo!Next
<1>1. Ciclo!Ocupados + Tam[p] <= Marcos
  BY OcupadosSuma
<1> QED BY <1>1 DEF Ciclo!Next, Ciclo!Reservar, Ejecutan, Frenados, Frenado, SuspBloqueados, EnSuspBlocked,
                    SuspListos, Salen, Terminados, Residentes

LEMMA EsAdmitir ==
    ASSUME cola["NEW"] # <<>>, Head(cola["NEW"]) \in Residentes,
           cola'["NEW"] = Tail(cola["NEW"]), cola'["READY"] = Append(cola["READY"], Head(cola["NEW"])),
           Ejecutan' = Ejecutan, Frenados' = Frenados, SuspBloqueados' = SuspBloqueados,
           SuspListos' = SuspListos, Salen' = Salen, Terminados' = Terminados, Residentes' = Residentes
    PROVE  Ciclo!Next
BY DEF Ciclo!Next, Ciclo!Admitir, Ejecutan, Frenados, Frenado, SuspBloqueados, EnSuspBlocked,
       SuspListos, Salen, Terminados, Residentes

LEMMA EsDespachar ==
    ASSUME cola["READY"] # <<>>, Cardinality(Ejecutan) < Cardinality(Cpus),
           cola'["NEW"] = cola["NEW"], cola'["READY"] = Tail(cola["READY"]),
           Ejecutan' = Ejecutan \cup {Head(cola["READY"])}, Frenados' = Frenados, SuspBloqueados' = SuspBloqueados,
           SuspListos' = SuspListos, Salen' = Salen, Terminados' = Terminados, Residentes' = Residentes
    PROVE  Ciclo!Next
<1>1. Ciclo!Cardinality(Ejecutan) < Ciclo!Cardinality(Cpus)
  BY MismaCardinalidad
<1> QED BY <1>1 DEF Ciclo!Next, Ciclo!Despachar, Ejecutan, Frenados, Frenado, SuspBloqueados, EnSuspBlocked,
                    SuspListos, Salen, Terminados, Residentes

LEMMA EsReanudar ==
    ASSUME SuspListos # <<>>, Head(SuspListos) \in Residentes,
           SuspListos' = Tail(SuspListos), cola'["READY"] = Append(cola["READY"], Head(SuspListos)),
           cola'["NEW"] = cola["NEW"], Ejecutan' = Ejecutan, Frenados' = Frenados,
           SuspBloqueados' = SuspBloqueados, Salen' = Salen, Terminados' = Terminados, Residentes' = Residentes
    PROVE  Ciclo!Next
BY DEF Ciclo!Next, Ciclo!Reanudar, Ejecutan, Frenados, Frenado, SuspBloqueados, EnSuspBlocked,
       SuspListos, Salen, Terminados, Residentes

LEMMA EsCrear ==
    ASSUME NEW p \in Procs, p \notin ToSet(cola["NEW"]), p \notin ToSet(cola["READY"]), p \notin Ejecutan,
           p \notin Frenados, p \notin SuspBloqueados, p \notin ToSet(SuspListos), p \notin Salen,
           p \notin Terminados,
           cola'["NEW"] = Append(cola["NEW"], p), cola'["READY"] = cola["READY"],
           Ejecutan' = Ejecutan, Frenados' = Frenados, SuspBloqueados' = SuspBloqueados,
           SuspListos' = SuspListos, Salen' = Salen, Terminados' = Terminados, Residentes' = Residentes
    PROVE  Ciclo!Next
<1>1. p \notin Ciclo!Vistos
  BY DEF Ciclo!Vistos, Ejecutan, Frenados, Frenado, SuspBloqueados, EnSuspBlocked, SuspListos, Salen, Terminados,
         ToSet, Ciclo!ToSet
<1> QED BY <1>1 DEF Ciclo!Next, Ciclo!Crear, Ejecutan, Frenados, Frenado, SuspBloqueados, EnSuspBlocked,
                    SuspListos, Salen, Terminados, Residentes

LEMMA EsBloquear ==
    ASSUME NEW p \in Procs, p \in Ejecutan, Ejecutan' = Ejecutan \ {p}, Frenados' = Frenados \cup {p},
           cola'["NEW"] = cola["NEW"], cola'["READY"] = cola["READY"], SuspBloqueados' = SuspBloqueados,
           SuspListos' = SuspListos, Salen' = Salen, Terminados' = Terminados, Residentes' = Residentes
    PROVE  Ciclo!Next
BY DEF Ciclo!Next, Ciclo!Bloquear, Ejecutan, Frenados, Frenado, SuspBloqueados, EnSuspBlocked,
       SuspListos, Salen, Terminados, Residentes

LEMMA EsDesbloquear ==
    ASSUME NEW p \in Procs, p \in Frenados, Frenados' = Frenados \ {p},
           cola'["READY"] = Append(cola["READY"], p), cola'["NEW"] = cola["NEW"],
           Ejecutan' = Ejecutan, SuspBloqueados' = SuspBloqueados,
           SuspListos' = SuspListos, Salen' = Salen, Terminados' = Terminados, Residentes' = Residentes
    PROVE  Ciclo!Next
BY DEF Ciclo!Next, Ciclo!Desbloquear, Ejecutan, Frenados, Frenado, SuspBloqueados, EnSuspBlocked,
       SuspListos, Salen, Terminados, Residentes

LEMMA EsSalir ==
    ASSUME NEW p \in Procs, p \in Ejecutan \cup Frenados, Ejecutan' = Ejecutan \ {p}, Frenados' = Frenados \ {p},
           Salen' = Salen \cup {p}, Residentes' = Residentes \ {p},
           cola'["NEW"] = cola["NEW"], cola'["READY"] = cola["READY"], SuspBloqueados' = SuspBloqueados,
           SuspListos' = SuspListos, Terminados' = Terminados
    PROVE  Ciclo!Next
BY DEF Ciclo!Next, Ciclo!Salir, Ejecutan, Frenados, Frenado, SuspBloqueados, EnSuspBlocked,
       SuspListos, Salen, Terminados, Residentes

LEMMA EsTerminar ==
    ASSUME NEW p \in Procs, p \in Salen, Salen' = Salen \ {p}, Terminados' = Terminados \cup {p},
           cola'["NEW"] = cola["NEW"], cola'["READY"] = cola["READY"],
           Ejecutan' = Ejecutan, Frenados' = Frenados, SuspBloqueados' = SuspBloqueados,
           SuspListos' = SuspListos, Residentes' = Residentes
    PROVE  Ciclo!Next
BY DEF Ciclo!Next, Ciclo!Terminar, Ejecutan, Frenados, Frenado, SuspBloqueados, EnSuspBlocked,
       SuspListos, Salen, Terminados, Residentes

LEMMA EsSuspender ==
    ASSUME NEW p \in Procs, p \in Frenados, Frenados' = Frenados \ {p}, SuspBloqueados' = SuspBloqueados \cup {p},
           cola'["NEW"] = cola["NEW"], cola'["READY"] = cola["READY"], Ejecutan' = Ejecutan,
           SuspListos' = SuspListos, Salen' = Salen, Terminados' = Terminados, Residentes' = Residentes
    PROVE  Ciclo!Next
BY DEF Ciclo!Next, Ciclo!Suspender, Ejecutan, Frenados, Frenado, SuspBloqueados, EnSuspBlocked,
       SuspListos, Salen, Terminados, Residentes

LEMMA EsDesalojar ==
    ASSUME NEW p \in Procs, p \in Residentes, p \in SuspBloqueados, Residentes' = Residentes \ {p},
           cola'["NEW"] = cola["NEW"], cola'["READY"] = cola["READY"], Ejecutan' = Ejecutan, Frenados' = Frenados,
           SuspBloqueados' = SuspBloqueados, SuspListos' = SuspListos, Salen' = Salen, Terminados' = Terminados
    PROVE  Ciclo!Next
BY DEF Ciclo!Next, Ciclo!Desalojar, Ejecutan, Frenados, Frenado, SuspBloqueados, EnSuspBlocked,
       SuspListos, Salen, Terminados, Residentes

LEMMA EsFinDeIoSuspendido ==
    ASSUME NEW p \in Procs, p \in SuspBloqueados, p \notin Residentes, SuspBloqueados' = SuspBloqueados \ {p},
           SuspListos' = Append(SuspListos, p),
           cola'["NEW"] = cola["NEW"], cola'["READY"] = cola["READY"], Ejecutan' = Ejecutan, Frenados' = Frenados,
           Salen' = Salen, Terminados' = Terminados, Residentes' = Residentes
    PROVE  Ciclo!Next
BY DEF Ciclo!Next, Ciclo!FinDeIoSuspendido, Ejecutan, Frenados, Frenado, SuspBloqueados, EnSuspBlocked,
       SuspListos, Salen, Terminados, Residentes

-----------------------------------------------------------------------------
(* The frames, added up.                                                    *)

\* The frames of the memory are the free ones and those of the processes in it.
Cuenta == IsFiniteSet(Residentes) /\ libres + Suma(Tam, Residentes) = Marcos

\* A process gets its frames when it is accepted and not before.
NuevosFuera ==
    \A p \in Procs :
        \/ vivo[p] = "sin crear"
        \/ Esta(p, "NEW") /\ ~(largo = "admite" /\ p = Head(cola["NEW"]))
        => ubicacion[p] # "memoria"

LEMMA CuentaTipo ==
    ASSUME IInv, Cuenta
    PROVE  /\ Suma(Tam, Residentes) \in Nat
           /\ \A p \in Procs : Tam[p] \in Nat
           /\ libres \in Int /\ Marcos \in Nat
           /\ libres + Suma(Tam, Residentes) = Marcos
<1>1. Tam \in [Procs -> Nat] /\ Marcos \in Nat
  BY ConstantesAssumption
<1>2. Residentes \subseteq Procs
  BY DEF Residentes
<1>3. Suma(Tam, Residentes) \in Nat
  BY <1>1, <1>2, SumaTipo DEF Cuenta
<1> QED BY <1>1, <1>3 DEF Cuenta, IInv, TypeOK

LEMMA CuentaQuieta ==
    ASSUME Cuenta, ubicacion' = ubicacion, libres' = libres
    PROVE  Cuenta' /\ Residentes' = Residentes
<1>1. Residentes' = Residentes
  BY DEF Residentes
<1> QED BY <1>1 DEF Cuenta

LEMMA CuentaEntra ==
    ASSUME IInv, Cuenta, NEW p \in Procs, ubicacion[p] # "memoria", Cabe(p),
           ubicacion' = [ubicacion EXCEPT ![p] = "memoria"], libres' = libres - Tam[p]
    PROVE  /\ Cuenta' /\ Residentes' = Residentes \cup {p} /\ p \notin Residentes
           /\ Suma(Tam, Residentes) + Tam[p] <= Marcos
<1>t. ubicacion \in [Procs -> {"fuera", "memoria", "swap"}] /\ Tam \in [Procs -> Nat]
  BY ConstantesAssumption DEF IInv, TypeOK
<1>1. Residentes' = Residentes \cup {p} /\ p \notin Residentes /\ Residentes \subseteq Procs
  BY <1>t DEF Residentes
<1>2. IsFiniteSet(Residentes) /\ IsFiniteSet(Residentes \cup {p})
  BY FS_AddElement DEF Cuenta
<1>3. Suma(Tam, Residentes \cup {p}) = Tam[p] + Suma(Tam, Residentes)
  BY <1>t, <1>1, <1>2, SumaAgrega
<1>4. Tam[p] <= libres
  BY DEF Cabe
<1>5. libres' + (Tam[p] + Suma(Tam, Residentes)) = Marcos /\ Suma(Tam, Residentes) + Tam[p] <= Marcos
  BY <1>4, CuentaTipo
<1> QED BY <1>1, <1>2, <1>3, <1>5 DEF Cuenta

LEMMA CuentaSale ==
    ASSUME IInv, Cuenta, NEW p \in Procs, ubicacion[p] = "memoria", NEW x, x # "memoria",
           ubicacion' = [ubicacion EXCEPT ![p] = x], libres' = libres + Tam[p]
    PROVE  Cuenta' /\ Residentes' = Residentes \ {p} /\ p \in Residentes
<1>t. ubicacion \in [Procs -> {"fuera", "memoria", "swap"}] /\ Tam \in [Procs -> Nat]
  BY ConstantesAssumption DEF IInv, TypeOK
<1>1. Residentes' = Residentes \ {p} /\ p \in Residentes /\ Residentes \subseteq Procs
  BY <1>t DEF Residentes
<1>2. IsFiniteSet(Residentes) /\ IsFiniteSet(Residentes \ {p})
  BY FS_RemoveElement DEF Cuenta
<1>3. Suma(Tam, Residentes) = Tam[p] + Suma(Tam, Residentes \ {p})
  BY <1>t, <1>1, <1>2, SumaSin
<1>6. Suma(Tam, Residentes \ {p}) \in Nat
  BY <1>t, <1>1, <1>2, SumaTipo
<1>5. libres' + Suma(Tam, Residentes \ {p}) = Marcos
  BY <1>3, <1>6, CuentaTipo
<1> QED BY <1>1, <1>2, <1>5 DEF Cuenta

LEMMA NuevosQuietos ==
    ASSUME NuevosFuera, \A q \in Procs : /\ vivo'[q] = "sin crear" => vivo[q] = "sin crear"
                                         /\ ubicacion'[q] = "memoria" => ubicacion[q] = "memoria",
           cola'["NEW"] = cola["NEW"], largo = "admite" => largo' = "admite"
    PROVE  NuevosFuera'
BY DEF NuevosFuera, Esta

LEMMA LargoCuenta ==
    ASSUME IInv, Lugares, Cuenta, NuevosFuera, LargoAceptado
    PROVE  /\ Cuenta' /\ NuevosFuera' /\ cola["NEW"] # <<>>
           /\ Residentes' = Residentes \cup {Head(cola["NEW"])} /\ Head(cola["NEW"]) \in Procs \ Residentes
           /\ Suma(Tam, Residentes) + Tam[Head(cola["NEW"])] <= Marcos
<1>. USE DEF pcbs
<1>e. "NEW" \in Estados
  BY DEF Estados
<1>t. cola["NEW"] \in Seq(Procs) /\ ubicacion \in [Procs -> {"fuera", "memoria", "swap"}]
  BY <1>e DEF IInv, TypeOK
<1>0. cola["NEW"] # <<>> /\ SinRepetir(cola["NEW"])
  BY <1>e, ColasVacias, UnaSolaColaPartes DEF LargoAceptado, Lugares
<1>1. Head(cola["NEW"]) \in Procs /\ Figura(Head(cola["NEW"]), cola["NEW"])
  BY <1>t, <1>0, TailSinRepetir
<1>p. PICK p \in Procs : p = Head(cola["NEW"]) /\ Esta(p, "NEW")
  BY <1>1, EstaFigura
<1>2. /\ UNCHANGED <<cola, vivo>> /\ largo = "consulta" /\ largo' = "admite" /\ Cabe(p)
      /\ ubicacion' = [ubicacion EXCEPT ![p] = "memoria"] /\ libres' = libres - Tam[p]
  BY <1>p DEF LargoAceptado
<1>3. ubicacion[p] # "memoria" /\ vivo[p] = "vivo"
  BY <1>e, <1>p, <1>2, Exclusion DEF NuevosFuera, EnAlguna
<1>4. /\ Cuenta' /\ Residentes' = Residentes \cup {p} /\ p \notin Residentes
      /\ Suma(Tam, Residentes) + Tam[p] <= Marcos
  BY <1>2, <1>3, CuentaEntra
<1>5. NuevosFuera'
  <2>1. \A q \in Procs : q # p => ubicacion'[q] = ubicacion[q]
    BY <1>t, <1>2
  <2>2. \A q \in Procs : Esta(q, "NEW")' <=> Esta(q, "NEW")
    BY <1>2 DEF Esta
  <2> QED BY <1>p, <1>2, <1>3, <2>1, <2>2 DEF NuevosFuera
<1> QED BY <1>p, <1>0, <1>4, <1>5

LEMMA MedianoFifoCuenta ==
    ASSUME IInv, CabezaRetenida, Lugares, Cuenta, NuevosFuera, MedianoFifoAceptado
    PROVE  /\ Cuenta' /\ NuevosFuera' /\ cola["SUSP_READY"] # <<>>
           /\ Residentes' = Residentes \cup {Head(cola["SUSP_READY"])}
           /\ Head(cola["SUSP_READY"]) \in Procs \ Residentes
           /\ Suma(Tam, Residentes) + Tam[Head(cola["SUSP_READY"])] <= Marcos
<1>. USE DEF pcbs
<1>e. {"NEW", "SUSP_READY"} \subseteq Estados
  BY DEF Estados
<1>t. cola["SUSP_READY"] \in Seq(Procs) /\ ubicacion \in [Procs -> {"fuera", "memoria", "swap"}]
  BY <1>e DEF IInv, TypeOK
<1>0. /\ cola["SUSP_READY"] # <<>> /\ SinRepetir(cola["SUSP_READY"])
      /\ medianoFifo.proc = Head(cola["SUSP_READY"])
  BY <1>e, UnaSolaColaPartes DEF MedianoFifoAceptado, CabezaRetenida, Lugares
<1>1. Head(cola["SUSP_READY"]) \in Procs /\ Figura(Head(cola["SUSP_READY"]), cola["SUSP_READY"])
  BY <1>t, <1>0, TailSinRepetir
<1>p. PICK p \in Procs : p = Head(cola["SUSP_READY"]) /\ Esta(p, "SUSP_READY") /\ medianoFifo.proc = p
  BY <1>0, <1>1, EstaFigura
<1>2. /\ UNCHANGED <<cola, vivo, largo>> /\ ubicacion[p] = "swap" /\ Cabe(p)
      /\ ubicacion' = [ubicacion EXCEPT ![p] = "memoria"] /\ libres' = libres - Tam[p]
  BY <1>p DEF MedianoFifoAceptado
<1>3. vivo[p] = "vivo" /\ ~Esta(p, "NEW")
  BY <1>e, <1>p, Exclusion DEF EnAlguna
<1>4. /\ Cuenta' /\ Residentes' = Residentes \cup {p} /\ p \notin Residentes
      /\ Suma(Tam, Residentes) + Tam[p] <= Marcos
  BY <1>2, CuentaEntra
<1>5. NuevosFuera'
  <2>1. \A q \in Procs : q # p => ubicacion'[q] = ubicacion[q]
    BY <1>t, <1>2
  <2>2. \A q \in Procs : Esta(q, "NEW")' <=> Esta(q, "NEW")
    BY <1>2 DEF Esta
  <2> QED BY <1>2, <1>3, <2>1, <2>2 DEF NuevosFuera
<1> QED BY <1>p, <1>0, <1>4, <1>5

LEMMA LargoAdmiteCuenta ==
    ASSUME IInv, Lugares, Cuenta, NuevosFuera, LargoAdmite
    PROVE  Cuenta' /\ NuevosFuera'
<1>. USE DEF pcbs, memoria
<1>e. {"NEW", "READY"} \subseteq Estados
  BY DEF Estados
<1>1. /\ UNCHANGED <<vivo, ubicacion, libres>> /\ cola' = MoverPrimero("NEW", "READY")
      /\ largo = "admite" /\ largo' = "duerme"
  BY DEF LargoAdmite
<1>2. PICK p \in Procs : QuedaEn(p, {"READY"}) /\ p = Head(cola["NEW"])
  BY <1>1, <1>e, ColasVacias, ColaPasaPrimero DEF Lugares
<1>3. \A q : Esta(q, "NEW")' <=> q # p /\ Esta(q, "NEW")
  BY <1>2, <1>e DEF QuedaEn
<1>4. NuevosFuera'
  BY <1>1, <1>2, <1>3 DEF NuevosFuera
<1> QED BY <1>1, <1>4, CuentaQuieta

LEMMA SyscallInitProcCuenta ==
    ASSUME IInv, CabezaRetenida, Lugares, Cuenta, NuevosFuera,
           NEW h \in Hilos, NEW p \in Procs, SyscallInitProc(h, p)
    PROVE  Cuenta' /\ NuevosFuera'
<1>. USE DEF planif, pcbs, memoria
<1>e. "NEW" \in Estados
  BY DEF Estados
<1>t. cola \in Colas /\ cola["NEW"] \in Seq(Procs)
  BY <1>e, ColasVacias DEF Colas
<1>v. vivo \in [Procs -> {"sin crear", "vivo", "liberado"}]
  BY DEF IInv, TypeOK
<1>1. /\ UNCHANGED <<largo, ubicacion, libres>> /\ cola' = [cola EXCEPT !["NEW"] = Append(@, p)]
      /\ vivo[p] = "sin crear" /\ vivo' = [vivo EXCEPT ![p] = "vivo"]
  BY DEF SyscallInitProc
<1>2. ~EnAlguna(p)
  BY <1>1 DEF Lugares, LugarBien, AusenteBien
<1>3. QuedaEn(p, {"NEW"})
  BY <1>1, <1>2, <1>e, <1>t, ColaEntra DEF Lugares
<1>4. \A q : q # p => (Esta(q, "NEW")' <=> Esta(q, "NEW"))
  BY <1>3, <1>e DEF QuedaEn
<1>5. largo = "admite" => Head(cola'["NEW"]) = Head(cola["NEW"])
  <2>1. cola'["NEW"] = Append(cola["NEW"], p)
    BY <1>1, <1>e, <1>t DEF Colas
  <2>2. largo = "admite" => cola["NEW"] # <<>>
    BY CabezasEn
  <2>3. cola["NEW"] # <<>> => Head(Append(cola["NEW"], p)) = Head(cola["NEW"])
    BY <1>t
  <2>. QED BY <2>1, <2>2, <2>3
<1>6. ubicacion[p] # "memoria"
  BY <1>1 DEF NuevosFuera
<1>7. \A q \in Procs : vivo'[q] = "sin crear" => vivo[q] = "sin crear"
  BY <1>1, <1>v
<1>8. NuevosFuera'
  BY <1>1, <1>4, <1>5, <1>6, <1>7 DEF NuevosFuera
<1> QED BY <1>1, <1>8, CuentaQuieta

\* Leaving main memory, to swap or for good.
LEMMA SaleCuenta ==
    ASSUME IInv, Cuenta, NuevosFuera, NEW p \in Procs, vivo' = vivo, largo' = largo,
           cola'["NEW"] = cola["NEW"], NEW x, x # "memoria", NEW b \in BOOLEAN, b => ubicacion[p] = "memoria",
           IF b THEN ubicacion' = [ubicacion EXCEPT ![p] = x] /\ libres' = libres + Tam[p]
                ELSE ubicacion' = ubicacion /\ libres' = libres
    PROVE  /\ Cuenta' /\ NuevosFuera'
           /\ Residentes' = IF b THEN Residentes \ {p} ELSE Residentes
<1>t. ubicacion \in [Procs -> {"fuera", "memoria", "swap"}]
  BY DEF IInv, TypeOK
<1>1. Cuenta' /\ Residentes' = IF b THEN Residentes \ {p} ELSE Residentes
  BY CuentaSale, CuentaQuieta
<1>2. \A q \in Procs : ubicacion'[q] = "memoria" => ubicacion[q] = "memoria"
  BY <1>t
<1>3. NuevosFuera'
  BY <1>2, NuevosQuietos
<1> QED BY <1>1, <1>3

LEMMA MedianoEnviaCuenta ==
    ASSUME IInv, Cuenta, NuevosFuera, MedianoEnvia
    PROVE  /\ Cuenta' /\ NuevosFuera'
           /\ Residentes' = IF VaASwap(mediano.proc) THEN Residentes \ {mediano.proc} ELSE Residentes
<1>. USE DEF pcbs, memoria
<1>p. PICK p \in Procs : p = mediano.proc
  BY DEF MedianoEnvia, IInv, ConProceso
<1>b. PICK b \in BOOLEAN : b <=> VaASwap(p)
  OBVIOUS
<1>1. /\ UNCHANGED <<vivo, largo, cola>>
      /\ IF b THEN ubicacion' = [ubicacion EXCEPT ![p] = "swap"] /\ libres' = libres + Tam[p]
              ELSE ubicacion' = ubicacion /\ libres' = libres
  BY <1>p, <1>b DEF MedianoEnvia
<1>2. b => ubicacion[p] = "memoria"
  BY <1>b DEF VaASwap
<1>3. /\ Cuenta' /\ NuevosFuera'
      /\ Residentes' = IF b THEN Residentes \ {p} ELSE Residentes
  BY <1>1, <1>2, SaleCuenta
<1> QED BY <1>3, <1>b, <1>p

LEMMA FinalizarCuenta ==
    ASSUME IInv, Cuenta, NuevosFuera, NEW h \in Hilos, SyscallExit(h) \/ IoFinaliza(h)
    PROVE  /\ Cuenta' /\ NuevosFuera'
           /\ Residentes' = Residentes \ {hilo[h].proc}
<1>. USE DEF planif, pcbs, memoria
<1>e. {"NEW", "EXEC", "EXIT_ESTADO"} \subseteq Estados
  BY DEF Estados
<1>t. cola \in Colas
  BY DEF IInv, TypeOK, Colas
<1>0. hilo[h].pc # "libre"
  BY DEF SyscallExit, IoFinaliza, Llega, En
<1>p. PICK p \in Procs : p = hilo[h].proc
  BY <1>0 DEF IInv, ConProceso
<1>b. PICK b \in BOOLEAN : b <=> ubicacion[p] = "memoria"
  OBVIOUS
<1>1. /\ UNCHANGED <<vivo, largo>> /\ cola' = Mover(p, "EXEC", "EXIT_ESTADO")
      /\ IF b THEN ubicacion' = [ubicacion EXCEPT ![p] = "fuera"] /\ libres' = libres + Tam[p]
              ELSE ubicacion' = ubicacion /\ libres' = libres
  BY <1>p, <1>b DEF SyscallExit, IoFinaliza, Finalizar
<1>2. cola'["NEW"] = cola["NEW"]
  BY <1>e, <1>t, <1>1 DEF Mover, Colas
<1>3. /\ Cuenta' /\ NuevosFuera'
      /\ Residentes' = IF b THEN Residentes \ {p} ELSE Residentes
  BY <1>b, <1>1, <1>2, SaleCuenta
<1>4. ~b => p \notin Residentes
  BY <1>b DEF Residentes
<1> QED BY <1>3, <1>4, <1>p

\* The steps that leave the memory module alone, and NEW.
LEMMA RestoCuenta ==
    ASSUME IInv, Cuenta, NuevosFuera,
           \/ LargoDespierta \/ LargoEsperaVacia \/ LargoRechazado
           \/ MedianoFifoDespierta \/ MedianoFifoRechazado
           \/ MedianoFifoSaca \/ MedianoFifoAdmite \/ MedianoFifoAvisa
           \/ MedianoDespierta \/ MedianoIntenta \/ UsoTrasLiberar \/ UNCHANGED vars
           \/ \E c \in Cpus : ConectarCpu(c) \/ Despachar(c)
           \/ \E h \in Hilos : FinalizarIntenta(h) \/ FinalizarTermina(h) \/ SyscallIo(h) \/ IoBloquea(h)
           \/ \E h \in Hilos, n \in Nombres : IoBuscaDispositivo(h, n)
           \/ \E p \in Procs, k \in Veces : Timer(p, k)
           \/ \E i \in Ios : ConectarIo(i) \/ Io(i)
    PROVE  Cuenta' /\ NuevosFuera' /\ Residentes' = Residentes
<1>. USE DEF planif, disposi, pcbs, memoria
<1>e. Estados = {"NEW", "READY", "BLOCKED", "EXEC", "EXIT_ESTADO", "SUSP_READY", "SUSP_BLOCKED"}
  BY DEF Estados
<1>t. cola \in Colas /\ vivo \in [Procs -> {"sin crear", "vivo", "liberado"}]
  BY DEF IInv, TypeOK, Colas
<1> DEFINE Bien == /\ UNCHANGED <<ubicacion, libres>> /\ cola'["NEW"] = cola["NEW"]
                   /\ largo = "admite" => largo' = "admite"
                   /\ \A q \in Procs : vivo'[q] = "sin crear" => vivo[q] = "sin crear"
<1> SUFFICES Bien
  BY CuentaQuieta, NuevosQuietos
<1>1. CASE \/ LargoDespierta \/ LargoEsperaVacia \/ LargoRechazado
           \/ MedianoFifoDespierta \/ MedianoFifoRechazado \/ MedianoFifoAvisa
           \/ MedianoDespierta \/ MedianoIntenta \/ UsoTrasLiberar \/ UNCHANGED vars
           \/ \E c \in Cpus : ConectarCpu(c)
           \/ \E h \in Hilos : FinalizarIntenta(h) \/ SyscallIo(h)
           \/ \E h \in Hilos, n \in Nombres : IoBuscaDispositivo(h, n)
  <2>1. UNCHANGED <<ubicacion, libres, cola, vivo>> /\ (largo = "admite" => largo' = "admite")
    BY <1>1 DEF LargoDespierta, LargoEsperaVacia, LargoRechazado, MedianoFifoDespierta, MedianoFifoRechazado,
                MedianoFifoAvisa, MedianoDespierta, MedianoIntenta, UsoTrasLiberar, vars, ConectarCpu,
                FinalizarIntenta, SyscallIo, IoBuscaDispositivo
  <2> QED BY <2>1
<1>2. CASE MedianoFifoSaca \/ MedianoFifoAdmite \/ \E c \in Cpus : Despachar(c)
  BY <1>2, <1>e, <1>t DEF MedianoFifoSaca, MedianoFifoAdmite, Despachar, MoverPrimero, Colas
<1>3. CASE \E h \in Hilos : FinalizarTermina(h) \/ IoBloquea(h)
  BY <1>3, <1>e, <1>t DEF FinalizarTermina, IoBloquea, Sacar, Mover, Colas
<1>4. CASE \E p \in Procs, k \in Veces : Timer(p, k)
  BY <1>4, <1>e, <1>t DEF Timer, TimerNace, TimerCompara, TimerBusca, TimerSaca, TimerSuspende, Sacar, Colas
<1>5. CASE \E i \in Ios : ConectarIo(i) \/ RegistrarIo(i) \/ IoDespierta(i) \/ IoBusca(i) \/ IoTermina(i)
  <2>1. UNCHANGED <<ubicacion, libres, cola, vivo, largo>>
    BY <1>5 DEF ConectarIo, RegistrarIo, IoDespierta, IoBusca, IoTermina
  <2> QED BY <2>1
<1>6. CASE \E i \in Ios : IoSaca(i) \/ IoTransiciona(i)
  BY <1>6, <1>e, <1>t DEF IoSaca, IoTransiciona, Sacar, Colas
<1> QED BY <1>1, <1>2, <1>3, <1>4, <1>5, <1>6 DEF Io

\* Under Regimen there are no dumps.
LEMMA SinDumps ==
    ASSUME Regimen, Lugares, NEW h \in Hilos
    PROVE  ~(SyscallDump(h) \/ DumpLiberaCpu(h) \/ DumpAceptado(h) \/ DumpAReady(h) \/ DumpRechazado(h))
<1>1. hilo[h].pc \notin {"dump", "dumpEspera", "dumpListo"}
  BY DEF Lugares, Ociosos, PcsEnExec, PcsEnExit
<1>2. ~SyscallDump(h)
  BY DEF Regimen, SyscallDump, Llega
<1> QED BY <1>1, <1>2 DEF DumpLiberaCpu, DumpAceptado, DumpAReady, DumpRechazado, En

LEMMA NextCuenta ==
    ASSUME Regimen, IInv, CabezaRetenida, Lugares, Cuenta, NuevosFuera, [Next]_vars
    PROVE  Cuenta' /\ NuevosFuera'
<1>1. CASE Largo
  BY <1>1, LargoCuenta, LargoAdmiteCuenta, RestoCuenta DEF Largo
<1>2. CASE MedianoFifo
  BY <1>2, MedianoFifoCuenta, RestoCuenta DEF MedianoFifo
<1>3. CASE Mediano
  BY <1>3, MedianoEnviaCuenta, RestoCuenta DEF Mediano
<1>4. CASE Corto \/ (\E c \in Cpus : ConectarCpu(c)) \/ UsoTrasLiberar \/ UNCHANGED vars
  BY <1>4, RestoCuenta DEF Corto
<1>5. CASE \E h \in Hilos : Hilo(h)
  BY <1>5, SinDumps, SyscallInitProcCuenta, FinalizarCuenta, RestoCuenta DEF Hilo
<1>6. CASE (\E p \in Procs, k \in Veces : Timer(p, k)) \/ \E i \in Ios : ConectarIo(i) \/ Io(i)
  BY <1>6, RestoCuenta
<1> QED BY <1>1, <1>2, <1>3, <1>4, <1>5, <1>6 DEF Next

LEMMA InitCuenta ==
    ASSUME Init
    PROVE  Cuenta /\ NuevosFuera
<1>1. Residentes = {} /\ libres = Marcos /\ Marcos \in Nat
  BY ConstantesAssumption DEF Init, Residentes
<1>2. Cuenta
  BY <1>1, SumaVacia, FS_EmptySet DEF Cuenta
<1>3. NuevosFuera
  BY DEF Init, NuevosFuera
<1> QED BY <1>2, <1>3

-----------------------------------------------------------------------------
(* The steps of the Kernel, as steps of CicloDeVida.                        *)

LEMMA AntesDe ==
    ASSUME NEW s \in Seq(Procs), NEW p \in Procs
    PROVE  /\ <<>> \o s = s
           /\ <<p>> \o s # <<>> /\ Head(<<p>> \o s) = p /\ Tail(<<p>> \o s) = s
           /\ s # <<>> => <<Head(s)>> \o Tail(s) = s
           /\ \A r \in Seq(Procs) : r \o Append(s, p) = Append(r \o s, p)
<1>1. <<>> \o s = s
  BY ConcatEmptySeq
<1>2. <<p>> \in Seq(Procs) /\ <<>> \in Seq(Procs)
  OBVIOUS
<1>3. <<p>> \o s # <<>> /\ Head(<<p>> \o s) = p
  OBVIOUS
<1>4. Tail(<<p>> \o s) = s
  OBVIOUS
<1>5. ASSUME s # <<>> PROVE <<Head(s)>> \o Tail(s) = s
  <2>1. Head(s) \in Procs /\ Tail(s) \in Seq(Procs) /\ <<Head(s)>> \in Seq(Procs)
    BY <1>5, HeadTailProperties
  <2>2. <<Head(s)>> \o Tail(s) \in Seq(Procs)
    BY <2>1, ConcatProperties
  <2>3. Len(<<Head(s)>> \o Tail(s)) = Len(s)
    BY <1>5, <2>1
  <2>4. \A i \in 1 .. Len(s) : (<<Head(s)>> \o Tail(s))[i] = s[i]
    BY <1>5, <2>1
  <2> QED BY <2>2, <2>3, <2>4, SeqEqual
<1>6. \A r \in Seq(Procs) : r \o Append(s, p) = Append(r \o s, p)
  <2> SUFFICES ASSUME NEW r \in Seq(Procs) PROVE r \o Append(s, p) = Append(r \o s, p)
    OBVIOUS
  <2>1. Append(s, p) = s \o <<p>> /\ Append(r \o s, p) = (r \o s) \o <<p>>
    BY AppendIsConcat, ConcatProperties
  <2> QED BY <1>2, <2>1, ConcatAssociative
<1> QED BY <1>1, <1>3, <1>4, <1>5, <1>6

\* The queue of SUSP_READY, where medianoFifo holds no process taken out of it.
LEMMA SinAdmitir ==
    /\ cola["SUSP_READY"] \in Seq(Procs) /\ medianoFifo.pc # "admite" => SuspListos = cola["SUSP_READY"]
    /\ cola'["SUSP_READY"] \in Seq(Procs) /\ medianoFifo'.pc # "admite" => SuspListos' = cola'["SUSP_READY"]
BY ConcatEmptySeq DEF SuspListos

LEMMA SuspListosQuietos ==
    ASSUME medianoFifo' = medianoFifo, cola'["SUSP_READY"] = cola["SUSP_READY"]
    PROVE  SuspListos' = SuspListos
BY DEF SuspListos

\* The facts of state that the steps need.
Firme == /\ IInv /\ CabezaRetenida /\ Lugares /\ Ubicados /\ Suspendidos /\ UnProcesoPorCpu
         /\ Cuenta /\ NuevosFuera

Avanza == Ciclo!Next \/ Igual

LEMMA LargoAceptadoCiclo ==
    ASSUME Firme, LargoAceptado
    PROVE  Avanza
<1>. USE DEF planif, disposi, pcbs, memoria
<1>1. UNCHANGED <<cola, vivo, hilo, timer, io, medianoFifo>>
  BY DEF LargoAceptado
<1>2. MismosLugares
  BY <1>1, SinHilos, SinMoverse
<1>3. /\ cola["NEW"] # <<>>
      /\ Residentes' = Residentes \cup {Head(cola["NEW"])} /\ Head(cola["NEW"]) \in Procs \ Residentes
      /\ Suma(Tam, Residentes) + Tam[Head(cola["NEW"])] <= Marcos
  BY LargoCuenta DEF Firme
<1> QED BY <1>2, <1>3, EsReservar DEF Avanza, MismosLugares

LEMMA MedianoFifoAceptadoCiclo ==
    ASSUME Firme, MedianoFifoAceptado
    PROVE  Avanza
<1>. USE DEF planif, disposi, pcbs, memoria
<1>1. /\ UNCHANGED <<cola, vivo, hilo, timer, io>>
      /\ medianoFifo.pc = "consulta" /\ medianoFifo'.pc # "admite"
  BY DEF MedianoFifoAceptado, Firme, IInv, TypeOK
<1>2. MismosLugares
  BY <1>1, SinHilos, SinMoverse
<1>3. /\ cola["SUSP_READY"] # <<>>
      /\ Residentes' = Residentes \cup {Head(cola["SUSP_READY"])}
      /\ Head(cola["SUSP_READY"]) \in Procs \ Residentes
      /\ Suma(Tam, Residentes) + Tam[Head(cola["SUSP_READY"])] <= Marcos
  BY MedianoFifoCuenta DEF Firme
<1>t. cola["SUSP_READY"] \in Seq(Procs)
  BY DEF Firme, IInv, TypeOK, Estados
<1>4. SuspListos = cola["SUSP_READY"]
  BY <1>1, <1>t, SinAdmitir
<1> QED BY <1>2, <1>3, <1>4, EsReservar DEF Avanza, MismosLugares

LEMMA MedianoEnviaCiclo ==
    ASSUME Firme, MedianoEnvia
    PROVE  Avanza
<1>. USE DEF planif, disposi, pcbs, memoria
<1>1. UNCHANGED <<cola, vivo, hilo, timer, io, medianoFifo>>
  BY DEF MedianoEnvia
<1>2. MismosLugares
  BY <1>1, SinHilos, SinMoverse
<1>p. PICK p \in Procs : p = mediano.proc
  BY DEF MedianoEnvia, Firme, IInv, ConProceso
<1>3. Residentes' = IF VaASwap(p) THEN Residentes \ {p} ELSE Residentes
  BY <1>p, MedianoEnviaCuenta DEF Firme
<1>4. Esta(p, "SUSP_BLOCKED")
  BY <1>p DEF Firme, Lugares, LugarBien, PlanBien
<1>5. p \in SuspBloqueados
  BY <1>4 DEF SuspBloqueados, EnSuspBlocked
<1>6. CASE VaASwap(p)
  <2>1. p \in Residentes
    BY <1>6 DEF VaASwap, Residentes
  <2> QED BY <1>2, <1>3, <1>5, <1>6, <2>1, EsDesalojar DEF Avanza, MismosLugares
<1>7. CASE ~VaASwap(p)
  BY <1>2, <1>3, <1>7 DEF Avanza, Igual
<1> QED BY <1>6, <1>7

LEMMA LargoAdmiteCiclo ==
    ASSUME Firme, LargoAdmite
    PROVE  Avanza
<1>. USE DEF pcbs, memoria
<1>e. {"NEW", "READY", "SUSP_READY"} \subseteq Estados /\ cola \in Colas
  BY DEF Estados, Firme, IInv, TypeOK, Colas
<1>1. /\ UNCHANGED <<vivo, ubicacion, medianoFifo>> /\ largo = "admite"
      /\ cola' = MoverPrimero("NEW", "READY")
  BY DEF LargoAdmite
<1>2. /\ cola'["NEW"] = Tail(cola["NEW"]) /\ cola'["READY"] = Append(cola["READY"], Head(cola["NEW"]))
      /\ cola'["SUSP_READY"] = cola["SUSP_READY"]
  BY <1>1, <1>e DEF MoverPrimero, Colas
<1>3. cola["NEW"] # <<>> /\ Esta(Head(cola["NEW"]), "NEW") /\ Head(cola["NEW"]) \in Procs
  <2>1. cola["NEW"] # <<>> /\ Esta(Head(cola["NEW"]), "NEW")
    BY <1>1, CabezasEn DEF Firme
  <2> QED BY <2>1, <1>e, HeadTailProperties DEF Colas
<1>p. PICK p \in Procs : p = Head(cola["NEW"])
  BY <1>3
<1>4. Lugares' /\ QuedaEn(p, {"READY"}) /\ \A q \in Procs : q # p => Quieto(q)
  BY <1>p, LargoAdmiteLugares DEF Firme, Mueve
<1>5. Fuera(p) /\ ~Esta(p, "EXIT_ESTADO")
  <2>1. Situacion(p) /\ \A e, f \in Estados : Esta(p, e) /\ Esta(p, f) => e = f
    BY SituacionEsta, Exclusion DEF Firme
  <2> QED BY <1>3, <1>p, <2>1, <1>e DEF Situacion, Estados
<1>6. Fuera(p)'
  <2>1. Situacion(p)'
    BY <1>4, SituacionTras
  <2>2. Esta(p, "READY")'
    BY <1>4, <1>e DEF QuedaEn
  <2> QED BY <2>1, <2>2 DEF Situacion
<1>7. Ejecutan' = Ejecutan /\ Frenados' = Frenados /\ SuspBloqueados' = SuspBloqueados
  BY <1>4, <1>5, <1>6, ConjuntosQuietos
<1>8. Salen' = Salen
  BY <1>4, <1>5, SalenTras
<1>9. SuspListos' = SuspListos /\ Terminados' = Terminados /\ Residentes' = Residentes
  BY <1>1, <1>2, SuspListosQuietos DEF Terminados, Residentes
<1>10. p \in Residentes
  BY <1>1, <1>p DEF Firme, Ubicados, EnMemoria, Residentes
<1> QED BY <1>2, <1>3, <1>7, <1>8, <1>9, <1>10, <1>p, EsAdmitir DEF Avanza

\* What SituacionEsta and SituacionTras say of the process that a step moves.
LEMMA Movido ==
    ASSUME Firme, Lugares', NEW p \in Procs, NEW T, Mueve(p, T)
    PROVE  /\ Situacion(p) /\ Situacion(p)' /\ QuedaEn(p, T)
           /\ \A q \in Procs : q # p => Quieto(q)
           /\ \A e \in Estados : Esta(p, e)' <=> e \in T
           /\ \A e, f \in Estados : Esta(p, e) /\ Esta(p, f) => e = f
BY SituacionEsta, SituacionTras, Exclusion DEF Firme, Mueve, QuedaEn

LEMMA MedianoFifoSacaCiclo ==
    ASSUME Firme, MedianoFifoSaca
    PROVE  Avanza
<1>. USE DEF pcbs, memoria
<1>e. {"NEW", "READY", "SUSP_READY", "EXIT_ESTADO"} \subseteq Estados /\ cola \in Colas
  BY DEF Estados, Firme, IInv, TypeOK, Colas
<1>1. /\ UNCHANGED <<vivo, ubicacion>> /\ medianoFifo.pc = "saca"
      /\ medianoFifo' = [pc |-> "admite", proc |-> Head(cola["SUSP_READY"])]
      /\ cola' = [cola EXCEPT !["SUSP_READY"] = Tail(@)]
  BY DEF MedianoFifoSaca
<1>2. /\ cola'["NEW"] = cola["NEW"] /\ cola'["READY"] = cola["READY"]
      /\ cola'["SUSP_READY"] = Tail(cola["SUSP_READY"])
  BY <1>1, <1>e DEF Colas
<1>t. cola["SUSP_READY"] \in Seq(Procs)
  BY <1>e DEF Colas
<1>3. cola["SUSP_READY"] # <<>>
  <2>1. Esta(medianoFifo.proc, "SUSP_READY")
    BY <1>1, CabezasEn DEF Firme
  <2> QED BY <2>1, <1>t DEF Esta
<1>p. PICK p \in Procs : p = Head(cola["SUSP_READY"])
  BY <1>3, <1>t, HeadTailProperties
<1>c. Esta(p, "SUSP_READY")
  BY <1>p, <1>3, <1>t DEF Esta
<1>4. Lugares' /\ Mueve(p, {})
  BY <1>p, MedianoFifoLugares DEF Firme
<1>5. Fuera(p) /\ ~Esta(p, "EXIT_ESTADO")
  BY <1>4, <1>c, <1>e, Movido DEF Situacion
<1>6. Fuera(p)'
  <2>1. Admite(p)'
    BY <1>1, <1>p DEF Admite
  <2> QED BY <1>4, <2>1, Movido DEF Situacion
<1>7. Ejecutan' = Ejecutan /\ Frenados' = Frenados /\ SuspBloqueados' = SuspBloqueados
  BY <1>4, <1>5, <1>6, ConjuntosQuietos DEF Mueve
<1>8. Salen' = Salen
  BY <1>4, <1>5, SalenTras DEF Mueve
<1>9. Terminados' = Terminados /\ Residentes' = Residentes
  BY <1>1 DEF Terminados, Residentes
<1>10. SuspListos = cola["SUSP_READY"]
  BY <1>1, <1>t, SinAdmitir
<1>11. SuspListos' = <<p>> \o Tail(cola["SUSP_READY"])
  BY <1>1, <1>2, <1>p DEF SuspListos
<1>12. SuspListos' = SuspListos
  BY <1>p, <1>10, <1>11, <1>3, <1>t, AntesDe
<1> QED BY <1>2, <1>7, <1>8, <1>9, <1>12 DEF Avanza, Igual, MismosLugares

LEMMA MedianoFifoAdmiteCiclo ==
    ASSUME Firme, MedianoFifoAdmite
    PROVE  Avanza
<1>. USE DEF pcbs, memoria
<1>e. {"NEW", "READY", "SUSP_READY", "EXIT_ESTADO"} \subseteq Estados /\ cola \in Colas
  BY DEF Estados, Firme, IInv, TypeOK, Colas
<1>p. PICK p \in Procs : p = medianoFifo.proc
  BY DEF MedianoFifoAdmite, Firme, IInv, ConProceso
<1>1. /\ UNCHANGED <<vivo, ubicacion>> /\ medianoFifo.pc = "admite" /\ medianoFifo'.pc = "avisa"
      /\ cola' = [cola EXCEPT !["READY"] = Append(@, p)]
  BY <1>p DEF MedianoFifoAdmite
<1>2. /\ cola'["NEW"] = cola["NEW"] /\ cola'["READY"] = Append(cola["READY"], p)
      /\ cola'["SUSP_READY"] = cola["SUSP_READY"]
  BY <1>1, <1>e DEF Colas
<1>t. cola["SUSP_READY"] \in Seq(Procs)
  BY <1>e DEF Colas
<1>c. Admite(p)
  BY <1>1, <1>p DEF Admite
<1>4. Lugares' /\ Mueve(p, {"READY"})
  BY <1>p, MedianoFifoLugares DEF Firme
<1>5. Fuera(p) /\ ~Esta(p, "EXIT_ESTADO")
  BY <1>4, <1>c, <1>e, Movido, Exclusion DEF Situacion, Firme, EnAlguna
<1>6. Fuera(p)'
  BY <1>4, <1>e, Movido DEF Situacion
<1>7. Ejecutan' = Ejecutan /\ Frenados' = Frenados /\ SuspBloqueados' = SuspBloqueados
  BY <1>4, <1>5, <1>6, ConjuntosQuietos DEF Mueve
<1>8. Salen' = Salen
  BY <1>4, <1>5, SalenTras DEF Mueve
<1>9. Terminados' = Terminados /\ Residentes' = Residentes
  BY <1>1 DEF Terminados, Residentes
<1>10. SuspListos = <<p>> \o cola["SUSP_READY"]
  BY <1>1, <1>p DEF SuspListos
<1>11. SuspListos' = cola["SUSP_READY"]
  BY <1>1, <1>2, <1>t, SinAdmitir
<1>12. SuspListos # <<>> /\ Head(SuspListos) = p /\ SuspListos' = Tail(SuspListos)
  BY <1>10, <1>11, <1>t, AntesDe
<1>13. p \in Residentes
  BY <1>1, <1>p DEF Firme, Ubicados, EnMemoria, Residentes
<1> QED BY <1>2, <1>7, <1>8, <1>9, <1>12, <1>13, EsReanudar DEF Avanza

\* The CPU that is free is nobody's: fewer processes run than there are CPUs.
LEMMA HayCpuLibre ==
    ASSUME Firme, NEW c \in Cpus, cpu[c] = "libre"
    PROVE  Cardinality(Ejecutan) < Cardinality(Cpus)
<1>f. IsFiniteSet(Cpus)
  BY ConstantesAssumption
<1>h. hilo \in [Hilos -> TipoHilo] /\ \A h \in Hilos : hilo[h].pc # "libre" => hilo[h].cpu \in Cpus
  BY DEF Firme, IInv, TypeOK, ConProceso
<1> DEFINE De(p) == CHOOSE h \in Hilos : hilo[h].proc = p /\ hilo[h].pc = "ejecuta"
           f == [p \in Ejecutan |-> hilo[De(p)].cpu]
<1>1. \A p \in Ejecutan : De(p) \in Hilos /\ hilo[De(p)].proc = p /\ hilo[De(p)].pc = "ejecuta"
  <2> SUFFICES ASSUME NEW p \in Ejecutan
               PROVE  De(p) \in Hilos /\ hilo[De(p)].proc = p /\ hilo[De(p)].pc = "ejecuta"
    OBVIOUS
  <2>1. \E h \in Hilos : hilo[h].proc = p /\ hilo[h].pc = "ejecuta"
    BY SituacionPartes DEF Ejecutan, Firme
  <2> QED BY <2>1
<1> HIDE DEF De
<1>2. \A p \in Ejecutan : f[p] \in Cpus \ {c}
  BY <1>1, <1>h DEF Firme, UnProcesoPorCpu, ConCpu
<1>3. \A p, q \in Ejecutan : f[p] = f[q] => p = q
  BY <1>1 DEF Firme, UnProcesoPorCpu, ConCpu
<1>4. f \in Injection(Ejecutan, Cpus \ {c})
  BY <1>2, <1>3 DEF Injection, IsInjective
<1>5. /\ IsFiniteSet(Cpus \ {c}) /\ Cardinality(Cpus \ {c}) = Cardinality(Cpus) - 1
      /\ Cardinality(Cpus) \in Nat
  BY <1>f, FS_RemoveElement, FS_CardinalityType
<1>6. Cardinality(Ejecutan) <= Cardinality(Cpus \ {c}) /\ IsFiniteSet(Ejecutan)
  BY <1>4, <1>5, FS_Injection
<1>7. Cardinality(Ejecutan) \in Nat
  BY <1>6, FS_CardinalityType
<1> QED BY <1>5, <1>6, <1>7

LEMMA DespacharCiclo ==
    ASSUME Firme, NEW c \in Cpus, Despachar(c)
    PROVE  Avanza
<1>. USE DEF planif, pcbs, memoria
<1>e. {"NEW", "READY", "SUSP_READY", "EXEC", "EXIT_ESTADO"} \subseteq Estados /\ cola \in Colas
  BY DEF Estados, Firme, IInv, TypeOK, Colas
<1>1. /\ UNCHANGED <<vivo, ubicacion, medianoFifo>> /\ cola' = MoverPrimero("READY", "EXEC")
      /\ cpu[c] = "libre" /\ sem["READY"] > 0
  BY DEF Despachar, Senales
<1>2. /\ cola'["NEW"] = cola["NEW"] /\ cola'["READY"] = Tail(cola["READY"])
      /\ cola'["SUSP_READY"] = cola["SUSP_READY"]
  BY <1>1, <1>e DEF MoverPrimero, Colas
<1>t. cola["READY"] \in Seq(Procs)
  BY <1>e DEF Colas
<1>3. cola["READY"] # <<>>
  BY <1>1, <1>t DEF Firme, IInv, FichasDeColas
<1>p. PICK p \in Procs : p = Head(cola["READY"])
  BY <1>3, <1>t, HeadTailProperties
<1>c. Esta(p, "READY")
  BY <1>p, <1>3, <1>t DEF Esta
<1>4. Lugares' /\ Mueve(p, {"EXEC"})
  BY <1>p, DespacharLugares DEF Firme
<1>5. Fuera(p) /\ ~Esta(p, "EXIT_ESTADO")
  BY <1>4, <1>c, <1>e, Movido DEF Situacion
<1>h. \E h \in Hilos : hilo'[h].proc = p /\ hilo'[h].pc = "ejecuta"
  <2>1. hilo \in [Hilos -> TipoHilo]
    BY DEF Firme, IInv, TypeOK
  <2>2. PICK h \in Hilos : h = CHOOSE g \in Hilos : En(g, "libre")
    BY DEF Despachar
  <2>3. hilo' = [hilo EXCEPT ![h] = [pc |-> "ejecuta", proc |-> p, cpu |-> c, motivo |-> "EXIT"]]
    BY <1>p, <2>2 DEF Despachar
  <2> QED BY <2>1, <2>3
<1>6. SoloCorre(p)'
  BY <1>4, <1>h, Movido DEF Situacion
<1>7. Ejecutan' = Ejecutan \cup {p} /\ Frenados' = Frenados /\ SuspBloqueados' = SuspBloqueados
  BY <1>4, <1>5, <1>6, ConjuntosTras, ConjuntosAntes DEF Mueve
<1>8. Salen' = Salen
  BY <1>4, <1>5, SalenTras DEF Mueve
<1>9. SuspListos' = SuspListos /\ Terminados' = Terminados /\ Residentes' = Residentes
  BY <1>1, <1>2, SuspListosQuietos DEF Terminados, Residentes
<1>10. Cardinality(Ejecutan) < Cardinality(Cpus)
  BY <1>1, HayCpuLibre
<1> QED BY <1>2, <1>3, <1>7, <1>8, <1>9, <1>10, <1>p, EsDespachar DEF Avanza

-----------------------------------------------------------------------------
(* The execution threads.                                                  *)

LEMMA SyscallInitProcCiclo ==
    ASSUME Firme, NEW h \in Hilos, NEW p \in Procs, SyscallInitProc(h, p)
    PROVE  Avanza
<1>. USE DEF planif, pcbs, memoria
<1>e. {"NEW", "READY", "SUSP_READY", "EXIT_ESTADO"} \subseteq Estados /\ cola \in Colas
  BY DEF Estados, Firme, IInv, TypeOK, Colas
<1>v. vivo \in [Procs -> {"sin crear", "vivo", "liberado"}]
  BY DEF Firme, IInv, TypeOK
<1>1. /\ UNCHANGED <<ubicacion, medianoFifo>> /\ cola' = [cola EXCEPT !["NEW"] = Append(@, p)]
      /\ vivo[p] = "sin crear" /\ vivo' = [vivo EXCEPT ![p] = "vivo"]
  BY DEF SyscallInitProc
<1>2. /\ cola'["NEW"] = Append(cola["NEW"], p) /\ cola'["READY"] = cola["READY"]
      /\ cola'["SUSP_READY"] = cola["SUSP_READY"]
  BY <1>1, <1>e DEF Colas
<1>4. Lugares' /\ Mueve(p, {"NEW"})
  BY SyscallInitProcLugares DEF Firme
<1>3. ~EnAlguna(p) /\ ~Admite(p)
  BY <1>1 DEF Firme, Lugares, LugarBien, AusenteBien
<1>c. \A e \in Estados : ~Esta(p, e)
  BY <1>3 DEF EnAlguna
<1>5. Fuera(p)
  BY <1>1, <1>4, Movido DEF Situacion
<1>6. Fuera(p)'
  BY <1>4, <1>e, Movido DEF Situacion
<1>7. Ejecutan' = Ejecutan /\ Frenados' = Frenados /\ SuspBloqueados' = SuspBloqueados
  BY <1>4, <1>5, <1>6, ConjuntosQuietos DEF Mueve
<1>8. Salen' = Salen /\ p \notin Salen
  BY <1>4, <1>c, <1>e, SalenTras DEF Mueve
<1>9. /\ SuspListos' = SuspListos /\ Residentes' = Residentes
      /\ Terminados' = Terminados /\ p \notin Terminados
  BY <1>1, <1>2, <1>v, SuspListosQuietos DEF Terminados, Residentes
<1>10. p \notin ToSet(cola["NEW"]) /\ p \notin ToSet(cola["READY"]) /\ p \notin ToSet(cola["SUSP_READY"])
  BY <1>c, <1>e DEF ToSet, Esta
<1>11. p \notin ToSet(SuspListos)
  <2>1. CASE medianoFifo.pc = "admite"
    <3>t. medianoFifo.proc \in Procs /\ <<medianoFifo.proc>> \in Seq(Procs) /\ cola["SUSP_READY"] \in Seq(Procs)
      BY <2>1, <1>e DEF Firme, IInv, ConProceso, Colas
    <3>1. medianoFifo.proc # p
      BY <2>1, <1>3 DEF Admite
    <3>2. SuspListos = <<medianoFifo.proc>> \o cola["SUSP_READY"]
      BY <2>1 DEF SuspListos
    <3>3. \A i \in DOMAIN SuspListos : SuspListos[i] # p
      BY <3>1, <3>2, <3>t, <1>10 DEF ToSet
    <3> QED BY <3>3 DEF ToSet
  <2>2. CASE medianoFifo.pc # "admite"
    BY <2>2, <1>10, <1>e, SinAdmitir DEF Colas
  <2> QED BY <2>1, <2>2
<1>12. p \notin Ejecutan /\ p \notin Frenados /\ p \notin SuspBloqueados
  BY <1>5, ConjuntosAntes
<1> QED BY <1>2, <1>7, <1>8, <1>9, <1>10, <1>11, <1>12, EsCrear DEF Avanza

LEMMA FinalizarCiclo ==
    ASSUME Firme, NEW h \in Hilos, SyscallExit(h) \/ IoFinaliza(h)
    PROVE  Avanza
<1>. USE DEF planif, pcbs, memoria
<1>e. {"NEW", "READY", "SUSP_READY", "EXEC", "EXIT_ESTADO"} \subseteq Estados /\ cola \in Colas
  BY DEF Estados, Firme, IInv, TypeOK, Colas
<1>0. hilo[h].pc \in {"ejecuta", "ioFinaliza"}
  BY DEF SyscallExit, IoFinaliza, Llega, En
<1>p. PICK p \in Procs : p = hilo[h].proc
  BY <1>0 DEF Firme, IInv, ConProceso
<1>1. UNCHANGED <<vivo, medianoFifo>> /\ cola' = Mover(p, "EXEC", "EXIT_ESTADO")
  BY <1>p DEF SyscallExit, IoFinaliza, Finalizar
<1>2. /\ cola'["NEW"] = cola["NEW"] /\ cola'["READY"] = cola["READY"]
      /\ cola'["SUSP_READY"] = cola["SUSP_READY"]
  BY <1>1, <1>e DEF Mover, Colas
<1>4. Lugares' /\ Mueve(p, {"EXIT_ESTADO"})
  BY <1>p, FinalizarLugares DEF Firme
<1>5. SoloCorre(p) \/ SoloFrenado(p)
  BY <1>0, <1>p, <1>4, Movido DEF Situacion
<1>6. Fuera(p)'
  BY <1>4, <1>e, Movido DEF Situacion
<1>7. /\ p \in Ejecutan \cup Frenados
      /\ Ejecutan' = Ejecutan \ {p} /\ Frenados' = Frenados \ {p} /\ SuspBloqueados' = SuspBloqueados
  BY <1>4, <1>5, <1>6, ConjuntosTras, ConjuntosAntes DEF Mueve
<1>8. Salen' = Salen \cup {p}
  BY <1>4, SalenTras DEF Mueve
<1>9. SuspListos' = SuspListos /\ Terminados' = Terminados
  BY <1>1, <1>2, SuspListosQuietos DEF Terminados
<1>10. Residentes' = Residentes \ {p}
  BY <1>p, FinalizarCuenta DEF Firme
<1> QED BY <1>2, <1>7, <1>8, <1>9, <1>10, EsSalir DEF Avanza

LEMMA FinalizarTerminaCiclo ==
    ASSUME Regimen, Firme, NEW h \in Hilos, FinalizarTermina(h)
    PROVE  Avanza
<1>. USE DEF planif, pcbs, memoria
<1>e. {"NEW", "READY", "SUSP_READY", "EXEC", "EXIT_ESTADO"} \subseteq Estados /\ cola \in Colas
  BY DEF Estados, Firme, IInv, TypeOK, Colas
<1>v. vivo \in [Procs -> {"sin crear", "vivo", "liberado"}]
  BY DEF Firme, IInv, TypeOK
<1>0. hilo[h].pc = "termina"
  BY DEF FinalizarTermina, En
<1>p. PICK p \in Procs : p = hilo[h].proc
  BY <1>0 DEF Firme, IInv, ConProceso
<1>1. /\ UNCHANGED <<ubicacion, medianoFifo>> /\ cola' = Sacar(p, "EXIT_ESTADO")
      /\ vivo' = [vivo EXCEPT ![p] = "liberado"]
  BY <1>p DEF FinalizarTermina
<1>2. /\ cola'["NEW"] = cola["NEW"] /\ cola'["READY"] = cola["READY"]
      /\ cola'["SUSP_READY"] = cola["SUSP_READY"]
  BY <1>1, <1>e DEF Sacar, Colas
<1>4. Lugares' /\ Mueve(p, {})
  BY <1>p, FinalizarTerminaLugares DEF Firme
<1>c. Esta(p, "EXIT_ESTADO")
  BY <1>0, <1>p DEF Firme, Lugares, LugarBien, HiloBien, PcsEnExit
<1>5. Fuera(p)
  BY <1>c, <1>4, Movido DEF Situacion
<1>6. Fuera(p)'
  <2>1. vivo'[p] # "vivo"
    BY <1>1, <1>v
  <2> QED BY <2>1, <1>4, Movido DEF Situacion
<1>7. Ejecutan' = Ejecutan /\ Frenados' = Frenados /\ SuspBloqueados' = SuspBloqueados
  BY <1>4, <1>5, <1>6, ConjuntosQuietos DEF Mueve
<1>8. Salen' = Salen \ {p} /\ p \in Salen
  BY <1>4, <1>c, SalenTras DEF Mueve
<1>9. /\ SuspListos' = SuspListos /\ Residentes' = Residentes
      /\ Terminados' = Terminados \cup {p}
  BY <1>1, <1>2, <1>v, SuspListosQuietos DEF Terminados, Residentes
<1> QED BY <1>2, <1>7, <1>8, <1>9, EsTerminar DEF Avanza

LEMMA SyscallIoCiclo ==
    ASSUME Firme, NEW h \in Hilos, SyscallIo(h)
    PROVE  Avanza
<1>. USE DEF planif, pcbs, memoria
<1>0. hilo[h].pc = "ejecuta"
  BY DEF SyscallIo, Llega, En
<1>p. PICK p \in Procs : p = hilo[h].proc
  BY <1>0 DEF Firme, IInv, ConProceso
<1>1. UNCHANGED <<cola, vivo, ubicacion, medianoFifo>>
  BY DEF SyscallIo
<1>4. Lugares' /\ Mueve(p, {"EXEC"})
  BY <1>p, SyscallIoLugares DEF Firme
<1>h. hilo'[h].proc = p /\ hilo'[h].pc = "ioLiberada"
  <2>1. hilo \in [Hilos -> TipoHilo] /\ hilo' = [hilo EXCEPT ![h].pc = "ioLiberada", ![h].motivo = "IO"]
    BY DEF SyscallIo, Firme, IInv, TypeOK
  <2>2. hilo[h] \in TipoHilo /\ hilo'[h] = [hilo[h] EXCEPT !.pc = "ioLiberada", !.motivo = "IO"]
    BY <2>1
  <2> QED BY <1>p, <2>2 DEF TipoHilo
<1>5. SoloCorre(p)
  BY <1>0, <1>p, <1>4, Movido DEF Situacion
<1>6. SoloFrenado(p)'
  BY <1>h, <1>4, Movido DEF Situacion
<1>7. /\ p \in Ejecutan
      /\ Ejecutan' = Ejecutan \ {p} /\ Frenados' = Frenados \cup {p} /\ SuspBloqueados' = SuspBloqueados
  BY <1>4, <1>5, <1>6, ConjuntosTras, ConjuntosAntes DEF Mueve
<1>9. SuspListos' = SuspListos /\ Terminados' = Terminados /\ Residentes' = Residentes /\ Salen' = Salen
  BY <1>1, SuspListosQuietos DEF Terminados, Residentes, Salen
<1> QED BY <1>1, <1>7, <1>9, EsBloquear DEF Avanza

LEMMA IoBloqueaCiclo ==
    ASSUME Regimen, Firme, NEW h \in Hilos, IoBloquea(h)
    PROVE  Avanza
<1>. USE DEF planif, disposi, pcbs, memoria
<1>e. {"NEW", "READY", "SUSP_READY", "EXEC", "BLOCKED", "EXIT_ESTADO"} \subseteq Estados /\ cola \in Colas
  BY DEF Estados, Firme, IInv, TypeOK, Colas
<1>0. hilo[h].pc = "ioBloquea"
  BY DEF IoBloquea, En
<1>p. PICK p \in Procs : p = hilo[h].proc
  BY <1>0 DEF Firme, IInv, ConProceso
<1>1. UNCHANGED <<vivo, ubicacion, medianoFifo>> /\ cola' = Mover(p, "EXEC", "BLOCKED")
  BY <1>p DEF IoBloquea
<1>2. /\ cola'["NEW"] = cola["NEW"] /\ cola'["READY"] = cola["READY"]
      /\ cola'["SUSP_READY"] = cola["SUSP_READY"] /\ cola'["EXIT_ESTADO"] = cola["EXIT_ESTADO"]
  BY <1>1, <1>e DEF Mover, Colas
<1>4. Lugares' /\ Mueve(p, {"BLOCKED"})
  BY <1>p, IoBloqueaLugares DEF Firme
<1>5. SoloFrenado(p)
  BY <1>0, <1>p, <1>4, Movido DEF Situacion
<1>6. SoloFrenado(p)'
  BY <1>4, <1>e, Movido DEF Situacion
<1>7. Ejecutan' = Ejecutan /\ Frenados' = Frenados /\ SuspBloqueados' = SuspBloqueados
  BY <1>4, <1>5, <1>6, ConjuntosQuietos DEF Mueve
<1>9. SuspListos' = SuspListos /\ Terminados' = Terminados /\ Residentes' = Residentes /\ Salen' = Salen
  BY <1>1, <1>2, SuspListosQuietos DEF Terminados, Residentes, Salen
<1> QED BY <1>2, <1>7, <1>9 DEF Avanza, Igual, MismosLugares

LEMMA HiloCiclo ==
    ASSUME Regimen, Firme, NEW h \in Hilos, Hilo(h)
    PROVE  Avanza
<1>1. FinalizarIntenta(h) \/ (\E n \in Nombres : IoBuscaDispositivo(h, n)) => Igual
  BY HiloEsPausa DEF Firme
<1>2. ~(SyscallDump(h) \/ DumpLiberaCpu(h) \/ DumpAceptado(h) \/ DumpAReady(h) \/ DumpRechazado(h))
  BY SinDumps DEF Firme
<1> QED BY <1>1, <1>2, SyscallInitProcCiclo, FinalizarCiclo, FinalizarTerminaCiclo, SyscallIoCiclo, IoBloqueaCiclo
        DEF Hilo, Avanza

-----------------------------------------------------------------------------
(* The timers and the devices.                                             *)

LEMMA TimerSacaCiclo ==
    ASSUME Regimen, Firme, NEW p \in Procs, NEW k \in Veces, TimerSaca(p, k)
    PROVE  Avanza
<1>. USE DEF planif, disposi, pcbs, memoria
<1>e. {"NEW", "READY", "SUSP_READY", "BLOCKED", "EXIT_ESTADO"} \subseteq Estados /\ cola \in Colas
  BY DEF Estados, Firme, IInv, TypeOK, Colas
<1>1. /\ UNCHANGED <<vivo, ubicacion, medianoFifo>> /\ cola' = Sacar(p, "BLOCKED")
      /\ timer[p][k].pc = "visto" /\ timer' = [timer EXCEPT ![p][k].pc = "sacado"]
  BY DEF TimerSaca, TimerPasa
<1>2. /\ cola'["NEW"] = cola["NEW"] /\ cola'["READY"] = cola["READY"]
      /\ cola'["SUSP_READY"] = cola["SUSP_READY"] /\ cola'["EXIT_ESTADO"] = cola["EXIT_ESTADO"]
  BY <1>1, <1>e DEF Sacar, Colas
<1>4. Lugares' /\ Mueve(p, {})
  BY TimerSacaLugares DEF Firme
<1>c. Esta(p, "BLOCKED")
  BY <1>1 DEF Firme, Lugares, LugarBien, TimerBien
<1>d. Sacado(p)'
  <2>t. timer \in [Procs -> [Veces -> TipoTimer]]
    BY DEF Firme, IInv, TypeOK
  <2>1. timer'[p][k].pc = "sacado"
    BY <1>1, <2>t, UnTimer
  <2> QED BY <2>1 DEF Sacado, TimersDe
<1>5. SoloFrenado(p) /\ SoloFrenado(p)'
  BY <1>c, <1>d, <1>4, Movido DEF Situacion
<1>7. Ejecutan' = Ejecutan /\ Frenados' = Frenados /\ SuspBloqueados' = SuspBloqueados
  BY <1>4, <1>5, ConjuntosQuietos DEF Mueve
<1>9. SuspListos' = SuspListos /\ Terminados' = Terminados /\ Residentes' = Residentes /\ Salen' = Salen
  BY <1>1, <1>2, SuspListosQuietos DEF Terminados, Residentes, Salen
<1> QED BY <1>2, <1>7, <1>9 DEF Avanza, Igual, MismosLugares

LEMMA TimerSuspendeCiclo ==
    ASSUME Regimen, Firme, NEW p \in Procs, NEW k \in Veces, TimerSuspende(p, k)
    PROVE  Avanza
<1>. USE DEF planif, disposi, pcbs, memoria
<1>e. {"NEW", "READY", "SUSP_READY", "SUSP_BLOCKED", "EXIT_ESTADO"} \subseteq Estados /\ cola \in Colas
  BY DEF Estados, Firme, IInv, TypeOK, Colas
<1>1. /\ UNCHANGED <<vivo, ubicacion, medianoFifo>> /\ cola' = [cola EXCEPT !["SUSP_BLOCKED"] = Append(@, p)]
      /\ timer[p][k].pc = "sacado"
  BY DEF TimerSuspende
<1>2. /\ cola'["NEW"] = cola["NEW"] /\ cola'["READY"] = cola["READY"]
      /\ cola'["SUSP_READY"] = cola["SUSP_READY"] /\ cola'["EXIT_ESTADO"] = cola["EXIT_ESTADO"]
  BY <1>1, <1>e DEF Colas
<1>4. Lugares' /\ Mueve(p, {"SUSP_BLOCKED"})
  BY TimerSuspendeLugares DEF Firme
<1>d. Sacado(p)
  BY <1>1 DEF Sacado, TimersDe
<1>5. SoloFrenado(p) /\ SoloSuspendido(p)'
  BY <1>d, <1>e, <1>4, Movido DEF Situacion
<1>7. /\ p \in Frenados /\ Ejecutan' = Ejecutan /\ Frenados' = Frenados \ {p}
      /\ SuspBloqueados' = SuspBloqueados \cup {p}
  BY <1>4, <1>5, ConjuntosTras, ConjuntosAntes DEF Mueve
<1>9. SuspListos' = SuspListos /\ Terminados' = Terminados /\ Residentes' = Residentes /\ Salen' = Salen
  BY <1>1, <1>2, SuspListosQuietos DEF Terminados, Residentes, Salen
<1> QED BY <1>2, <1>7, <1>9, EsSuspender DEF Avanza

LEMMA IoSacaCiclo ==
    ASSUME Firme, NEW i \in Ios, IoSaca(i)
    PROVE  Avanza
<1>. USE DEF planif, disposi, pcbs, memoria
<1>e. {"NEW", "READY", "SUSP_READY", "BLOCKED", "SUSP_BLOCKED", "EXIT_ESTADO"} \subseteq Estados /\ cola \in Colas
  BY DEF Estados, Firme, IInv, TypeOK, Colas
<1>0. io[i].pc \in {"enBlocked", "enSusp"} /\ io \in [Ios -> TipoIo]
  BY DEF IoSaca, Firme, IInv, TypeOK
<1>p. PICK p \in Procs : p = io[i].proc
  BY <1>0 DEF Firme, IInv, ConProceso
<1>1. /\ UNCHANGED <<vivo, ubicacion, medianoFifo>>
      /\ \/ io[i].pc = "enBlocked" /\ cola' = Sacar(p, "BLOCKED") /\ io' = [io EXCEPT ![i].pc = "aReady"]
         \/ io[i].pc = "enSusp" /\ cola' = Sacar(p, "SUSP_BLOCKED") /\ io' = [io EXCEPT ![i].pc = "aSuspReady"]
  BY <1>p DEF IoSaca
<1>2. /\ cola'["NEW"] = cola["NEW"] /\ cola'["READY"] = cola["READY"]
      /\ cola'["SUSP_READY"] = cola["SUSP_READY"] /\ cola'["EXIT_ESTADO"] = cola["EXIT_ESTADO"]
  BY <1>1, <1>e DEF Sacar, Colas
<1>4. Lugares' /\ Mueve(p, {})
  BY <1>p, IoSacaLugares DEF Firme
<1>c. /\ io[i].pc = "enBlocked" => Esta(p, "BLOCKED")
      /\ io[i].pc = "enSusp" => Esta(p, "SUSP_BLOCKED")
  BY <1>p DEF Firme, Lugares, LugarBien, IoBien
<1>d. /\ io'[i].proc = p
      /\ io[i].pc = "enBlocked" => io'[i].pc = "aReady"
      /\ io[i].pc = "enSusp" => io'[i].pc = "aSuspReady"
  BY <1>0, <1>1, <1>p, UnDispositivo
<1>5. (SoloFrenado(p) /\ SoloFrenado(p)') \/ (SoloSuspendido(p) /\ SoloSuspendido(p)')
  <2>1. Situacion(p) /\ Situacion(p)'
    BY <1>4, Movido
  <2>2. CASE io[i].pc = "enBlocked"
    <3>1. SoloFrenado(p)
      BY <1>c, <2>1, <2>2 DEF Situacion
    <3>2. SoloFrenado(p)'
      BY <1>d, <2>1, <2>2 DEF Situacion
    <3> QED BY <3>1, <3>2
  <2>3. CASE io[i].pc = "enSusp"
    <3>1. SoloSuspendido(p)
      BY <1>c, <2>1, <2>3 DEF Situacion
    <3>2. SoloSuspendido(p)'
      BY <1>d, <2>1, <2>3 DEF Situacion
    <3> QED BY <3>1, <3>2
  <2> QED BY <1>0, <2>2, <2>3
<1>7. Ejecutan' = Ejecutan /\ Frenados' = Frenados /\ SuspBloqueados' = SuspBloqueados
  BY <1>4, <1>5, ConjuntosQuietos DEF Mueve
<1>9. SuspListos' = SuspListos /\ Terminados' = Terminados /\ Residentes' = Residentes /\ Salen' = Salen
  BY <1>1, <1>2, SuspListosQuietos DEF Terminados, Residentes, Salen
<1> QED BY <1>2, <1>7, <1>9 DEF Avanza, Igual, MismosLugares

LEMMA IoTransicionaCiclo ==
    ASSUME Firme, NEW i \in Ios, IoTransiciona(i)
    PROVE  Avanza
<1>. USE DEF planif, disposi, pcbs, memoria
<1>e. {"NEW", "READY", "SUSP_READY", "EXIT_ESTADO"} \subseteq Estados /\ cola \in Colas
  BY DEF Estados, Firme, IInv, TypeOK, Colas
<1>0. io[i].pc \in {"aReady", "aSuspReady"}
  BY DEF IoTransiciona
<1>p. PICK p \in Procs : p = io[i].proc
  BY <1>0 DEF Firme, IInv, ConProceso
<1>1. /\ UNCHANGED <<vivo, ubicacion, medianoFifo>>
      /\ io[i].pc = "aReady" => cola' = [cola EXCEPT !["READY"] = Append(@, p)]
      /\ io[i].pc = "aSuspReady" => cola' = [cola EXCEPT !["SUSP_READY"] = Append(@, p)]
  BY <1>p DEF IoTransiciona
<1>4. Lugares' /\ Mueve(p, IF io[i].pc = "aReady" THEN {"READY"} ELSE {"SUSP_READY"})
  BY <1>p, IoTransicionaLugares DEF Firme
<1>c. /\ io[i].pc = "aReady" => SoloFrenado(p)
      /\ io[i].pc = "aSuspReady" => SoloSuspendido(p)
  BY <1>4, <1>p, Movido DEF Situacion
<1>x. ~Esta(p, "EXIT_ESTADO")
  BY <1>0, <1>p, <1>e DEF Firme, Lugares, LugarBien, IoBien, PcsAReady, EnAlguna
<1>6. Fuera(p)'
  BY <1>4, <1>e, Movido DEF Situacion
<1>7. Ejecutan' = Ejecutan \ {p} /\ Frenados' = Frenados \ {p} /\ SuspBloqueados' = SuspBloqueados \ {p}
  BY <1>4, <1>6, ConjuntosTras DEF Mueve
<1>8. Salen' = Salen
  <2>1. PICK T \in {{"READY"}, {"SUSP_READY"}} : Mueve(p, T)
    BY <1>4
  <2> QED BY <2>1, <1>x, SalenTras DEF Mueve
<1>9. Terminados' = Terminados /\ Residentes' = Residentes
  BY <1>1 DEF Terminados, Residentes
<1>10. CASE io[i].pc = "aReady"
  <2>1. /\ cola'["NEW"] = cola["NEW"] /\ cola'["READY"] = Append(cola["READY"], p)
        /\ cola'["SUSP_READY"] = cola["SUSP_READY"]
    BY <1>1, <1>10, <1>e DEF Colas
  <2>2. SuspListos' = SuspListos
    BY <1>1, <2>1, SuspListosQuietos
  <2>3. p \in Frenados /\ Ejecutan' = Ejecutan /\ SuspBloqueados' = SuspBloqueados
    BY <1>10, <1>c, <1>7, ConjuntosAntes
  <2> QED BY <1>7, <1>8, <1>9, <2>1, <2>2, <2>3, EsDesbloquear DEF Avanza
<1>11. CASE io[i].pc = "aSuspReady"
  <2>1. /\ cola'["NEW"] = cola["NEW"] /\ cola'["READY"] = cola["READY"]
        /\ cola'["SUSP_READY"] = Append(cola["SUSP_READY"], p)
    BY <1>1, <1>11, <1>e DEF Colas
  <2>2. SuspListos' = Append(SuspListos, p)
    <3>t. cola["SUSP_READY"] \in Seq(Procs)
      BY <1>e DEF Colas
    <3>0. medianoFifo.pc = "admite" => medianoFifo.proc \in Procs
      BY DEF Firme, IInv, ConProceso
    <3>9. <<>> \in Seq(Procs) /\ \A q \in Procs : <<q>> \in Seq(Procs)
      OBVIOUS
    <3>1. PICK r \in Seq(Procs) : r = IF medianoFifo.pc = "admite" THEN <<medianoFifo.proc>> ELSE <<>>
      BY <3>0, <3>9
    <3>2. SuspListos = r \o cola["SUSP_READY"] /\ SuspListos' = r \o Append(cola["SUSP_READY"], p)
      BY <1>1, <2>1, <3>1 DEF SuspListos
    <3> QED BY <3>2, <3>t, AntesDe
  <2>3. p \in SuspBloqueados /\ Ejecutan' = Ejecutan /\ Frenados' = Frenados
    BY <1>11, <1>c, <1>7, ConjuntosAntes
  <2>4. p \notin Residentes
    BY <1>11, <1>p DEF Firme, Suspendidos, EnSwap, Residentes
  <2> QED BY <1>7, <1>8, <1>9, <2>1, <2>2, <2>3, <2>4, EsFinDeIoSuspendido DEF Avanza
<1> QED BY <1>0, <1>10, <1>11

-----------------------------------------------------------------------------
(* All the steps.                                                          *)

LEMMA InitCiclo ==
    ASSUME Init
    PROVE  Ciclo!Init
<1>e. {"NEW", "READY", "SUSP_READY", "EXIT_ESTADO", "BLOCKED", "SUSP_BLOCKED"} \subseteq Estados
  BY DEF Estados
<1>1. /\ cola["NEW"] = <<ProcesoInicial>> /\ cola["READY"] = <<>> /\ cola["SUSP_READY"] = <<>>
      /\ cola["EXIT_ESTADO"] = <<>>
  <2>1. \A e \in Estados : cola[e] = IF e = "NEW" THEN <<ProcesoInicial>> ELSE <<>>
    BY DEF Init
  <2> QED BY <1>e, <2>1
<1>2. Salen = {} /\ Terminados = {} /\ Residentes = {}
  <2>1. Salen = {}
    BY <1>1 DEF Salen, ToSet
  <2>2. \A p \in Procs : vivo[p] # "liberado" /\ ubicacion[p] # "memoria"
    BY DEF Init
  <2> QED BY <2>1, <2>2 DEF Terminados, Residentes
<1>3. SuspListos = <<>>
  <2>1. medianoFifo = [pc |-> "duerme", proc |-> Nadie]
    BY DEF Init
  <2>2. <<>> \in Seq(Procs) /\ medianoFifo.pc # "admite"
    BY <2>1
  <2> QED BY <1>1, <2>2, SinAdmitir
<1>4. \A p \in Procs : Fuera(p)
  <2> SUFFICES ASSUME NEW p \in Procs PROVE Fuera(p)
    OBVIOUS
  <2>1. ~TieneCpu(p) /\ ~DejoEjecutar(p)
    BY DEF Init, TieneCpu, DejoEjecutar, HiloLibre
  <2>2. ~EntreColas(p, "BLOCKED") /\ ~EntreColas(p, "SUSP_BLOCKED")
    BY DEF Init, EntreColas, TimersDe
  <2>3. cola["BLOCKED"] = <<>> /\ cola["SUSP_BLOCKED"] = <<>>
    BY <1>e DEF Init
  <2>4. ~Esta(p, "BLOCKED") /\ ~Esta(p, "SUSP_BLOCKED")
    BY <2>3 DEF Esta
  <2> QED BY <2>1, <2>2, <2>4 DEF Fuera, Frenado, EnSuspBlocked
<1>5. Ejecutan = {} /\ Frenados = {} /\ SuspBloqueados = {}
  BY <1>4 DEF Fuera, Ejecutan, Frenados, SuspBloqueados
<1> QED BY <1>1, <1>2, <1>3, <1>5 DEF Ciclo!Init, Ejecutan, Frenados, Frenado, SuspBloqueados, EnSuspBlocked,
           SuspListos, Salen, Terminados, Residentes, ToSet, Ciclo!ToSet

LEMMA NextCiclo ==
    ASSUME Regimen, Firme, [Next]_vars
    PROVE  [Ciclo!Next]_(Ciclo!vars)
<1> SUFFICES Avanza
  BY IgualEsPausa DEF Avanza
<1>i. IInv
  BY DEF Firme
<1>1. CASE Largo
  BY <1>1, LeerEsPausa, LargoAceptadoCiclo, LargoAdmiteCiclo DEF Largo, Avanza
<1>2. CASE MedianoFifo
  BY <1>2, LeerEsPausa, MedianoFifoAceptadoCiclo, MedianoFifoSacaCiclo, MedianoFifoAdmiteCiclo
     DEF MedianoFifo, Avanza
<1>3. CASE Mediano
  BY <1>3, LeerEsPausa, MedianoEnviaCiclo DEF Mediano, Avanza
<1>4. CASE Corto \/ (\E c \in Cpus : ConectarCpu(c)) \/ UsoTrasLiberar \/ UNCHANGED vars
  BY <1>4, LeerEsPausa, DespacharCiclo DEF Corto, Avanza
<1>5. CASE \E h \in Hilos : Hilo(h)
  BY <1>5, HiloCiclo
<1>6. CASE \E p \in Procs, k \in Veces : Timer(p, k)
  BY <1>6, <1>i, TimerEsPausa, TimerSacaCiclo, TimerSuspendeCiclo DEF Timer, Avanza
<1>7. CASE \E i \in Ios : ConectarIo(i) \/ Io(i)
  BY <1>7, <1>i, DispositivoEsPausa, IoSacaCiclo, IoTransicionaCiclo DEF Io, Avanza
<1> QED BY <1>1, <1>2, <1>3, <1>4, <1>5, <1>6, <1>7 DEF Next

\* Every frame of the memory is free or of a process in it, and no process has
\* frames before the long term planner accepts it: the sum that tells
\* LargoAceptado and MedianoFifoAceptado apart from handing out a frame twice.
THEOREM MarcosContados == ASSUME Regimen PROVE Spec => []Cuenta
<1>1. Init => Cuenta /\ NuevosFuera
  BY InitCuenta
<1>2. IInvPerdido => CabezaRetenida
  BY DEF IInvPerdido
<1>3. IInv /\ CabezaRetenida /\ Lugares /\ Cuenta /\ NuevosFuera /\ [Next]_vars => Cuenta' /\ NuevosFuera'
  BY NextCuenta
<1> QED BY <1>1, <1>2, <1>3, InvarianteInductivo, InvarianteDePerdidos, InvarianteDeLugares, PTL DEF Spec

\* The Kernel implements the life cycle of seven states: no thread, timer or
\* device takes a process along an arc that is not in it, and admission,
\* dispatch, suspension and frames follow its rules.
THEOREM ElKernelCumpleElCiclo ==
    ASSUME Regimen, \A p \in Procs : Tam[p] > 0
    PROVE  Spec => ImplementaCiclo
<1>1. Init => Ciclo!Init /\ Cuenta /\ NuevosFuera /\ Ubicados /\ Suspendidos
  BY InitCiclo, InitCuenta, InitMarcos
<1>2. (IInvPerdido => CabezaRetenida) /\ (InvCpus => UnProcesoPorCpu)
  BY DEF IInvPerdido, InvCpus
<1>3. IInv /\ CabezaRetenida /\ Lugares /\ Cuenta /\ NuevosFuera /\ [Next]_vars => Cuenta' /\ NuevosFuera'
  BY NextCuenta
<1>4. IInv /\ CabezaRetenida /\ Lugares /\ Ubicados /\ Suspendidos /\ [Next]_vars => Suspendidos'
  BY NextMarcos
<1>5. /\ IInv /\ CabezaRetenida /\ Lugares /\ Ubicados /\ Suspendidos /\ UnProcesoPorCpu /\ Cuenta /\ NuevosFuera
      /\ [Next]_vars
      => [Ciclo!Next]_(Ciclo!vars)
  BY NextCiclo DEF Firme
<1> QED BY <1>1, <1>2, <1>3, <1>4, <1>5, InvarianteInductivo, InvarianteDePerdidos, InvarianteDeLugares,
           InvarianteDeMarcos, InvarianteDeCpus, PTL DEF Spec, ImplementaCiclo, Ciclo!Spec

-----------------------------------------------------------------------------
(* The semaphore of each name counts the processes that wait for it.        *)

\* The semaphore s is the one of the first device with its name.
DelPrimero(s) == \E i \in Ios : EsIoDe(i, NombreDe[s]) /\ io[i].sem = s

\* A connecting device shares a semaphore of its name, and is not listed yet.
SemBien ==
    /\ \A i \in Ios : NombreDe[io[i].sem] = NombreDe[i]
    /\ \A k \in DOMAIN ios : ios[k] \in Ios /\ io[ios[k]].pc \notin {"ausente", "registra"}

\* Nobody waits for a name that no device has.
EsperanBien ==
    \A n \in Nombres : IsFiniteSet(Esperan(n)) /\ (~HayIo(n) => Esperan(n) = {})

Debe(s) == IF DelPrimero(s) THEN Cardinality(Esperan(NombreDe[s])) ELSE 0

SemCuenta ==
    \A s \in Ios : /\ IsFiniteSet(Buscan(s))
                   /\ semIo[s] + Cardinality(Buscan(s)) = Debe(s)

Avisos == SemBien /\ EsperanBien /\ SemCuenta

LEMMA NombresReales ==
    ASSUME NEW i \in Ios
    PROVE  NombreDe[i] \in Nombres /\ NombreDe[i] # Vacio /\ NombreDe[i] # Nulo /\ NombreDe[i] # Basura
  BY ConstantesAssumption

\* The first device with a name is one.
LEMMA PrimeroUnico ==
    ASSUME IInv, NEW n, NEW i, NEW j, EsIoDe(i, n), EsIoDe(j, n)
    PROVE  i = j
<1>1. PICK k \in DOMAIN ios : ios[k] = i /\ NombreDe[i] = n /\ \A m \in 1 .. k - 1 : NombreDe[ios[m]] # n
  BY DEF EsIoDe
<1>2. PICK l \in DOMAIN ios : ios[l] = j /\ NombreDe[j] = n /\ \A m \in 1 .. l - 1 : NombreDe[ios[m]] # n
  BY DEF EsIoDe
<1>3. k \in 1 .. Len(ios) /\ l \in 1 .. Len(ios) /\ Len(ios) \in Nat
  BY LenProperties DEF IInv, TypeOK
<1>4. ~(k < l) /\ ~(l < k)
  BY <1>1, <1>2, <1>3
<1>5. k = l
  BY <1>3, <1>4
<1> QED BY <1>1, <1>2, <1>5

\* A device that enters the list is the first one of its name or changes nothing.
LEMMA PrimeroTras ==
    ASSUME IInv, NEW i \in Ios, ios' = Append(ios, i), NEW n, NEW j \in Ios
    PROVE  EsIoDe(j, n)' <=> EsIoDe(j, n) \/ (j = i /\ NombreDe[i] = n /\ ~HayIo(n))
<1>1. /\ ios \in Seq(Ios) /\ DOMAIN ios = 1 .. Len(ios) /\ Len(ios) \in Nat
      /\ DOMAIN ios' = 1 .. Len(ios) + 1
      /\ \A k \in 1 .. Len(ios) : ios'[k] = ios[k]
      /\ ios'[Len(ios) + 1] = i
  <2>1. ios \in Seq(Ios)
    BY DEF IInv, TypeOK
  <2>2. /\ Append(ios, i) \in Seq(Ios) /\ Len(Append(ios, i)) = Len(ios) + 1
        /\ \A k \in 1 .. Len(ios) : Append(ios, i)[k] = ios[k]
        /\ Append(ios, i)[Len(ios) + 1] = i
    BY <2>1, AppendProperties
  <2> QED BY <2>1, <2>2, LenProperties
<1> DEFINE Es(s, k, x) == s[k] = x /\ NombreDe[x] = n /\ \A m \in 1 .. k - 1 : NombreDe[s[m]] # n
<1>2. \A k \in 1 .. Len(ios) : \A m \in 1 .. k - 1 : m \in 1 .. Len(ios)
  BY <1>1
<1>3. \A k \in 1 .. Len(ios) : Es(ios', k, j) <=> Es(ios, k, j)
  BY <1>1, <1>2
<1>4. /\ EsIoDe(j, n) <=> \E k \in 1 .. Len(ios) : Es(ios, k, j)
      /\ EsIoDe(j, n)' <=> \E k \in 1 .. Len(ios) + 1 : Es(ios', k, j)
  BY <1>1 DEF EsIoDe
<1>5. HayIo(n) <=> \E k \in 1 .. Len(ios) : NombreDe[ios[k]] = n
  <2>1. HayIo(n) => \E k \in 1 .. Len(ios) : NombreDe[ios[k]] = n
    BY <1>1 DEF HayIo, EsIoDe
  <2>2. ASSUME NEW k \in 1 .. Len(ios), NombreDe[ios[k]] = n PROVE HayIo(n)
    <3> DEFINE Con == {m \in 1 .. Len(ios) : NombreDe[ios[m]] = n}
    <3>1. Con # {} /\ Con \in SUBSET Nat
      BY <1>1, <2>2
    <3>2. PICK m \in Con : \A l \in Con : m <= l
      <4> HIDE DEF Con
      <4> QED BY <3>1, MinimoNatural
    <3>3. \A l \in 1 .. m - 1 : l \in 1 .. Len(ios) /\ ~(m <= l)
      BY <1>1, <3>2
    <3>4. \A l \in 1 .. m - 1 : NombreDe[ios[l]] # n
      BY <3>2, <3>3
    <3>5. ios[m] \in Ios
      BY <1>1, <3>2
    <3> QED BY <1>1, <3>2, <3>4, <3>5 DEF HayIo, EsIoDe
  <2> QED BY <2>1, <2>2
<1>6. Es(ios', Len(ios) + 1, j) <=> j = i /\ NombreDe[i] = n /\ ~HayIo(n)
  <2>1. Len(ios) + 1 - 1 = Len(ios)
    BY <1>1
  <2> QED BY <1>1, <1>5, <2>1
<1>7. \A k \in 1 .. Len(ios) + 1 : k \in 1 .. Len(ios) \/ k = Len(ios) + 1
  BY <1>1
<1>8. Len(ios) + 1 \in 1 .. Len(ios) + 1 /\ \A k \in 1 .. Len(ios) : k \in 1 .. Len(ios) + 1
  BY <1>1
<1> HIDE DEF Es
<1> QED BY <1>3, <1>4, <1>6, <1>7, <1>8

\* p waits as before: it may also change its name while it waits for nothing,
\* or change one name that is of no device for another.
Espera(p) ==
    /\ Bloqueado(p)' <=> Bloqueado(p)
    /\ Bloqueado(p) => nombreIo'[p] = nombreIo[p]

LEMMA EsperanQuietos ==
    ASSUME NEW n, \A p \in Procs : Espera(p) \/ (~(Bloqueado(p) /\ nombreIo[p] = n) /\ ~(Bloqueado(p)' /\ nombreIo'[p] = n))
    PROVE  Esperan(n)' = Esperan(n)
  BY DEF Espera, Esperan, Bloqueado, Sacado

\* The steps that leave the semaphores, and who waits and looks, as they were.
LEMMA AvisosQuietos ==
    ASSUME Avisos, UNCHANGED <<semIo, ios>>, \A n \in Nombres : Esperan(n)' = Esperan(n),
           \A i \in Ios : /\ io'[i].sem = io[i].sem
                          /\ io'[i].pc = "busca" <=> io[i].pc = "busca"
                          /\ io[i].pc \notin {"ausente", "registra"} => io'[i].pc \notin {"ausente", "registra"}
    PROVE  Avisos'
<1>1. \A s : Buscan(s)' = Buscan(s)
  BY DEF Buscan
<1>2. \A i, n : EsIoDe(i, n)' <=> EsIoDe(i, n)
  BY DEF EsIoDe
<1>3. \A n : HayIo(n)' <=> HayIo(n)
  BY <1>2 DEF HayIo
<1>4. \A s : DelPrimero(s)' <=> DelPrimero(s)
  BY <1>2 DEF DelPrimero
<1>5. \A s \in Ios : Debe(s)' = Debe(s)
  BY <1>4, NombresReales DEF Debe
<1>6. SemBien'
  BY DEF Avisos, SemBien
<1>7. EsperanBien'
  BY <1>3 DEF Avisos, EsperanBien
<1>8. SemCuenta'
  BY <1>1, <1>5 DEF Avisos, SemCuenta
<1> QED BY <1>6, <1>7, <1>8 DEF Avisos

\* Whoever is in its place, and the timers, stay.
LEMMA EsperaQuieta ==
    ASSUME NEW p \in Procs, Esta(p, "BLOCKED")' <=> Esta(p, "BLOCKED"),
           Esta(p, "SUSP_BLOCKED")' <=> Esta(p, "SUSP_BLOCKED"),
           timer'[p] = timer[p]
    PROVE  Bloqueado(p)' <=> Bloqueado(p)
  BY DEF Bloqueado, Sacado, TimersDe

\* The steps that touch neither BLOCKED nor SUSP_BLOCKED, names, timers or devices.
SinBloqueos ==
    \/ Largo \/ MedianoFifo \/ Mediano \/ Corto
    \/ \E h \in Hilos : \/ \E q \in Procs : SyscallInitProc(h, q)
                        \/ SyscallExit(h) \/ FinalizarIntenta(h) \/ FinalizarTermina(h)
                        \/ SyscallIo(h) \/ IoFinaliza(h)
    \/ \E c \in Cpus : ConectarCpu(c)
    \/ UsoTrasLiberar \/ UNCHANGED vars

LEMMA SinBloqueosDeja ==
    ASSUME IInv, SinBloqueos
    PROVE  /\ UNCHANGED <<timer, nombreIo, io, semIo, ios>>
           /\ cola'["BLOCKED"] = cola["BLOCKED"] /\ cola'["SUSP_BLOCKED"] = cola["SUSP_BLOCKED"]
<1> USE DEF planif, disposi, pcbs
<1>t. DOMAIN cola = Estados /\ {"BLOCKED", "SUSP_BLOCKED"} \subseteq Estados
  BY DEF IInv, TypeOK, Estados
<1>1. CASE Largo
  BY <1>1, <1>t DEF Largo, LargoDespierta, LargoEsperaVacia, LargoAceptado, LargoRechazado, LargoAdmite, MoverPrimero
<1>2. CASE MedianoFifo
  BY <1>2, <1>t DEF MedianoFifo, MedianoFifoDespierta, MedianoFifoAceptado, MedianoFifoRechazado,
                    MedianoFifoSaca, MedianoFifoAdmite, MedianoFifoAvisa
<1>3. CASE Mediano
  BY <1>3, <1>t DEF Mediano, MedianoDespierta, MedianoEnvia, MedianoIntenta
<1>4. CASE Corto
  BY <1>4, <1>t DEF Corto, Despachar, MoverPrimero
<1>5. ASSUME NEW h \in Hilos,
             \/ \E q \in Procs : SyscallInitProc(h, q)
             \/ SyscallExit(h) \/ FinalizarIntenta(h) \/ FinalizarTermina(h)
             \/ SyscallIo(h) \/ IoFinaliza(h)
      PROVE  /\ UNCHANGED <<timer, nombreIo, io, semIo, ios>>
             /\ cola'["BLOCKED"] = cola["BLOCKED"] /\ cola'["SUSP_BLOCKED"] = cola["SUSP_BLOCKED"]
  <2>1. CASE \E q \in Procs : SyscallInitProc(h, q)
    BY <2>1, <1>t DEF SyscallInitProc
  <2>2. CASE SyscallExit(h) \/ IoFinaliza(h)
    BY <2>2, <1>t DEF SyscallExit, IoFinaliza, Finalizar, Mover
  <2>3. CASE FinalizarIntenta(h) \/ FinalizarTermina(h) \/ SyscallIo(h)
    BY <2>3, <1>t DEF FinalizarIntenta, FinalizarTermina, SyscallIo, Sacar
  <2> QED BY <1>5, <2>1, <2>2, <2>3
<1>6. CASE (\E c \in Cpus : ConectarCpu(c)) \/ UsoTrasLiberar \/ UNCHANGED vars
  BY <1>6, <1>t DEF ConectarCpu, UsoTrasLiberar, vars
<1> QED BY <1>1, <1>2, <1>3, <1>4, <1>5, <1>6 DEF SinBloqueos

LEMMA SinBloqueosAvisos ==
    ASSUME IInv, Avisos, SinBloqueos
    PROVE  Avisos'
<1>1. /\ UNCHANGED <<timer, nombreIo, io, semIo, ios>>
      /\ cola'["BLOCKED"] = cola["BLOCKED"] /\ cola'["SUSP_BLOCKED"] = cola["SUSP_BLOCKED"]
  BY SinBloqueosDeja
<1>2. \A p \in Procs : /\ Esta(p, "BLOCKED")' <=> Esta(p, "BLOCKED")
                       /\ Esta(p, "SUSP_BLOCKED")' <=> Esta(p, "SUSP_BLOCKED")
  BY <1>1 DEF Esta
<1>3. \A p \in Procs : Espera(p)
  BY <1>1, <1>2, EsperaQuieta DEF Espera
<1>4. \A n \in Nombres : Esperan(n)' = Esperan(n)
  BY <1>3, EsperanQuietos
<1> QED BY <1>1, <1>4, AvisosQuietos

\* A device that connects takes the semaphore of a listed one, or its own.
LEMMA ConectarAvisos ==
    ASSUME IInv, Avisos, NEW i \in Ios, ConectarIo(i)
    PROVE  Avisos'
<1>t. io \in [Ios -> TipoIo]
  BY DEF IInv, TypeOK
<1>1. UNCHANGED <<cola, timer, nombreIo, semIo, ios>> /\ io[i].pc = "ausente"
  BY DEF ConectarIo, pcbs
<1>2. /\ io'[i].pc = "registra" /\ NombreDe[io'[i].sem] = NombreDe[i]
      /\ \A j \in Ios : j # i => io'[j] = io[j]
  <2>1. CASE \E j \in Ios : /\ EsIoDe(j, NombreDe[i])
                            /\ io' = [io EXCEPT ![i].pc = "registra", ![i].sem = io[j].sem]
    <3>1. PICK j \in Ios : /\ EsIoDe(j, NombreDe[i])
                           /\ io' = [io EXCEPT ![i].pc = "registra", ![i].sem = io[j].sem]
      BY <2>1
    <3>2. NombreDe[j] = NombreDe[i] /\ NombreDe[io[j].sem] = NombreDe[j]
      BY <3>1 DEF EsIoDe, Avisos, SemBien
    <3>3. io'[i].pc = "registra" /\ io'[i].sem = io[j].sem /\ \A l \in Ios : l # i => io'[l] = io[l]
      BY <1>t, <3>1 DEF TipoIo
    <3> QED BY <3>2, <3>3
  <2>2. CASE io' = [io EXCEPT ![i].pc = "registra"]
    <3>1. io'[i].pc = "registra" /\ io'[i].sem = io[i].sem /\ \A l \in Ios : l # i => io'[l] = io[l]
      BY <1>t, <2>2 DEF TipoIo
    <3> QED BY <3>1 DEF Avisos, SemBien
  <2> QED BY <2>1, <2>2 DEF ConectarIo
<1>3. \A n : Esperan(n)' = Esperan(n)
  BY <1>1 DEF Esperan, Esta, TimersDe
<1>4. \A j, n : EsIoDe(j, n)' <=> EsIoDe(j, n)
  BY <1>1 DEF EsIoDe
<1>5. ASSUME NEW j \in Ios, NEW n, EsIoDe(j, n) PROVE io'[j] = io[j]
  <2>1. j # i
    BY <1>1, <1>5 DEF EsIoDe, Avisos, SemBien
  <2> QED BY <1>2, <2>1
<1>6. \A s : DelPrimero(s)' <=> DelPrimero(s)
  BY <1>4, <1>5 DEF DelPrimero
<1>7. \A s : Buscan(s)' = Buscan(s)
  BY <1>1, <1>2 DEF Buscan
<1>8. SemBien'
  <2>1. \A k \in DOMAIN ios : ios[k] \in Ios /\ ios[k] # i /\ io[ios[k]].pc \notin {"ausente", "registra"}
    BY <1>1 DEF Avisos, SemBien
  <2> QED BY <1>1, <1>2, <2>1 DEF Avisos, SemBien
<1>9. EsperanBien'
  BY <1>3, <1>4 DEF Avisos, EsperanBien, HayIo
<1>10. \A s \in Ios : Debe(s)' = Debe(s)
  BY <1>3, <1>6 DEF Debe
<1>11. SemCuenta'
  BY <1>1, <1>7, <1>10 DEF Avisos, SemCuenta
<1> QED BY <1>8, <1>9, <1>11 DEF Avisos

\* It enters the list: if it is the first of its name, nobody waits for it yet.
LEMMA RegistrarAvisos ==
    ASSUME IInv, Avisos, NEW i \in Ios, RegistrarIo(i)
    PROVE  Avisos'
<1>t. io \in [Ios -> TipoIo] /\ ios \in Seq(Ios)
  BY DEF IInv, TypeOK
<1>1. UNCHANGED <<cola, timer, nombreIo, semIo>> /\ io[i].pc = "registra" /\ ios' = Append(ios, i)
  BY DEF RegistrarIo, pcbs
<1>2. /\ io'[i].pc = "espera" /\ io'[i].sem = io[i].sem
      /\ \A j \in Ios : j # i => io'[j] = io[j]
  BY <1>t DEF RegistrarIo, TipoIo
<1>3. \A n : Esperan(n)' = Esperan(n)
  BY <1>1 DEF Esperan, Esta, TimersDe
<1>4. \A n : \A j \in Ios : EsIoDe(j, n)' <=> EsIoDe(j, n) \/ (j = i /\ NombreDe[i] = n /\ ~HayIo(n))
  BY <1>1, PrimeroTras
<1>5. \A s : Buscan(s)' = Buscan(s)
  BY <1>1, <1>2 DEF Buscan
<1>6. SemBien'
  <2>1. \A k \in DOMAIN ios' : ios'[k] = i \/ (k \in DOMAIN ios /\ ios'[k] = ios[k])
    <3>1. DOMAIN ios = 1 .. Len(ios) /\ Len(ios) \in Nat
      BY <1>t, LenProperties
    <3>2. /\ Append(ios, i) \in Seq(Ios) /\ Len(Append(ios, i)) = Len(ios) + 1
          /\ \A k \in 1 .. Len(ios) : Append(ios, i)[k] = ios[k]
          /\ Append(ios, i)[Len(ios) + 1] = i
      BY <1>t, AppendProperties
    <3>3. DOMAIN ios' = 1 .. Len(ios) + 1
      BY <1>1, <3>2, LenProperties
    <3>4. \A k \in 1 .. Len(ios) + 1 : k \in 1 .. Len(ios) \/ k = Len(ios) + 1
      BY <3>1
    <3> QED BY <1>1, <3>1, <3>2, <3>3, <3>4
  <2>2. \A j \in Ios : NombreDe[io'[j].sem] = NombreDe[j]
    BY <1>2 DEF Avisos, SemBien
  <2>3. \A k \in DOMAIN ios' : ios'[k] \in Ios /\ io'[ios'[k]].pc \notin {"ausente", "registra"}
    BY <1>2, <2>1 DEF Avisos, SemBien
  <2> QED BY <2>2, <2>3 DEF SemBien
<1>7. EsperanBien'
  <2>1. \A n \in Nombres : HayIo(n) => HayIo(n)'
    BY <1>4 DEF HayIo
  <2> QED BY <1>3, <2>1 DEF Avisos, EsperanBien
<1>8. ASSUME NEW s \in Ios PROVE Debe(s)' = Debe(s)
  <2> DEFINE n == NombreDe[s]
  <2>1. n \in Nombres
    BY NombresReales
  <2>2. CASE HayIo(n)
    <3>1. \A j \in Ios : EsIoDe(j, n)' <=> EsIoDe(j, n)
      BY <1>4, <2>2
    <3>2. \A j \in Ios : io'[j].sem = io[j].sem
      BY <1>2
    <3>3. DelPrimero(s)' <=> DelPrimero(s)
      BY <3>1, <3>2 DEF DelPrimero
    <3> QED BY <1>3, <3>3 DEF Debe
  <2>3. CASE ~HayIo(n)
    <3>1. Esperan(n) = {} /\ Esperan(n)' = {}
      BY <1>3, <2>1, <2>3 DEF Avisos, EsperanBien
    <3> QED BY <3>1, FS_EmptySet DEF Debe
  <2> QED BY <2>2, <2>3
<1>9. SemCuenta'
  BY <1>1, <1>5, <1>8 DEF Avisos, SemCuenta
<1> QED BY <1>6, <1>7, <1>9 DEF Avisos

\* A process that runs writes the name of the device it will wait for.
LEMMA IoBuscaDispositivoAvisos ==
    ASSUME IInv, Lugares, Avisos, NEW h \in Hilos, NEW n \in Nombres, IoBuscaDispositivo(h, n)
    PROVE  Avisos'
<1>p. PICK p : p = hilo[h].proc
  OBVIOUS
<1>1. /\ UNCHANGED <<cola, timer, io, semIo, ios>> /\ nombreIo' = [nombreIo EXCEPT ![p] = n]
      /\ hilo[h].pc = "ioLiberada"
  BY <1>p DEF IoBuscaDispositivo, disposi, AnotarIo, En
<1>2. p \in Procs /\ ~Bloqueado(p)
  BY <1>1, <1>p, DeHilo
<1>3. \A q \in Procs : Bloqueado(q)' <=> Bloqueado(q)
  BY <1>1, EsperaQuieta DEF Esta
<1>4. \A q \in Procs : Espera(q)
  BY <1>1, <1>2, <1>3 DEF Espera
<1>5. \A m \in Nombres : Esperan(m)' = Esperan(m)
  BY <1>4, EsperanQuietos
<1> QED BY <1>1, <1>5, AvisosQuietos

\* One process more, or one less, that waits for a device of name n.
LEMMA EsperaUnoMas ==
    ASSUME NEW n, IsFiniteSet(Esperan(n)), NEW p \in Procs,
           ~Bloqueado(p), Bloqueado(p)', nombreIo'[p] = n,
           \A q \in Procs : q # p => (Bloqueado(q)' <=> Bloqueado(q)) /\ nombreIo'[q] = nombreIo[q]
    PROVE  IsFiniteSet(Esperan(n)') /\ Cardinality(Esperan(n)') = Cardinality(Esperan(n)) + 1
<1>1. Esperan(n)' = Esperan(n) \cup {p} /\ p \notin Esperan(n)
  BY DEF Esperan, Bloqueado, Sacado
<1> QED BY <1>1, FS_AddElement

LEMMA EsperaUnoMenos ==
    ASSUME NEW n, IsFiniteSet(Esperan(n)), NEW p \in Procs,
           Bloqueado(p), nombreIo[p] = n, nombreIo'[p] # n,
           \A q \in Procs : q # p => (Bloqueado(q)' <=> Bloqueado(q)) /\ nombreIo'[q] = nombreIo[q]
    PROVE  IsFiniteSet(Esperan(n)') /\ Cardinality(Esperan(n)') = Cardinality(Esperan(n)) - 1
<1>1. Esperan(n)' = Esperan(n) \ {p} /\ p \in Esperan(n)
  BY DEF Esperan, Bloqueado, Sacado
<1> QED BY <1>1, FS_RemoveElement

\* Who waits for one name changes, and with it the account of the one semaphore
\* of that name that is posted.
LEMMA AvisosDeUno ==
    ASSUME IInv, Avisos, NEW s \in Ios, NEW n, n = NombreDe[s], DelPrimero(s),
           IsFiniteSet(Esperan(n)'), \A m \in Nombres : m # n => Esperan(m)' = Esperan(m),
           UNCHANGED ios,
           \A i \in Ios : /\ io'[i].sem = io[i].sem
                          /\ io[i].pc \notin {"ausente", "registra"} => io'[i].pc \notin {"ausente", "registra"},
           \A r \in Ios : r # s => semIo'[r] = semIo[r] /\ Buscan(r)' = Buscan(r),
           IsFiniteSet(Buscan(s)'),
           semIo'[s] + Cardinality(Buscan(s)') = Cardinality(Esperan(n)')
    PROVE  Avisos'
<1>1. \A i, m : EsIoDe(i, m)' <=> EsIoDe(i, m)
  BY DEF EsIoDe
<1>2. \A m : HayIo(m)' <=> HayIo(m)
  BY <1>1 DEF HayIo
<1>3. \A r : DelPrimero(r)' <=> DelPrimero(r)
  BY <1>1 DEF DelPrimero
<1>4. SemBien'
  BY DEF Avisos, SemBien
<1>5. HayIo(n)
  BY DEF DelPrimero, HayIo
<1>6. EsperanBien'
  BY <1>2, <1>5 DEF Avisos, EsperanBien
<1>7. ASSUME NEW r \in Ios, r # s PROVE Debe(r)' = Debe(r)
  <2>1. CASE NombreDe[r] = n
    <3>1. ~DelPrimero(r)
      BY <1>7, <2>1, PrimeroUnico DEF DelPrimero
    <3> QED BY <1>3, <3>1 DEF Debe
  <2>2. CASE NombreDe[r] # n
    BY <1>3, <2>2, NombresReales DEF Debe
  <2> QED BY <2>1, <2>2
<1>8. Debe(s)' = Cardinality(Esperan(n)')
  BY <1>3 DEF Debe
<1>9. SemCuenta'
  <2>1. ASSUME NEW r \in Ios
        PROVE  IsFiniteSet(Buscan(r)') /\ semIo'[r] + Cardinality(Buscan(r)') = Debe(r)'
    <3>1. CASE r = s
      BY <1>8, <3>1
    <3>2. CASE r # s
      BY <1>7, <3>2 DEF Avisos, SemCuenta
    <3> QED BY <3>1, <3>2
  <2> QED BY <2>1 DEF SemCuenta
<1> QED BY <1>4, <1>6, <1>9 DEF Avisos

\* The process enters BLOCKED and the first device with its name is told.
LEMMA IoBloqueaAvisos ==
    ASSUME Regimen, IInv, Lugares, Avisos, NEW h \in Hilos, IoBloquea(h)
    PROVE  Avisos'
<1>e. {"BLOCKED", "SUSP_BLOCKED"} \subseteq Estados
  BY DEF Estados
<1>t. semIo \in [Ios -> Nat] /\ io \in [Ios -> TipoIo]
  BY DEF IInv, TypeOK
<1>p. PICK p : p = hilo[h].proc
  OBVIOUS
<1>0. Mueve(p, {"BLOCKED"})
  BY <1>p, IoBloqueaLugares
<1>1. p \in Procs /\ ~Bloqueado(p)
  BY <1>p, DeHilo DEF IoBloquea, En
<1>2. UNCHANGED <<io, ios, nombreIo>>
  BY DEF IoBloquea, pcbs
<1>i. PICK i \in Ios : EsIoDe(i, nombreIo[p]) /\ semIo' = [semIo EXCEPT ![io[i].sem] = @ + 1]
  BY <1>p DEF IoBloquea
<1>s. PICK s : s = io[i].sem
  OBVIOUS
<1>n. PICK n : n = nombreIo[p]
  OBVIOUS
<1>3. s \in Ios /\ n = NombreDe[s] /\ n \in Nombres /\ DelPrimero(s)
  <2>1. s \in Ios
    BY <1>s, <1>t DEF TipoIo
  <2>2. n = NombreDe[i] /\ NombreDe[s] = NombreDe[i]
    BY <1>i, <1>n, <1>s DEF EsIoDe, Avisos, SemBien
  <2> QED BY <1>i, <1>n, <1>s, <2>1, <2>2, NombresReales DEF DelPrimero
<1>4. Bloqueado(p)'
  BY <1>0, <1>e DEF Mueve, QuedaEn, Bloqueado
<1>5. \A q \in Procs : q # p => Bloqueado(q)' <=> Bloqueado(q)
  BY <1>0, <1>e, EsperaQuieta DEF Mueve, Quieto
<1>6. \A m \in Nombres : m # n => Esperan(m)' = Esperan(m)
  <2> SUFFICES ASSUME NEW m \in Nombres, m # n PROVE Esperan(m)' = Esperan(m)
    OBVIOUS
  <2>1. \A q \in Procs : \/ Espera(q)
                         \/ ~(Bloqueado(q) /\ nombreIo[q] = m) /\ ~(Bloqueado(q)' /\ nombreIo'[q] = m)
    BY <1>2, <1>5, <1>n DEF Espera
  <2> QED BY <2>1, EsperanQuietos
<1>7. /\ IsFiniteSet(Esperan(n)) /\ IsFiniteSet(Buscan(s))
      /\ semIo[s] + Cardinality(Buscan(s)) = Cardinality(Esperan(n))
  BY <1>3 DEF Avisos, EsperanBien, SemCuenta, Debe
<1>8. IsFiniteSet(Esperan(n)') /\ Cardinality(Esperan(n)') = Cardinality(Esperan(n)) + 1
  BY <1>1, <1>2, <1>4, <1>5, <1>7, <1>n, EsperaUnoMas
<1>9. semIo'[s] = semIo[s] + 1 /\ \A r \in Ios : r # s => semIo'[r] = semIo[r]
  BY <1>3, <1>i, <1>s, <1>t
<1>10. \A r : Buscan(r)' = Buscan(r)
  BY <1>2 DEF Buscan
<1>11. semIo'[s] + Cardinality(Buscan(s)') = Cardinality(Esperan(n)')
  <2>1. semIo[s] \in Nat /\ Cardinality(Buscan(s)) \in Nat
    BY <1>3, <1>7, <1>t, FS_CardinalityType
  <2>2. Cardinality(Buscan(s)') = Cardinality(Buscan(s))
    BY <1>10
  <2> QED BY <1>7, <1>8, <1>9, <2>1, <2>2
<1> QED BY <1>2, <1>3, <1>6, <1>7, <1>8, <1>9, <1>10, <1>11, AvisosDeUno

\* The process that a timer looks at, or carries, waits all the while.
LEMMA TimerAvisos ==
    ASSUME Regimen, IInv, Lugares, Avisos, NEW p \in Procs, NEW k \in Veces, Timer(p, k)
    PROVE  Avisos'
<1>e. {"BLOCKED", "SUSP_BLOCKED"} \subseteq Estados
  BY DEF Estados
<1>t. timer \in [Procs -> [Veces -> TipoTimer]]
  BY DEF IInv, TypeOK
<1>1. UNCHANGED <<io, ios, semIo, nombreIo>>
  BY DEF Timer, TimerNace, TimerCompara, TimerBusca, TimerSaca, TimerSuspende, pcbs, disposi
<1>2. CASE TimerNace(p, k) \/ TimerCompara(p, k) \/ TimerBusca(p, k)
  <2>1. UNCHANGED cola
    BY <1>2 DEF TimerNace, TimerCompara, TimerBusca
  <2>2. /\ \A q \in Procs : q # p => timer'[q] = timer[q]
        /\ \A l \in Veces : l # k => timer'[p][l] = timer[p][l]
        /\ timer[p][k].pc # "sacado" /\ timer'[p][k].pc # "sacado"
    <3>1. CASE TimerNace(p, k)
      BY <1>t, <3>1, UnTimer DEF TimerNace
    <3>2. CASE TimerCompara(p, k)
      <4>1. timer[p][k].pc = "duerme"
            /\ timer' = [timer EXCEPT ![p][k] =
                           [pc |-> IF veces[p] = timer[p][k].inicial THEN "compara" ELSE "no", inicial |-> 0]]
        BY <1>t, <3>2 DEF TimerCompara
      <4> QED BY <1>t, <4>1, UnTimer
    <3>3. CASE TimerBusca(p, k)
      BY <1>t, <3>3, UnTimer DEF TimerBusca, TimerPasa
    <3> QED BY <1>2, <3>1, <3>2, <3>3
  <2>3. \A q \in Procs : Sacado(q)' <=> Sacado(q)
    BY <2>2 DEF Sacado, TimersDe
  <2>4. \A q \in Procs : Espera(q)
    BY <1>1, <2>1, <2>3 DEF Espera, Bloqueado, Esta
  <2>5. \A n \in Nombres : Esperan(n)' = Esperan(n)
    BY <2>4, EsperanQuietos
  <2> QED BY <1>1, <2>5, AvisosQuietos
<1>3. CASE TimerSaca(p, k) \/ TimerSuspende(p, k)
  <2>1. \A q \in Procs : q # p => Bloqueado(q)' <=> Bloqueado(q)
    BY <1>3, <1>e, TimerSacaLugares, TimerSuspendeLugares, EsperaQuieta DEF Mueve, Quieto
  <2>2. Bloqueado(p)
    BY <1>3 DEF TimerSaca, TimerSuspende, Lugares, LugarBien, TimerBien, Bloqueado, Sacado, TimersDe
  <2>3. Bloqueado(p)'
    <3>1. CASE TimerSaca(p, k)
      <4>1. timer'[p][k].pc = "sacado"
        BY <1>t, <3>1, UnTimer DEF TimerSaca, TimerPasa
      <4> QED BY <4>1 DEF Bloqueado, Sacado, TimersDe
    <3>2. CASE TimerSuspende(p, k)
      BY <1>e, <3>2, TimerSuspendeLugares DEF Mueve, QuedaEn, Bloqueado
    <3> QED BY <1>3, <3>1, <3>2
  <2>4. \A q \in Procs : Espera(q)
    BY <1>1, <2>1, <2>2, <2>3 DEF Espera
  <2>5. \A n \in Nombres : Esperan(n)' = Esperan(n)
    BY <2>4, EsperanQuietos
  <2> QED BY <1>1, <2>5, AvisosQuietos
<1> QED BY <1>2, <1>3 DEF Timer

\* No device thread changes its semaphore once it connected.
LEMMA MismoSem ==
    ASSUME io \in [Ios -> TipoIo], NEW i \in Ios
    PROVE  /\ \A x : io' = [io EXCEPT ![i].pc = x] => \A j \in Ios : io'[j].sem = io[j].sem
           /\ \A x, p : io' = [io EXCEPT ![i].pc = x, ![i].proc = p] => \A j \in Ios : io'[j].sem = io[j].sem
<1>1. io[i] \in TipoIo
  OBVIOUS
<1>2. \A x : [io[i] EXCEPT !.pc = x].sem = io[i].sem
  BY <1>1 DEF TipoIo
<1>3. \A x, p : [[io[i] EXCEPT !.pc = x] EXCEPT !.proc = p].sem = io[i].sem
  BY <1>1 DEF TipoIo
<1>4. ASSUME NEW x, io' = [io EXCEPT ![i].pc = x]
      PROVE  \A j \in Ios : io'[j].sem = io[j].sem
  <2>1. io'[i] = [io[i] EXCEPT !.pc = x] /\ \A j \in Ios : j # i => io'[j] = io[j]
    BY <1>4
  <2>. QED BY <1>2, <2>1
<1>5. ASSUME NEW x, NEW p, io' = [io EXCEPT ![i].pc = x, ![i].proc = p]
      PROVE  \A j \in Ios : io'[j].sem = io[j].sem
  <2>1. io'[i] = [[io[i] EXCEPT !.pc = x] EXCEPT !.proc = p] /\ \A j \in Ios : j # i => io'[j] = io[j]
    BY <1>5
  <2>2. io'[i].sem = io[i].sem
    BY <1>3, <2>1
  <2>. QED BY <2>1, <2>2
<1>. QED BY <1>4, <1>5

\* A device takes a process that waited for its name, with the post it consumed.
LEMMA TomaAvisos ==
    ASSUME IInv, Lugares, Avisos, NEW i \in Ios, io[i].pc \in {"espera", "busca"},
           NEW p \in Procs, NEW e \in {"BLOCKED", "SUSP_BLOCKED"}, Coincide(p, e, NombreDe[i]), Toma(i, p),
           UNCHANGED <<cola, timer, ios>>,
           semIo' = [semIo EXCEPT ![io[i].sem] = @ - Uno(io[i].pc = "espera")],
           io[i].pc = "espera" => semIo[io[i].sem] > 0
    PROVE  Avisos'
<1>t. /\ io \in [Ios -> TipoIo] /\ semIo \in [Ios -> Nat]
      /\ nombreIo \in [Procs -> Nombres \cup {Vacio, Nulo, Basura}]
  BY DEF IInv, TypeOK
<1>s. PICK s : s = io[i].sem
  OBVIOUS
<1>n. PICK n : n = NombreDe[i]
  OBVIOUS
<1>1. /\ io'[i].pc = "trabaja" /\ \A j \in Ios : j # i => io'[j] = io[j]
      /\ \A j \in Ios : io'[j].sem = io[j].sem
  BY <1>t, UnDispositivo, MismoSem DEF Toma
<1>2. nombreIo'[p] = Vacio /\ \A q \in Procs : q # p => nombreIo'[q] = nombreIo[q]
  BY <1>t DEF Toma
<1>3. Bloqueado(p) /\ nombreIo[p] \in {n, Basura}
  BY <1>n DEF Coincide, Esta, Bloqueado
<1>4. nombreIo[p] = n
  BY <1>3 DEF Lugares, LugarBien, PlanBien
<1>5. \A q \in Procs : Bloqueado(q)' <=> Bloqueado(q)
  BY EsperaQuieta DEF Esta
<1>6. s \in Ios /\ NombreDe[s] = n /\ n \in Nombres /\ n # Vacio
  <2>1. s \in Ios
    BY <1>s, <1>t DEF TipoIo
  <2> QED BY <1>n, <1>s, <2>1, NombresReales DEF Avisos, SemBien
<1>7. /\ IsFiniteSet(Buscan(s)) /\ semIo[s] \in Nat /\ Cardinality(Buscan(s)) \in Nat
      /\ semIo[s] + Cardinality(Buscan(s)) = Debe(s)
  BY <1>6, <1>t, FS_CardinalityType DEF Avisos, SemCuenta
<1>8. IsFiniteSet(Esperan(n)) /\ Cardinality(Esperan(n)) \in Nat
  BY <1>6, FS_CardinalityType DEF Avisos, EsperanBien
<1>9. IsFiniteSet(Esperan(n)') /\ Cardinality(Esperan(n)') = Cardinality(Esperan(n)) - 1
  BY <1>2, <1>3, <1>4, <1>5, <1>6, <1>8, EsperaUnoMenos
<1>10. \A m \in Nombres : m # n => Esperan(m)' = Esperan(m)
  <2> SUFFICES ASSUME NEW m \in Nombres, m # n PROVE Esperan(m)' = Esperan(m)
    OBVIOUS
  <2>0. m # Vacio
    BY ConstantesAssumption
  <2>1. \A q \in Procs : \/ Espera(q)
                         \/ ~(Bloqueado(q) /\ nombreIo[q] = m) /\ ~(Bloqueado(q)' /\ nombreIo'[q] = m)
    BY <1>2, <1>4, <1>5, <2>0 DEF Espera
  <2> QED BY <2>1, EsperanQuietos
<1>11. ASSUME NEW r \in Ios, r # s PROVE semIo'[r] = semIo[r] /\ Buscan(r)' = Buscan(r)
  <2>1. semIo'[r] = semIo[r]
    BY <1>11, <1>s, <1>t
  <2>2. Buscan(r)' = Buscan(r)
    BY <1>1, <1>11, <1>s DEF Buscan
  <2> QED BY <2>1, <2>2
<1>12. CASE io[i].pc = "espera"
  <2>1. semIo'[s] = semIo[s] - 1 /\ semIo[s] > 0
    BY <1>12, <1>6, <1>s, <1>t DEF Uno
  <2>2. Buscan(s)' = Buscan(s)
    BY <1>1, <1>12 DEF Buscan
  <2>3. DelPrimero(s) /\ semIo[s] + Cardinality(Buscan(s)) = Cardinality(Esperan(n))
    BY <1>6, <1>7, <2>1 DEF Debe
  <2>4. semIo'[s] + Cardinality(Buscan(s)') = Cardinality(Esperan(n)')
    BY <1>7, <1>8, <1>9, <2>1, <2>2, <2>3
  <2>5. \A j \in Ios : io[j].pc \notin {"ausente", "registra"} => io'[j].pc \notin {"ausente", "registra"}
    BY <1>1
  <2> QED BY <1>1, <1>6, <1>7, <1>9, <1>10, <1>11, <2>2, <2>3, <2>4, <2>5, AvisosDeUno
<1>13. CASE io[i].pc = "busca"
  <2>1. semIo'[s] = semIo[s]
    BY <1>13, <1>6, <1>7, <1>s, <1>t DEF Uno
  <2>2. Buscan(s)' = Buscan(s) \ {i} /\ i \in Buscan(s)
    BY <1>1, <1>13, <1>s DEF Buscan
  <2>3. IsFiniteSet(Buscan(s)') /\ Cardinality(Buscan(s)') = Cardinality(Buscan(s)) - 1
    BY <1>7, <2>2, FS_RemoveElement
  <2>4. Cardinality(Buscan(s)) # 0
    BY <1>7, <2>2, FS_EmptySet
  <2>5. DelPrimero(s) /\ semIo[s] + Cardinality(Buscan(s)) = Cardinality(Esperan(n))
    BY <1>6, <1>7, <2>4 DEF Debe
  <2>6. semIo'[s] + Cardinality(Buscan(s)') = Cardinality(Esperan(n)')
    BY <1>7, <1>8, <1>9, <2>1, <2>3, <2>5
  <2>7. \A j \in Ios : io[j].pc \notin {"ausente", "registra"} => io'[j].pc \notin {"ausente", "registra"}
    BY <1>1
  <2> QED BY <1>1, <1>6, <1>9, <1>10, <1>11, <2>3, <2>5, <2>6, <2>7, AvisosDeUno
<1> QED BY <1>12, <1>13

\* The first lookup: a device that goes on to the other queue keeps its post.
LEMMA IoDespiertaAvisos ==
    ASSUME IInv, Lugares, Avisos, NEW i \in Ios, IoDespierta(i)
    PROVE  Avisos' \/ caido'
<1>t. io \in [Ios -> TipoIo] /\ semIo \in [Ios -> Nat]
  BY DEF IInv, TypeOK
<1>1. /\ io[i].pc = "espera" /\ UNCHANGED <<cola, timer, ios>> /\ semIo[io[i].sem] > 0
      /\ semIo' = [semIo EXCEPT ![io[i].sem] = @ - 1]
  BY DEF IoDespierta
<1>2. CASE \E p \in Procs : Coincide(p, "SUSP_BLOCKED", NombreDe[i]) /\ Toma(i, p)
  <2>1. semIo' = [semIo EXCEPT ![io[i].sem] = @ - Uno(io[i].pc = "espera")]
    BY <1>1 DEF Uno
  <2>2. io[i].pc \in {"espera", "busca"} /\ "SUSP_BLOCKED" \in {"BLOCKED", "SUSP_BLOCKED"}
    BY <1>1
  <2> QED BY <1>1, <1>2, <2>1, <2>2, TomaAvisos
<1>3. CASE io' = [io EXCEPT ![i].pc = "busca"] /\ UNCHANGED nombreIo
  <2>s. PICK s : s = io[i].sem
    OBVIOUS
  <2>1. /\ io'[i].pc = "busca" /\ \A j \in Ios : j # i => io'[j] = io[j]
        /\ \A j \in Ios : io'[j].sem = io[j].sem
    BY <1>3, <1>t, UnDispositivo, MismoSem
  <2>2. \A n : Esperan(n)' = Esperan(n)
    BY <1>1, <1>3 DEF Esperan, Esta, TimersDe
  <2>3. s \in Ios
    BY <1>t, <2>s DEF TipoIo
  <2>4. /\ IsFiniteSet(Buscan(s)) /\ semIo[s] \in Nat /\ Cardinality(Buscan(s)) \in Nat
        /\ semIo[s] + Cardinality(Buscan(s)) = Debe(s)
    BY <1>t, <2>3, FS_CardinalityType DEF Avisos, SemCuenta
  <2>5. semIo'[s] = semIo[s] - 1 /\ semIo[s] > 0
    BY <1>1, <1>t, <2>3, <2>s
  <2>6. DelPrimero(s) /\ semIo[s] + Cardinality(Buscan(s)) = Cardinality(Esperan(NombreDe[s]))
    BY <2>4, <2>5 DEF Debe
  <2>7. Buscan(s)' = Buscan(s) \cup {i} /\ i \notin Buscan(s)
    BY <1>1, <2>1, <2>s DEF Buscan
  <2>8. IsFiniteSet(Buscan(s)') /\ Cardinality(Buscan(s)') = Cardinality(Buscan(s)) + 1
    BY <2>4, <2>7, FS_AddElement
  <2>9. semIo'[s] + Cardinality(Buscan(s)') = Cardinality(Esperan(NombreDe[s])')
    <3>1. Cardinality(Esperan(NombreDe[s])') = Cardinality(Esperan(NombreDe[s]))
      BY <2>2
    <3> QED BY <2>4, <2>5, <2>6, <2>8, <3>1
  <2>10. ASSUME NEW r \in Ios, r # s PROVE semIo'[r] = semIo[r] /\ Buscan(r)' = Buscan(r)
    <3>1. semIo'[r] = semIo[r]
      BY <1>1, <1>t, <2>10, <2>s
    <3>2. Buscan(r)' = Buscan(r)
      BY <1>1, <2>1, <2>10, <2>s DEF Buscan
    <3> QED BY <3>1, <3>2
  <2>11. IsFiniteSet(Esperan(NombreDe[s])')
    BY <2>2, <2>3, NombresReales DEF Avisos, EsperanBien
  <2>12. \A j \in Ios : io[j].pc \notin {"ausente", "registra"} => io'[j].pc \notin {"ausente", "registra"}
    BY <2>1
  <2> QED BY <1>1, <2>1, <2>2, <2>3, <2>6, <2>8, <2>9, <2>10, <2>11, <2>12, AvisosDeUno
<1> QED BY <1>2, <1>3 DEF IoDespierta

\* The second one.
LEMMA IoBuscaAvisos ==
    ASSUME IInv, Lugares, Avisos, NEW i \in Ios, IoBusca(i)
    PROVE  Avisos' \/ caido'
<1>t. io \in [Ios -> TipoIo] /\ semIo \in [Ios -> Nat]
  BY DEF IInv, TypeOK
<1>1. io[i].pc = "busca" /\ UNCHANGED <<cola, timer, ios, semIo>>
  BY DEF IoBusca
<1>2. CASE \E p \in Procs : Coincide(p, "BLOCKED", NombreDe[i]) /\ Toma(i, p)
  <2>0. io[i].sem \in Ios
    BY <1>t DEF TipoIo
  <2>1. semIo' = [semIo EXCEPT ![io[i].sem] = @ - Uno(io[i].pc = "espera")]
    <3>1. semIo[io[i].sem] - Uno(io[i].pc = "espera") = semIo[io[i].sem]
      BY <1>1, <1>t, <2>0 DEF Uno
    <3> QED BY <1>1, <1>t, <3>1
  <2>2. io[i].pc \in {"espera", "busca"} /\ io[i].pc # "espera" /\ "BLOCKED" \in {"BLOCKED", "SUSP_BLOCKED"}
    BY <1>1
  <2> QED BY <1>1, <1>2, <2>1, <2>2, TomaAvisos
<1> QED BY <1>2 DEF IoBusca

\* The burst ends: the process has no name a device has from when it is taken.
LEMMA IoAlFinalAvisos ==
    ASSUME IInv, Lugares, Avisos, NEW i \in Ios, IoTermina(i) \/ IoSaca(i) \/ IoTransiciona(i)
    PROVE  Avisos'
<1>e. {"BLOCKED", "SUSP_BLOCKED"} \subseteq Estados
  BY DEF Estados
<1>t. io \in [Ios -> TipoIo] /\ nombreIo \in [Procs -> Nombres \cup {Vacio, Nulo, Basura}]
  BY DEF IInv, TypeOK
<1>0. io[i].proc \in Procs
  BY DEF IoTermina, IoSaca, IoTransiciona, IInv, ConProceso
<1>p. PICK p \in Procs : p = io[i].proc
  BY <1>0
<1>1. UNCHANGED <<timer, semIo, ios>>
  BY DEF IoTermina, IoSaca, IoTransiciona
<1>2. /\ io[i].pc # "busca" /\ io'[i].pc \notin {"busca", "ausente", "registra"}
      /\ \A j \in Ios : j # i => io'[j] = io[j]
      /\ \A j \in Ios : io'[j].sem = io[j].sem
  <2>1. /\ io[i].pc # "busca" /\ io'[i].pc \notin {"busca", "ausente", "registra"}
        /\ \A j \in Ios : j # i => io'[j] = io[j]
    <3>1. CASE IoTermina(i)
      <4>1. PICK x \in {"enBlocked", "enSusp"} : io[i].pc = "trabaja" /\ io' = [io EXCEPT ![i].pc = x]
        BY <3>1 DEF IoTermina, DondeEsta
      <4> QED BY <1>t, <4>1, UnDispositivo
    <3>2. CASE IoSaca(i)
      BY <1>t, <3>2, UnDispositivo DEF IoSaca
    <3>3. CASE IoTransiciona(i)
      <4>1. io[i].pc \in {"aReady", "aSuspReady"} /\ io' = [io EXCEPT ![i].pc = "espera", ![i].proc = Nadie]
        BY <3>3 DEF IoTransiciona
      <4>2. io'[i].pc = "espera" /\ \A j \in Ios : j # i => io'[j] = io[j]
        BY <1>t, <4>1 DEF TipoIo
      <4> QED BY <4>1, <4>2
    <3> QED BY <3>1, <3>2, <3>3
  <2>2. \A j \in Ios : io'[j].sem = io[j].sem
    <3>1. PICK x, q : io' = [io EXCEPT ![i].pc = x] \/ io' = [io EXCEPT ![i].pc = x, ![i].proc = q]
      BY DEF IoTermina, IoSaca, IoTransiciona
    <3> QED BY <1>t, <3>1, MismoSem
  <2> QED BY <2>1, <2>2
<1>3. nombreIo[p] \in {Vacio, Nulo}
  BY <1>p DEF Lugares, LugarBien, IoBien
<1>4. nombreIo'[p] \in {Vacio, Nulo} /\ \A q \in Procs : q # p => nombreIo'[q] = nombreIo[q]
  BY <1>3, <1>p, <1>t DEF IoTermina, IoSaca, IoTransiciona, pcbs
<1>5. \A q \in Procs : q # p => Bloqueado(q)' <=> Bloqueado(q)
  <2>1. CASE IoTermina(i)
    BY <1>1, <2>1, EsperaQuieta DEF IoTermina, Esta
  <2>2. CASE IoSaca(i)
    BY <1>e, <1>p, <2>2, IoSacaLugares, EsperaQuieta DEF Mueve, Quieto
  <2>3. CASE IoTransiciona(i)
    BY <1>e, <1>p, <2>3, IoTransicionaLugares, EsperaQuieta DEF Mueve, Quieto
  <2> QED BY <2>1, <2>2, <2>3
<1>6. \A n \in Nombres : Esperan(n)' = Esperan(n)
  <2> SUFFICES ASSUME NEW n \in Nombres PROVE Esperan(n)' = Esperan(n)
    OBVIOUS
  <2>0. n # Vacio /\ n # Nulo
    BY ConstantesAssumption
  <2>1. \A q \in Procs : \/ Espera(q)
                         \/ ~(Bloqueado(q) /\ nombreIo[q] = n) /\ ~(Bloqueado(q)' /\ nombreIo'[q] = n)
    BY <1>3, <1>4, <1>5, <2>0 DEF Espera
  <2> QED BY <2>1, EsperanQuietos
<1> QED BY <1>1, <1>2, <1>6, AvisosQuietos

LEMMA InitAvisos == Init => Avisos
<1> SUFFICES ASSUME Init PROVE Avisos
  OBVIOUS
<1>1. \A p \in Procs : ~Bloqueado(p)
  <2>1. cola["BLOCKED"] = <<>> /\ cola["SUSP_BLOCKED"] = <<>>
    BY DEF Init, Estados
  <2>2. \A p \in Procs : ~Sacado(p)
    BY DEF Init, Sacado, TimersDe
  <2> QED BY <2>1, <2>2 DEF Bloqueado, Esta
<1>2. \A n : Esperan(n) = {}
  BY <1>1 DEF Esperan, Bloqueado, Sacado
<1>3. /\ \A i \in Ios : io[i].sem = i /\ semIo[i] = 0 /\ io[i].pc = "ausente"
      /\ ios = <<>>
  BY DEF Init
<1>4. \A s : Buscan(s) = {}
  BY <1>3 DEF Buscan
<1>5. \A s : ~DelPrimero(s)
  BY <1>3 DEF DelPrimero, EsIoDe
<1>6. SemBien
  BY <1>3 DEF SemBien
<1>7. IsFiniteSet({}) /\ Cardinality({}) = 0
  BY FS_EmptySet
<1>8. EsperanBien
  BY <1>2, <1>7 DEF EsperanBien
<1>9. SemCuenta
  <2> SUFFICES ASSUME NEW s \in Ios
               PROVE  IsFiniteSet(Buscan(s)) /\ semIo[s] + Cardinality(Buscan(s)) = Debe(s)
    BY DEF SemCuenta
  <2>1. Debe(s) = 0 /\ Buscan(s) = {} /\ semIo[s] = 0
    BY <1>3, <1>4, <1>5 DEF Debe
  <2> QED BY <1>7, <2>1
<1> QED BY <1>6, <1>8, <1>9 DEF Avisos

LEMMA NextAvisos ==
    ASSUME Regimen, IInv, Lugares, Avisos, [Next]_vars
    PROVE  Avisos' \/ caido'
<1>1. CASE SinBloqueos
  BY <1>1, SinBloqueosAvisos
<1>2. CASE \E h \in Hilos : Hilo(h)
  BY <1>1, <1>2, SinDumps, IoBuscaDispositivoAvisos, IoBloqueaAvisos DEF Hilo, SinBloqueos
<1>3. CASE \E p \in Procs, k \in Veces : Timer(p, k)
  BY <1>3, TimerAvisos
<1>4. CASE \E i \in Ios : ConectarIo(i) \/ Io(i)
  BY <1>4, ConectarAvisos, RegistrarAvisos, IoDespiertaAvisos, IoBuscaAvisos, IoAlFinalAvisos DEF Io
<1> QED BY <1>1, <1>2, <1>3, <1>4 DEF Next, SinBloqueos

\* A dead Kernel stays dead.
LEMMA NextCaido == ASSUME caido, [Next]_vars PROVE caido'
<1>1. CASE Largo \/ MedianoFifo \/ Mediano \/ Corto \/ (\E c \in Cpus : ConectarCpu(c)) \/ UsoTrasLiberar \/ UNCHANGED vars
  BY <1>1 DEF Largo, LargoDespierta, LargoEsperaVacia, LargoAceptado, LargoRechazado, LargoAdmite,
              MedianoFifo, MedianoFifoDespierta, MedianoFifoAceptado, MedianoFifoRechazado,
              MedianoFifoSaca, MedianoFifoAdmite, MedianoFifoAvisa,
              Mediano, MedianoDespierta, MedianoEnvia, MedianoIntenta, Corto, Despachar, ConectarCpu,
              UsoTrasLiberar, vars, Sigue
<1>2. CASE \E h \in Hilos : Hilo(h)
  BY <1>2 DEF Hilo, SyscallInitProc, SyscallExit, FinalizarIntenta, FinalizarTermina, SyscallDump,
              DumpLiberaCpu, DumpAceptado, DumpAReady, DumpRechazado, SyscallIo, IoBuscaDispositivo,
              IoFinaliza, IoBloquea, Sigue
<1>3. CASE \E p \in Procs, k \in Veces : Timer(p, k)
  BY <1>3 DEF Timer, TimerNace, TimerCompara, TimerBusca, TimerSaca, TimerSuspende, Sigue
<1>4. CASE \E i \in Ios : ConectarIo(i) \/ Io(i)
  BY <1>4 DEF Io, ConectarIo, RegistrarIo, IoDespierta, IoBusca, IoTermina, IoSaca, IoTransiciona, Sigue
<1> QED BY <1>1, <1>2, <1>3, <1>4 DEF Next

\* With any number of devices, that share names or not, each process that waits
\* for a device was announced once on the semaphore of that name and each device
\* that looks was woken for one of them.  Assumed: no process issues DUMP_MEMORY,
\* and the threads that suspend a process and those of the end of its burst do
\* not work at the same time (Regimen).  Nothing is said of a Kernel that died.
THEOREM LosAvisosCuadran == ASSUME Regimen PROVE Spec => []AvisosDeIo
<1>1. Init => caido \/ Avisos
  BY InitAvisos
<1>2. IInv /\ Lugares /\ (caido \/ Avisos) /\ [Next]_vars => (caido \/ Avisos)'
  BY NextAvisos, NextCaido
<1>3. IInv /\ (caido \/ Avisos) => AvisosDeIo
  <2> SUFFICES ASSUME IInv, Avisos, NEW i \in Ios, EsIoDe(i, NombreDe[i])
               PROVE  semIo[io[i].sem] + Cardinality(Buscan(io[i].sem)) = Cardinality(Esperan(NombreDe[i]))
    BY DEF AvisosDeIo
  <2>1. io[i].sem \in Ios
    BY DEF IInv, TypeOK, TipoIo
  <2>2. NombreDe[io[i].sem] = NombreDe[i]
    BY DEF Avisos, SemBien
  <2>3. DelPrimero(io[i].sem)
    BY <2>2 DEF DelPrimero
  <2> QED BY <2>1, <2>2, <2>3 DEF Avisos, SemCuenta, Debe
<1> QED BY <1>1, <1>2, <1>3, InvarianteInductivo, InvarianteDeLugares, PTL DEF Spec

=============================================================================
